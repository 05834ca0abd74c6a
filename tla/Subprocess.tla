----------------------------- MODULE Subprocess -----------------------------
(* Child processes: the ChildProcess objects of one service                 *)
(* (subprocess-core.js, skyjs/subprocess.js, child_process.js), the owner   *)
(* service that runs them (subprocess-service.js), and the processes, whose *)
(* pipes hold at most Room chunks (js-subprocess.c).  The two services talk *)
(* through mailboxes, so a request is a message of its own, and so is its   *)
(* answer.  The pid of a process is named by its object; pids are not       *)
(* reused, and None stands for the pid 0 of an object that has none yet.    *)
EXTENDS Integers, FiniteSets, SequencesExt

CONSTANTS
    Kid, Wait,      \* the ChildProcess objects and the wait() calls
    Program,        \* what a process may do, a sequence of steps
    MaxProcesses, MaxOutput, Room,
    Allowance,      \* bounds what user code does with each object
    None
Stream == {"out", "err"}
Record == [exited : BOOLEAN, code : Int, truncated : BOOLEAN, sink : [Stream -> Seq(Nat)]]
ASSUME SubprocessAssumption ==
    /\ {MaxProcesses, MaxOutput, Room} \subseteq Nat \ {0}
    /\ Allowance \subseteq [Kid -> Nat]
    /\ Program \subseteq Seq(Stream \cup {"in"}) \cup {<<"missing">>}
    /\ None \notin Kid \cup Record

VARIABLES
    child,      \* the objects: what their streams were pushed, what they emitted
    wait,       \* the wait() calls
    named,      \* the process that start(name) keeps under the one name
    starting,   \* those whose start(name) has not got to named.set
    writing,    \* the objects whose stdin waits for an answer
    calls,      \* what user code may still do with each object
    mail,       \* requests on their way to the owner
    replies,    \* answers on their way back
    record,     \* the owner's procs
    at,         \* what the owner is in the middle of
    proc        \* the processes and their pipes
subprocessVars ==
    <<child, wait, named, starting, writing, calls, mail, replies, record, at, proc>>
clientVars == <<child, wait, named, starting, writing, calls>>

End == -1
Idle == [doing |-> "idle", kid |-> None]
Nobody == [pc |-> "none", kid |-> None, pid |-> None, stops |-> FALSE,
           code |-> 0, body |-> [s \in Stream |-> <<>>]]
SubprocessInit ==
    /\ child = [k \in Kid |-> [ready |-> "new", exits |-> 0, code |-> 0,
                               pushed |-> [s \in Stream |-> <<>>]]]
    /\ wait = [w \in Wait |-> Nobody]
    /\ named = None /\ starting = <<>> /\ writing = {} /\ calls \in Allowance
    /\ mail = <<>> /\ replies = <<>>
    /\ record = [k \in Kid |-> None] /\ at = Idle
    /\ proc \in [Kid -> {[status |-> "none", left |-> p, stdin |-> 0, code |-> 0,
                          pipe |-> [s \in Stream |-> <<>>],
                          said |-> [s \in Stream |-> <<>>]] : p \in Program}]

Request(op, pid, by) == [op |-> op, pid |-> pid, by |-> by]
Answer(m, ok, val) == [op |-> m.op, by |-> m.by, ok |-> ok, val |-> val]
(* -------------------------- the caller: user code ------------------------- *)
Pid(k) == IF child[k].ready = "up" THEN k ELSE None
Does(k) == calls[k] > 0 /\ calls' = [calls EXCEPT ![k] = @ - 1]
\* The names of the wait() calls mean nothing: they are taken in one order.
Waits(w, k, stops) ==
    /\ Does(k) /\ w = (CHOOSE v \in Wait : wait[v].pc = "none")
    /\ wait' = [wait EXCEPT ![w] = [Nobody EXCEPT !.pc = "status", !.kid = k, !.pid = Pid(k),
                                               !.stops = stops]]
\* The object is there at once; its pid comes with the owner's answer.
Spawns(k) ==
    /\ child[k].ready = "new"
    /\ child' = [child EXCEPT ![k].ready = "asked"]
SpawnRequest(k) == [Request("spawn", None, None) EXCEPT !.by = k]
UserSpawn(k) ==
    /\ Spawns(k) /\ Does(k)
    /\ mail' = Append(mail, SpawnRequest(k))
    /\ UNCHANGED <<wait, named, starting, writing, replies, record, at, proc>>
UserWait(k, w) ==
    /\ wait[w].pc = "none" /\ child[k].ready # "new"
    /\ Waits(w, k, FALSE)
    /\ mail' = Append(mail, Request("status", Pid(k), w))
    /\ UNCHANGED <<child, named, starting, writing, replies, record, at, proc>>
\* The await of exec does not wait for the pid: spawn() gives no promise.  The chunk for
\* stdin, if there is one, goes through two more turns of the stream than the status.
UserExec(k, w) ==
    /\ wait[w].pc = "none" /\ Spawns(k)
    /\ Waits(w, k, FALSE)
    /\ LET asks == <<SpawnRequest(k), Request("status", Pid(k), w)>>
       IN  \/ mail' = mail \o asks /\ UNCHANGED writing
           \/ /\ mail' = mail \o Append(asks, Request("write", Pid(k), k))
              /\ writing' = writing \cup {k}
    /\ UNCHANGED <<named, starting, replies, record, at, proc>>
\* A chunk waits for the one before it.  end() sends nothing: final is not called.
UserWrite(k) ==
    /\ child[k].ready # "new" /\ k \notin writing
    /\ Does(k) /\ writing' = writing \cup {k}
    /\ mail' = Append(mail, Request("write", Pid(k), k))
    /\ UNCHANGED <<child, wait, named, starting, replies, record, at, proc>>
UserKill(k) ==
    /\ child[k].ready # "new" /\ Does(k)
    /\ mail' = Append(mail, Request("kill", Pid(k), k))
    /\ UNCHANGED <<child, wait, named, starting, writing, replies, record, at, proc>>
\* The name is looked up before the await and taken after it.
UserStart(k) ==
    /\ named = None
    /\ Spawns(k) /\ Does(k)
    /\ starting' = Append(starting, k)
    /\ mail' = Append(mail, SpawnRequest(k))
    /\ UNCHANGED <<wait, named, writing, replies, record, at, proc>>
Named ==
    /\ starting # <<>>
    /\ named' = Head(starting) /\ starting' = Tail(starting)
    /\ UNCHANGED <<child, wait, writing, calls, mail, replies, record, at, proc>>
UserStop(w) ==
    /\ named # None /\ wait[w].pc = "none"
    /\ Waits(w, named, TRUE)
    /\ mail' = mail \o <<Request("kill", Pid(named), named), Request("status", Pid(named), w)>>
    /\ UNCHANGED <<child, named, starting, writing, replies, record, at, proc>>
(* ------------------------- the caller: the answers ------------------------ *)
Goes(w, pc) == wait' = [wait EXCEPT ![w].pc = pc]
Asks(w, op) == mail' = Append(mail, Request(op, wait[w].pid, w))
OnSpawn(r) ==
    /\ child' = [child EXCEPT ![r.by].ready = IF r.ok THEN "up" ELSE "failed"]
    /\ UNCHANGED <<wait, named, writing, mail>>
OnStatus(r) ==
    /\ IF ~r.ok THEN Goes(r.by, "failed") /\ UNCHANGED mail
       ELSE IF r.val.exited
            THEN /\ wait' = [wait EXCEPT ![r.by].pc = "stdout", ![r.by].code = r.val.code]
                 /\ Asks(r.by, "stdout")
            ELSE Goes(r.by, "asleep") /\ UNCHANGED mail
    /\ UNCHANGED <<child, named, writing>>
OnStdout(r) ==
    /\ IF r.ok
       THEN /\ wait' = [wait EXCEPT ![r.by].pc = "stderr", ![r.by].body["out"] = r.val]
            /\ Asks(r.by, "stderr")
       ELSE Goes(r.by, "failed") /\ UNCHANGED mail
    /\ UNCHANGED <<child, named, writing>>
\* Both streams get their bytes and their end, and exit and close are emitted.
Told(c, w, err) ==
    [c EXCEPT !.exits = @ + 1, !.code = wait[w].code,
              !.pushed = [s \in Stream |->
                  @[s] \o (IF s = "out" THEN wait[w].body["out"] ELSE err) \o <<End>>]]
OnStderr(r) ==
    /\ IF r.ok
       THEN /\ child' = [child EXCEPT ![wait[r.by].kid] = Told(@, r.by, r.val)]
            /\ Goes(r.by, "release") /\ Asks(r.by, "release")
       ELSE Goes(r.by, "failed") /\ UNCHANGED <<child, mail>>
    /\ UNCHANGED <<named, writing>>
OnRelease(r) ==
    /\ Goes(r.by, "done")
    /\ named' = IF wait[r.by].stops THEN None ELSE named
    /\ UNCHANGED <<child, writing, mail>>
OnWritten(r) ==
    /\ writing' = writing \ {r.by}
    /\ UNCHANGED <<child, wait, named, mail>>
OnReply ==
    /\ replies # <<>> /\ starting = <<>>
    /\ LET r == Head(replies)
       IN  \/ r.op = "spawn" /\ OnSpawn(r)
           \/ r.op = "status" /\ OnStatus(r)
           \/ r.op = "stdout" /\ OnStdout(r)
           \/ r.op = "stderr" /\ OnStderr(r)
           \/ r.op = "release" /\ OnRelease(r)
           \/ r.op = "write" /\ OnWritten(r)
           \/ r.op = "kill" /\ UNCHANGED <<child, wait, named, writing, mail>>
    /\ replies' = Tail(replies)
    /\ UNCHANGED <<starting, calls, record, at, proc>>
\* The sleep of 20 ms between two looks.
Wake(w) ==
    /\ wait[w].pc = "asleep" /\ starting = <<>>
    /\ Goes(w, "status") /\ Asks(w, "status")
    /\ UNCHANGED <<child, named, starting, writing, calls, replies, record, at, proc>>
(* ----------------- processes and pipes, as the owner uses them ------------ *)
Runs(k) == proc[k].status = "running"
NoBytes == [s \in Stream |-> <<>>]
Launches(k) == proc' = [proc EXCEPT ![k] = [@ EXCEPT !.status = "running", !.pipe = NoBytes]]
\* A signal ends the process, unless it has ended.
Kills(k) ==
    proc' = IF Runs(k) THEN [proc EXCEPT ![k] = [@ EXCEPT !.status = "zombie", !.code = -1]]
                       ELSE proc
\* read() until the pipes are empty.
Emptied(k) == [proc EXCEPT ![k].pipe = NoBytes]
HasEnded(k) == ~Runs(k)
\* One that still runs is killed; the pipes are closed.
Frees(k) ==
    proc' = [proc EXCEPT ![k] = [@ EXCEPT !.status = "gone", !.stdin = 0, !.pipe = NoBytes]]
(* -------------------------------- the owner ------------------------------- *)
Known(k) == k # None /\ record[k] # None
Full(k) == proc[k].stdin = Room
NewRecord == [exited |-> FALSE, code |-> 0, truncated |-> FALSE,
              sink |-> [s \in Stream |-> <<>>]]
Missing(k) == proc[k].left # <<>> /\ Head(proc[k].left) = "missing"
Records == {k \in Kid : record[k] # None}
Replies(m, ok, val) ==
    /\ replies' = Append(replies, Answer(m, ok, val))
    /\ mail' = Tail(mail)
Spawn(m) ==
    LET k  == m.by
        ok == Cardinality(Records) < MaxProcesses /\ ~Missing(k)
    IN  /\ record' = IF ok THEN [record EXCEPT ![k] = NewRecord] ELSE record
        /\ IF ok THEN Launches(k) ELSE UNCHANGED proc
        /\ Replies(m, ok, None)
Status(m) ==
    /\ Replies(m, Known(m.pid),
               IF Known(m.pid) THEN [exited |-> record[m.pid].exited, code |-> record[m.pid].code]
                               ELSE None)
    /\ UNCHANGED <<record, proc>>
\* A process that runs answers with no bytes.
Read(m, s) ==
    /\ Replies(m, Known(m.pid),
               IF Known(m.pid) /\ record[m.pid].exited THEN record[m.pid].sink[s] ELSE <<>>)
    /\ UNCHANGED <<record, proc>>
Signal(m) ==
    /\ IF Known(m.pid) THEN Kills(m.pid) ELSE UNCHANGED proc
    /\ Replies(m, Known(m.pid), None)
    /\ UNCHANGED record
Release(m) ==
    /\ record' = IF Known(m.pid) THEN [record EXCEPT ![m.pid] = None] ELSE record
    /\ IF Known(m.pid) THEN Frees(m.pid) ELSE UNCHANGED proc
    /\ Replies(m, TRUE, None)
\* stdin is a blocking pipe: the owner stays in write() while it is full.
WriteEnds(m) ==
    LET ok == Known(m.pid) /\ Runs(m.pid)
    IN  /\ proc' = IF ok THEN [proc EXCEPT ![m.pid].stdin = @ + 1] ELSE proc
        /\ Replies(m, ok, None)
        /\ UNCHANGED record
\* BUG: a write goes on waiting when the process has ended.
Blocks_Dead(m) == Known(m.pid) /\ Full(m.pid)
Blocks(m) == Known(m.pid) /\ Runs(m.pid) /\ Full(m.pid)
Write(m) == ~Blocks(m) /\ WriteEnds(m)
Handle ==
    /\ at = Idle /\ mail # <<>>
    /\ LET m == Head(mail)
       IN  \/ m.op = "spawn" /\ Spawn(m)
           \/ m.op = "status" /\ Status(m)
           \/ m.op = "stdout" /\ Read(m, "out")
           \/ m.op = "stderr" /\ Read(m, "err")
           \/ m.op = "write" /\ Write(m)
           \/ m.op = "kill" /\ Signal(m)
           \/ m.op = "release" /\ Release(m)
    /\ UNCHANGED <<clientVars, at>>
Block ==
    /\ at = Idle /\ mail # <<>> /\ Head(mail).op = "write" /\ Blocks(Head(mail))
    /\ at' = [doing |-> "write", kid |-> Head(mail).pid]
    /\ UNCHANGED <<clientVars, mail, replies, record, proc>>
Unblock ==
    /\ at.doing = "write" /\ ~Blocks(Head(mail))
    /\ WriteEnds(Head(mail)) /\ at' = Idle
    /\ UNCHANGED clientVars
\* Over the limit, what was kept of the stream goes, and nothing more is kept.
Sunk(r, s, bytes) ==
    IF r.truncated THEN r
    ELSE LET total == r.sink[s] \o bytes
         IN  IF Len(total) > MaxOutput THEN [r EXCEPT !.truncated = TRUE, !.sink[s] = <<>>]
                                       ELSE [r EXCEPT !.sink[s] = total]
Drained(r, k) == Sunk(Sunk(r, "out", proc[k].pipe["out"]), "err", proc[k].pipe["err"])
\* A tick of pump() first drains both pipes; one that would find nothing to
\* read and nothing ended changes nothing and is left out.
TickDrains(k) ==
    /\ at = Idle /\ record[k] # None /\ ~record[k].exited
    /\ HasEnded(k) \/ \E s \in Stream : proc[k].pipe[s] # <<>>
    /\ record' = [record EXCEPT ![k] = Drained(@, k)]
    /\ proc' = Emptied(k)
    /\ at' = [doing |-> "tick", kid |-> k]
    /\ UNCHANGED <<clientVars, mail, replies>>
\* BUG: what the process wrote between the drain and its end stays in the pipe.
LastDrain_Lost(k) == [record[k] EXCEPT !.exited = TRUE, !.code = proc[k].code]
\* Then it looks whether the process ended, and drains once more if so.
LastDrain(k) == [Drained(record[k], k) EXCEPT !.exited = TRUE, !.code = proc[k].code]
TickWaits(k) ==
    /\ at = [doing |-> "tick", kid |-> k]
    /\ at' = Idle
    /\ IF HasEnded(k) THEN record' = [record EXCEPT ![k] = LastDrain(k)] /\ proc' = Emptied(k)
                      ELSE UNCHANGED <<record, proc>>
    /\ UNCHANGED <<clientVars, mail, replies>>
(* ------------------------------ the processes ----------------------------- *)
\* A step writes a byte to a stream that has room, or reads a chunk of stdin.
Blocked(k) ==
    /\ Runs(k) /\ proc[k].left # <<>>
    /\ Head(proc[k].left) \in Stream
    /\ Len(proc[k].pipe[Head(proc[k].left)]) = Room
Hungry(k) == Runs(k) /\ proc[k].left # <<>> /\ Head(proc[k].left) = "in" /\ proc[k].stdin = 0
Says(k, s) ==
    LET b == Len(proc[k].said[s]) + 1
    IN  [proc[k] EXCEPT !.left = Tail(@), !.pipe[s] = Append(@, b), !.said[s] = Append(@, b)]
Reads(k) == [proc[k] EXCEPT !.left = Tail(@), !.stdin = @ - 1]
ProcStep(k) ==
    /\ Runs(k) /\ proc[k].left # <<>> /\ ~Blocked(k) /\ ~Hungry(k)
    /\ proc' = [proc EXCEPT ![k] =
            IF Head(@.left) = "in" THEN Reads(k) ELSE Says(k, Head(@.left))]
    /\ UNCHANGED <<clientVars, mail, replies, record, at>>
Exits(k) ==
    /\ Runs(k) /\ proc[k].left = <<>>
    /\ proc' = [proc EXCEPT ![k].status = "zombie"]
    /\ UNCHANGED <<clientVars, mail, replies, record, at>>

UserSubprocess ==
    \/ \E k \in Kid : UserSpawn(k) \/ UserWrite(k) \/ UserKill(k) \/ UserStart(k)
    \/ \E k \in Kid, w \in Wait : UserWait(k, w) \/ UserExec(k, w)
    \/ \E w \in Wait : UserStop(w)
Mail == Handle \/ Block \/ Unblock
Tick(k) == TickDrains(k) \/ TickWaits(k)
ProcSteps(k) == ProcStep(k) \/ Exits(k)
SubprocessNext ==
    \/ UserSubprocess \/ Named \/ OnReply \/ Mail
    \/ \E w \in Wait : Wake(w)
    \/ \E k \in Kid : Tick(k) \/ ProcSteps(k)
SubprocessSpec == SubprocessInit /\ [][SubprocessNext]_subprocessVars
=============================================================================

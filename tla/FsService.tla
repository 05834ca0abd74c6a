------------------------------ MODULE FsService ------------------------------
(* Files: the synchronous operations of fs and fsx (fs-core.js, fs-sync.js, *)
(* fs/index.js, fs/streams.js), which run in the caller's thread, and the   *)
(* asynchronous ones of fsx, which go through the mailbox of the file       *)
(* service (fs-client.js, fs-service.js) and are subject to its policy      *)
(* (permission.js).  Names are of one directory; contents are sequences of  *)
(* chunks.  The two threads meet in the file system: a write of the service *)
(* truncates the file and then fills it, a read looks at the size first.    *)
EXTENDS Integers, SequencesExt

CONSTANTS
    Path, Call,     \* the names, the asynchronous calls
    Content,        \* what user code writes
    Policy,         \* the options user code gives configure()
    MaxSyncs,       \* bounds the synchronous changes
    Absent, Default
ASSUME FsAssumption ==
    /\ MaxSyncs \in Nat
    /\ Path # {} /\ Content \subseteq Seq(Nat)     \* a chunk is a number
    /\ Absent \notin Path /\ Absent \notin Call /\ Absent \notin Seq(Nat)
    /\ \A p \in Policy \cup {Default} :
          p.roots \subseteq Path /\ p.max > 0 /\ p.readOnly \in BOOLEAN

VARIABLES
    files,      \* Path -> content or Absent
    call,       \* the asynchronous calls
    inbox,      \* requests on their way to the service
    answers,    \* answers on their way back
    policy,     \* the service's
    doing,      \* the request the service is in the middle of
    open,       \* where the file it is writing is now, Absent if nowhere
    syncs,
    asked       \* the policy last asked for
fsVars == <<files, call, inbox, answers, policy, doing, open, syncs, asked>>

Free == [pc |-> "none", op |-> Absent, path |-> Absent, data |-> <<>>, under |-> Default,
         held |-> {}, disturbed |-> FALSE]
FsInit ==
    /\ files \in [Path -> {Absent} \cup Content]
    /\ call = [t \in Call |-> Free]
    /\ inbox = <<>> /\ answers = <<>> /\ doing = Absent /\ open = Absent /\ syncs = 0
    /\ policy = Default /\ asked = Default

\* What a path held while a call was pending, and whether a synchronous
\* change met the call in the service.
Watched(now) ==
    call' = [t \in Call |-> IF call[t].pc = "pending"
                            THEN [call[t] EXCEPT !.held = @ \cup {now[call[t].path]}]
                            ELSE call[t]]
(* --------------------------- permission.js, pure -------------------------- *)
Inside(p, path) == p.roots = {} \/ path \in p.roots
WithinQuota(p, size) == size <= p.max
\* BUG: a write is not checked against the mode.
Permits_Mode(p, op, path, size) == Inside(p, path) /\ WithinQuota(p, size)
Permits(p, op, path, size) ==
    /\ Inside(p, path)
    /\ op = "writeFile" => ~p.readOnly
    /\ WithinQuota(p, size)
(* ------------------------- synchronous operations ------------------------- *)
Old(p) == IF files[p] = Absent THEN <<>> ELSE files[p]
\* The files after each of them; a WriteStream that ends writes what its
\* _chunks hold, which is nothing, since its _write is not what write() calls.
Written(p, d) == [files EXCEPT ![p] = d]
Appended(p, d) == [files EXCEPT ![p] = Old(p) \o d]
Removed(p) == [files EXCEPT ![p] = Absent]
Renamed(p, q) == [files EXCEPT ![q] = files[p], ![p] = Absent]
Copied(p, q) == [files EXCEPT ![q] = files[p]]
StreamEnded(p) == [files EXCEPT ![p] = <<>>]
\* What the caller changes under the service's hands; to says where an open
\* file is afterwards.
Changes(new, to) ==
    /\ syncs < MaxSyncs /\ syncs' = syncs + 1
    /\ files' = new /\ open' = to
    /\ call' = [t \in Call |->
            IF call[t].pc = "pending"
            THEN [call[t] EXCEPT !.held = @ \cup {new[call[t].path]},
                                 !.disturbed =
                                     @ \/ (doing = t /\ (open # to \/ new # files))]
            ELSE call[t]]
    /\ UNCHANGED <<inbox, answers, policy, doing, asked>>
WriteFileSync(p, d) == Changes(Written(p, d), open)
AppendFileSync(p, d) == Changes(Appended(p, d), open)
RmSync(p) == files[p] # Absent /\ Changes(Removed(p), IF open = p THEN Absent ELSE open)
RenameSync(p, q) ==
    /\ p # q /\ files[p] # Absent
    /\ Changes(Renamed(p, q), IF open = p THEN q ELSE IF open = q THEN Absent ELSE open)
CopyFileSync(p, q) == p # q /\ files[p] # Absent /\ Changes(Copied(p, q), open)
WriteStreamEnds(p) == Changes(StreamEnded(p), open)
(* ------------------------- asynchronous operations ------------------------ *)
Pending(op, p, d, pol) ==
    [pc |-> "pending", op |-> op, path |-> p, data |-> d, under |-> pol,
     held |-> {files[p]}, disturbed |-> FALSE]
\* The names of the calls mean nothing: they are taken in one order.
Unused(t) == call[t].pc = "none" /\ t = (CHOOSE u \in Call : call[u].pc = "none")
Sends(t, op, p, d) ==
    /\ Unused(t)
    /\ call' = [call EXCEPT ![t] = Pending(op, p, d, asked)]
    /\ inbox' = Append(inbox, t)
    /\ UNCHANGED <<files, answers, policy, doing, open, syncs>>
ReadFileAsync(t, p) == Sends(t, "readFile", p, <<>>) /\ UNCHANGED asked
WriteFileAsync(t, p, d) == Sends(t, "writeFile", p, d) /\ UNCHANGED asked
\* The old content is read at once, in the caller's thread.
AppendFileAsync(t, p, d) == Sends(t, "writeFile", p, Old(p) \o d) /\ UNCHANGED asked
Configure(t, pol) ==
    /\ Unused(t)
    /\ call' = [call EXCEPT ![t] = Pending("policy", CHOOSE p \in Path : TRUE, <<>>, pol)]
    /\ inbox' = Append(inbox, t) /\ asked' = pol
    /\ UNCHANGED <<files, answers, policy, doing, open, syncs>>
(* ------------------------------- the service ------------------------------ *)
Replied(t, ok, d) ==
    /\ answers' = Append(answers, [by |-> t, ok |-> ok, data |-> d])
    /\ inbox' = Tail(inbox)
Is(op) == doing = Absent /\ inbox # <<>> /\ call[Head(inbox)].op = op
ServicePolicy ==
    /\ Is("policy")
    /\ policy' = call[Head(inbox)].under
    /\ Replied(Head(inbox), TRUE, <<>>)
    /\ UNCHANGED <<files, call, doing, open, syncs, asked>>
\* Path, mode and size are checked, and a missing file to read is an error,
\* before anything is done: the answer is an error, or the work begins.
Size(c) == IF c.op = "readFile" THEN Len(Old(c.path)) ELSE Len(c.data)
Admits(c) == Permits(policy, c.op, c.path, Size(c))
Refuse ==
    /\ Is("readFile") \/ Is("writeFile")
    /\ LET c == call[Head(inbox)]
       IN  ~Admits(c) \/ (c.op = "readFile" /\ files[c.path] = Absent)
    /\ Replied(Head(inbox), FALSE, <<>>)
    /\ UNCHANGED <<files, call, policy, doing, open, syncs, asked>>
StartRead ==
    /\ Is("readFile") /\ Admits(call[Head(inbox)])
    /\ files[call[Head(inbox)].path] # Absent
    /\ doing' = Head(inbox)
    /\ UNCHANGED <<files, call, inbox, answers, policy, open, syncs, asked>>
StartWrite ==
    /\ Is("writeFile") /\ Admits(call[Head(inbox)])
    /\ doing' = Head(inbox)
    /\ files' = Written(call[Head(inbox)].path, <<>>) /\ open' = call[Head(inbox)].path
    /\ UNCHANGED <<call, inbox, answers, policy, syncs, asked>>
EndRead ==
    /\ doing # Absent /\ call[doing].op = "readFile"
    /\ Replied(doing, files[call[doing].path] # Absent, Old(call[doing].path))
    /\ doing' = Absent
    /\ UNCHANGED <<files, call, policy, open, syncs, asked>>
\* The bytes go to the start of the file that was opened; what the caller
\* put there meanwhile stays behind them, and a file removed stays removed.
Filled(d) == IF open = Absent THEN files
             ELSE Written(open, d \o SubSeq(files[open], Len(d) + 1, Len(files[open])))
EndWrite ==
    /\ doing # Absent /\ call[doing].op = "writeFile"
    /\ files' = Filled(call[doing].data)
    /\ Watched(files')
    /\ Replied(doing, TRUE, <<>>)
    /\ doing' = Absent /\ open' = Absent
    /\ UNCHANGED <<policy, syncs, asked>>
Serve == ServicePolicy \/ Refuse \/ StartRead \/ StartWrite \/ EndRead \/ EndWrite
(* -------------------------------- the answer ------------------------------ *)
Settled(c, r) ==
    [c EXCEPT !.pc = IF r.ok THEN "done" ELSE "failed",
              !.data = IF c.op = "readFile" THEN r.data ELSE c.data]
Answered ==
    /\ answers # <<>>
    /\ call' = [call EXCEPT ![Head(answers).by] = Settled(@, Head(answers))]
    /\ answers' = Tail(answers)
    /\ UNCHANGED <<files, inbox, policy, doing, open, syncs, asked>>

UserSync ==
    \/ \E p \in Path, d \in Content : WriteFileSync(p, d) \/ AppendFileSync(p, d)
    \/ \E p \in Path : RmSync(p) \/ WriteStreamEnds(p)
    \/ \E p, q \in Path : RenameSync(p, q) \/ CopyFileSync(p, q)
UserAsync(t) ==
    \/ \E p \in Path : ReadFileAsync(t, p)
    \/ \E p \in Path, d \in Content : WriteFileAsync(t, p, d) \/ AppendFileAsync(t, p, d)
    \/ \E pol \in Policy : Configure(t, pol)
FsNext == UserSync \/ (\E t \in Call : UserAsync(t)) \/ Serve \/ Answered
FsSpec == FsInit /\ [][FsNext]_fsVars
=============================================================================

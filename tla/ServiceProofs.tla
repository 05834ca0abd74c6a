---------------------------- MODULE ServiceProofs ----------------------------
(* FilesTold, for every set of names, calls, contents and policies: proved  *)
(* from the mailbox of the file service, which holds the pending calls in   *)
(* the order they were made, each under the policy asked for before it, and *)
(* from what the service may rely on between the two steps of an operation. *)
(* OutputWhole, for every set of objects, waits and programs: proved from   *)
(* what the owner's records and the pipes hold of what a process said, and  *)
(* from what the messages say of processes that are over.                   *)
(* OneModule, for every layout of files and every source: proved from the   *)
(* loader's stack.  Its ids grow towards the top, the modules that run are  *)
(* those of its frames, and a frame below the top still has its require to  *)
(* finish.                                                                  *)
EXTENDS ServiceProperties, LoaderProperties, TLAPS, SequenceTheorems

Held == {Absent} \cup Seq(Nat)
FsOp == {"readFile", "writeFile", "policy"}
FsCall == [pc : {"none", "pending", "done", "failed"}, op : FsOp \cup {Absent},
           path : Path \cup {Absent}, data : Seq(Nat), under : Policy \cup {Default},
           held : SUBSET Held, disturbed : BOOLEAN]
FsAnswer == [by : Call, ok : BOOLEAN, data : Seq(Nat)]
FsTypes ==
    /\ files \in [Path -> Held] /\ call \in [Call -> FsCall]
    /\ inbox \in Seq(Call) /\ answers \in Seq(FsAnswer)
    /\ policy \in Policy \cup {Default} /\ asked \in Policy \cup {Default}
    /\ doing \in Call \cup {Absent} /\ open \in Path \cup {Absent}
\* A call that was made has a path, and the file being written is there.
Made ==
    /\ \A t \in Call : call[t].pc # "none" => call[t].op \in FsOp /\ call[t].path \in Path
    /\ open # Absent => files[open] # Absent
\* A pending call is in the mailbox once, or its answer is on its way.
Mailed ==
    /\ \A i, j \in DOMAIN inbox : inbox[i] = inbox[j] => i = j
    /\ \A i \in DOMAIN inbox : call[inbox[i]].pc = "pending"
    /\ \A j \in DOMAIN answers : call[answers[j].by].pc # "none"
    /\ \A i \in DOMAIN inbox, j \in DOMAIN answers : inbox[i] # answers[j].by
\* A request runs under the policy that the one before it leaves.
InOrder ==
    /\ \A i \in DOMAIN inbox : call[inbox[i]].op # "policy" =>
          call[inbox[i]].under = IF i = 1 THEN policy ELSE call[inbox[i - 1]].under
    /\ asked = IF inbox = <<>> THEN policy ELSE call[inbox[Len(inbox)]].under
\* What the service found when it began still holds, unless the caller
\* changed the file since.
BeganRead(c) == ~c.disturbed => files[c.path] # Absent /\ WithinQuota(policy, Len(files[c.path]))
BeganWrite(c) ==
    /\ ~policy.readOnly /\ WithinQuota(policy, Len(c.data))
    /\ ~c.disturbed => open = c.path /\ files[c.path] = <<>>
Began ==
    doing # Absent =>
        /\ inbox # <<>> /\ doing = Head(inbox)
        /\ call[doing].op \in {"readFile", "writeFile"} /\ Inside(policy, call[doing].path)
        /\ call[doing].op = "readFile" => BeganRead(call[doing])
        /\ call[doing].op = "writeFile" => BeganWrite(call[doing])
\* No file is half written: what is there now, each pending call has seen.
Steady == doing = Absent \/ call[doing].op = "readFile"
Seen ==
    Steady => \A t \in Call : call[t].pc = "pending" /\ call[t].op # "policy" =>
                  files[call[t].path] \in call[t].held
\* What FilesTold promises of the call c answered with d.
Good(c, d) ==
    /\ ~c.disturbed => d \in c.held
    /\ Inside(c.under, c.path)
    /\ c.op = "writeFile" => ~c.under.readOnly
    /\ ~c.disturbed => WithinQuota(c.under, Len(d))
GoodAnswer(c, r) ==
    r.ok /\ c.op # "policy" => Good(c, IF c.op = "readFile" THEN r.data ELSE c.data)
AnswersGood == \A j \in DOMAIN answers : GoodAnswer(call[answers[j].by], answers[j])
FsInv ==
    FsTypes /\ Made /\ Mailed /\ InOrder /\ Began /\ Seen /\ AnswersGood /\ FilesTold
-----------------------------------------------------------------------------
\* A step that leaves a call to its service may show it more of the file, and
\* may note that the caller disturbed it: nothing else of the call changes.
Grew(c, e) ==
    /\ e.pc = c.pc /\ e.op = c.op /\ e.path = c.path /\ e.data = c.data /\ e.under = c.under
    /\ c.held \subseteq e.held /\ (c.disturbed => e.disturbed)

LEMMA FsInitInv == FsInit => FsInv
<1> SUFFICES ASSUME FsInit PROVE FsInv
  OBVIOUS
<1>1. Free \in FsCall /\ Free.pc = "none"
  BY DEF Free, FsCall, Held
<1>2. call = [t \in Call |-> Free] /\ \A t \in Call : call[t] = Free
  BY DEF FsInit
<1>3. FsTypes
  BY <1>1, <1>2, FsAssumption DEF FsInit, FsTypes, Held
<1>4. Made /\ Mailed /\ InOrder /\ Began /\ AnswersGood
  BY <1>1, <1>2 DEF FsInit, Made, Mailed, InOrder, Began, AnswersGood
<1>5. Seen /\ FilesTold
  BY <1>1, <1>2 DEF Seen, FilesTold
<1> QED BY <1>3, <1>4, <1>5 DEF FsInv

\* What is promised of an answer stays promised.
LEMMA GoodStays ==
    ASSUME NEW c \in FsCall, NEW e \in FsCall, Grew(c, e), NEW d, Good(c, d)
    PROVE  Good(e, d)
BY DEF Grew, Good, Inside, WithinQuota, FsCall
LEMMA GoodAnswerStays ==
    ASSUME NEW c \in FsCall, NEW e \in FsCall, Grew(c, e), NEW r, GoodAnswer(c, r)
    PROVE  GoodAnswer(e, r)
<1> DEFINE d == IF c.op = "readFile" THEN r.data ELSE c.data
<1>1. Good(c, d) => Good(e, d)
  BY GoodStays
<1> QED BY <1>1 DEF GoodAnswer, Grew

\* FilesTold is what Good says of the calls that are done.
LEMMA ToldIsGood ==
    FilesTold <=> \A t \in Call : call[t].pc = "done" /\ call[t].op # "policy" =>
                                      Good(call[t], call[t].data)
BY DEF FilesTold, Good
LEMMA ToldStays ==
    ASSUME FsTypes, FsTypes', FilesTold, \A t \in Call : Grew(call[t], call'[t])
    PROVE  FilesTold'
<1>1. \A t \in Call : call[t] \in FsCall /\ call'[t] \in FsCall
  BY DEF FsTypes
<1>2. \A t \in Call : call[t].pc = "done" /\ call[t].op # "policy" =>
                          Good(call[t], call[t].data)
  BY ToldIsGood
<1>3. ASSUME NEW t \in Call, call'[t].pc = "done", call'[t].op # "policy"
      PROVE  Good(call'[t], call'[t].data)
  <2>1. Good(call[t], call[t].data) /\ call'[t].data = call[t].data
    BY <1>2, <1>3 DEF Grew
  <2> QED BY <1>1, <2>1, GoodStays
<1> QED BY <1>3 DEF FilesTold, Good
LEMMA AnswersStayGood ==
    ASSUME FsTypes, FsTypes', AnswersGood, \A t \in Call : Grew(call[t], call'[t])
    PROVE  \A j \in DOMAIN answers : GoodAnswer(call'[answers[j].by], answers[j])
<1>1. \A t \in Call : call[t] \in FsCall /\ call'[t] \in FsCall
  BY DEF FsTypes
<1>2. \A j \in DOMAIN answers : answers[j].by \in Call
  <2>1. \A j \in DOMAIN answers : answers[j] \in FsAnswer
    BY DEF FsTypes
  <2> QED BY <2>1 DEF FsAnswer
<1> QED BY <1>1, <1>2, GoodAnswerStays DEF AnswersGood
-----------------------------------------------------------------------------
\* The caller's synchronous changes.  A file that the service has open stays
\* a file, wherever the caller moves it.
LEMMA ChangesInv ==
    ASSUME FsInv, NEW new \in [Path -> Held], NEW to \in Path \cup {Absent},
           to # Absent => new[to] # Absent, Changes(new, to)
    PROVE  FsInv'
<1>1. FsTypes /\ Made /\ Mailed /\ InOrder /\ Began /\ Seen /\ AnswersGood /\ FilesTold
  BY DEF FsInv
<1>2. \A t \in Call :
        /\ call[t] \in FsCall
        /\ call[t].pc = "pending" => call[t].path \in Path
  BY <1>1 DEF FsTypes, Made
<1> DEFINE seen(t) == [call[t] EXCEPT !.held = @ \cup {new[call[t].path]},
                                      !.disturbed =
                                          @ \/ (doing = t /\ (open # to \/ new # files))]
           next(t) == IF call[t].pc = "pending" THEN seen(t) ELSE call[t]
<1>3. ASSUME NEW t \in Call, call[t].pc = "pending"
      PROVE  /\ seen(t) \in FsCall /\ Grew(call[t], seen(t))
             /\ new[call[t].path] \in seen(t).held
             /\ ~seen(t).disturbed /\ doing = t => open = to /\ new = files
  <2>1. new[call[t].path] \in Held
    BY <1>2, <1>3
  <2>2. (call[t].disturbed \/ (doing = t /\ (open # to \/ new # files))) \in BOOLEAN
    BY <1>2 DEF FsCall
  <2> QED BY <1>2, <2>1, <2>2 DEF FsCall, Grew
<1>4. \A t \in Call : next(t) \in FsCall /\ Grew(call[t], next(t))
  BY <1>2, <1>3 DEF Grew
<1>5. call' = [t \in Call |-> next(t)]
  BY DEF Changes
<1>6. \A t \in Call : call'[t] = next(t)
  BY <1>5
<1>7. call' \in [Call -> FsCall] /\ \A t \in Call : Grew(call[t], call'[t])
  BY <1>4, <1>5, <1>6
<1>8. /\ files' = new /\ open' = to
      /\ inbox' = inbox /\ answers' = answers /\ policy' = policy
      /\ doing' = doing /\ asked' = asked
  BY DEF Changes
<1>9. \A t \in Call : call[t].pc = "pending" =>
          /\ files'[call'[t].path] \in call'[t].held
          /\ ~call'[t].disturbed /\ doing = t => open' = open /\ files' = files
  BY ZenonT(40), <1>3, <1>6, <1>7, <1>8 DEF Grew
<1> HIDE DEF next, seen
<1>10. FsTypes'
  BY <1>1, <1>7, <1>8 DEF FsTypes
<1>11. Made'
  BY <1>1, <1>7, <1>8 DEF Made, Grew
<1>12. \A i \in DOMAIN inbox : inbox[i] \in Call
  BY <1>1 DEF FsTypes
<1>13. \A j \in DOMAIN answers : answers[j].by \in Call
  <2>1. \A j \in DOMAIN answers : answers[j] \in FsAnswer
    BY <1>1 DEF FsTypes
  <2> QED BY <2>1 DEF FsAnswer
<1>14. Mailed'
  BY <1>1, <1>7, <1>8, <1>12, <1>13 DEF Mailed, Grew
<1>15. InOrder'
  BY <1>1, <1>7, <1>8, <1>12 DEF InOrder, Grew, FsTypes
<1>16. Began'
  <2> SUFFICES ASSUME doing # Absent PROVE Began'
    BY <1>8 DEF Began
  <2>1. doing \in Call /\ doing = Head(inbox) /\ inbox # <<>> /\ call[doing].pc = "pending"
    BY <1>1 DEF FsTypes, Began, Mailed
  <2>2. Grew(call[doing], call'[doing]) /\ call'[doing].disturbed \in BOOLEAN
    BY <2>1, <1>7 DEF FsCall
  <2>3. ~call'[doing].disturbed => files' = files /\ open' = open /\ ~call[doing].disturbed
    BY <2>1, <2>2, <1>9 DEF Grew
  <2>4. call[doing].op = "readFile" /\ ~call'[doing].disturbed =>
            /\ files'[call'[doing].path] # Absent
            /\ WithinQuota(policy, Len(files'[call'[doing].path]))
    BY <1>1, <2>1, <2>2, <2>3 DEF Began, BeganRead, Grew
  <2>5. call[doing].op = "writeFile" =>
            /\ ~policy.readOnly /\ WithinQuota(policy, Len(call'[doing].data))
            /\ ~call'[doing].disturbed => open' = call'[doing].path
                                          /\ files'[call'[doing].path] = <<>>
    BY <1>1, <2>1, <2>2, <2>3 DEF Began, BeganWrite, Grew
  <2>6. /\ call'[doing].op \in {"readFile", "writeFile"}
        /\ Inside(policy, call'[doing].path) /\ call'[doing].op = call[doing].op
    BY <1>1, <2>1, <2>2 DEF Began, Grew
  <2> QED BY <1>8, <2>1, <2>4, <2>5, <2>6 DEF Began, BeganRead, BeganWrite
<1>17. Seen'
  BY <1>7, <1>9 DEF Seen, Grew
<1>18. FilesTold'
  BY <1>1, <1>7, <1>10, ToldStays
<1>19. AnswersGood'
  BY <1>1, <1>7, <1>8, <1>10, AnswersStayGood DEF AnswersGood
<1> QED BY <1>10, <1>11, <1>14, <1>15, <1>16, <1>17, <1>18, <1>19 DEF FsInv
\* What each of them leaves in the files.
LEMMA UserSyncInv == FsInv /\ UserSync => FsInv'
<1> SUFFICES ASSUME FsInv, UserSync PROVE FsInv'
  OBVIOUS
<1>1. /\ files \in [Path -> Held] /\ open \in Path \cup {Absent}
      /\ open # Absent => files[open] # Absent
  BY DEF FsInv, FsTypes, Made
<1>2. \A p \in Path : Old(p) \in Seq(Nat)
  BY <1>1 DEF Old, Held
<1>3. \A d \in Content : d \in Seq(Nat)
  BY FsAssumption
<1>4. \A p \in Path, d \in Seq(Nat) :
          /\ Written(p, d) \in [Path -> Held]
          /\ open # Absent => Written(p, d)[open] # Absent
  BY <1>1, FsAssumption DEF Written, Held
<1>5. ASSUME NEW p \in Path, NEW d \in Content, WriteFileSync(p, d) PROVE FsInv'
  BY <1>1, <1>3, <1>4, <1>5, ChangesInv DEF WriteFileSync
<1>6. ASSUME NEW p \in Path, NEW d \in Content, AppendFileSync(p, d) PROVE FsInv'
  <2>1. Appended(p, d) = Written(p, Old(p) \o d) /\ Old(p) \o d \in Seq(Nat)
    BY <1>2, <1>3 DEF Appended, Written
  <2> QED BY <1>1, <1>4, <1>6, <2>1, ChangesInv DEF AppendFileSync
<1>7. ASSUME NEW p \in Path, RmSync(p) PROVE FsInv'
  <2> DEFINE to == IF open = p THEN Absent ELSE open
  <2>1. /\ Removed(p) \in [Path -> Held] /\ to \in Path \cup {Absent}
        /\ to # Absent => Removed(p)[to] # Absent
    BY <1>1 DEF Removed, Held
  <2> QED BY <1>7, <2>1, ChangesInv DEF RmSync
<1>8. ASSUME NEW p \in Path, WriteStreamEnds(p) PROVE FsInv'
  <2>1. StreamEnded(p) = Written(p, <<>>) /\ <<>> \in Seq(Nat)
    BY DEF StreamEnded, Written
  <2> QED BY <1>1, <1>4, <1>8, <2>1, ChangesInv DEF WriteStreamEnds
<1>9. ASSUME NEW p \in Path, NEW q \in Path, RenameSync(p, q) PROVE FsInv'
  <2> DEFINE to == IF open = p THEN q ELSE IF open = q THEN Absent ELSE open
  <2>1. files[p] \in Held /\ files[p] # Absent /\ p # q
    BY <1>1, <1>9 DEF RenameSync
  <2>2. /\ Renamed(p, q) \in [Path -> Held] /\ to \in Path \cup {Absent}
        /\ to # Absent => Renamed(p, q)[to] # Absent
    BY <1>1, <2>1, FsAssumption DEF Renamed, Held
  <2> QED BY <1>9, <2>2, ChangesInv DEF RenameSync
<1>10. ASSUME NEW p \in Path, NEW q \in Path, CopyFileSync(p, q) PROVE FsInv'
  <2>1. files[p] \in Held /\ files[p] # Absent
    BY <1>1, <1>10 DEF CopyFileSync
  <2>2. /\ Copied(p, q) \in [Path -> Held]
        /\ open # Absent => Copied(p, q)[open] # Absent
    BY <1>1, <2>1 DEF Copied
  <2> QED BY <1>1, <1>10, <2>2, ChangesInv DEF CopyFileSync
<1> QED BY <1>5, <1>6, <1>7, <1>8, <1>9, <1>10 DEF UserSync
-----------------------------------------------------------------------------
\* The caller's asynchronous operations: a call goes to the end of the mailbox
\* and names the policy asked for, or asks for another.
LEMMA SendInv ==
    ASSUME FsInv, NEW t \in Call, NEW c \in FsCall, Unused(t),
           c.pc = "pending", c.op \in FsOp, c.path \in Path,
           c.op # "policy" => c.under = asked /\ files[c.path] \in c.held,
           call' = [call EXCEPT ![t] = c], inbox' = Append(inbox, t), asked' = c.under,
           UNCHANGED <<files, answers, policy, doing, open, syncs>>
    PROVE  FsInv'
<1>1. FsTypes /\ Made /\ Mailed /\ InOrder /\ Began /\ Seen /\ AnswersGood /\ FilesTold
  BY DEF FsInv
<1>2. /\ call \in [Call -> FsCall] /\ call' \in [Call -> FsCall]
      /\ inbox \in Seq(Call) /\ inbox' \in Seq(Call)
  BY <1>1 DEF FsTypes
<1>3. call[t].pc = "none" /\ call'[t] = c /\ \A u \in Call : u # t => call'[u] = call[u]
  BY <1>2 DEF Unused
<1>4. FsTypes'
  <2>1. c.under \in Policy \cup {Default}
    BY DEF FsCall
  <2> QED BY <1>1, <1>2, <2>1 DEF FsTypes
<1>5. Made'
  BY <1>1, <1>3 DEF Made
<1>6. \A i \in DOMAIN inbox : inbox[i] \in Call /\ inbox[i] # t
  BY <1>1, <1>2, <1>3 DEF Mailed
<1>7. \A j \in DOMAIN answers : answers[j].by \in Call /\ answers[j].by # t
  <2>1. \A j \in DOMAIN answers : answers[j] \in FsAnswer
    BY <1>1 DEF FsTypes
  <2> QED BY <1>1, <1>3, <2>1 DEF Mailed, FsAnswer
<1> DEFINE n == Len(inbox) + 1
<1>8. /\ DOMAIN inbox' = 1 .. n /\ Len(inbox') = n /\ inbox'[n] = t /\ inbox' # <<>>
      /\ DOMAIN inbox = 1 .. n - 1 /\ n \in Nat /\ n > 0
      /\ \A i \in 1 .. n - 1 : inbox'[i] = inbox[i]
  BY <1>2
<1>9. Mailed'
  <2>1. \A i \in 1 .. n : \A j \in 1 .. n : inbox'[i] = inbox'[j] => i = j
    BY <1>1, <1>6, <1>8 DEF Mailed
  <2>2. \A i \in 1 .. n : call'[inbox'[i]].pc = "pending"
    BY <1>1, <1>3, <1>6, <1>8 DEF Mailed
  <2>3. \A j \in DOMAIN answers : call'[answers[j].by].pc # "none"
    BY <1>1, <1>3, <1>7 DEF Mailed
  <2>4. \A i \in 1 .. n, j \in DOMAIN answers : inbox'[i] # answers[j].by
    BY <1>1, <1>7, <1>8 DEF Mailed
  <2> QED BY <1>8, <2>1, <2>2, <2>3, <2>4 DEF Mailed
<1>10. InOrder'
  <2>1. ASSUME NEW i \in 1 .. n, call'[inbox'[i]].op # "policy"
        PROVE  call'[inbox'[i]].under = IF i = 1 THEN policy ELSE call'[inbox'[i - 1]].under
    <3>1. CASE i = n
      <4>1. asked = IF n = 1 THEN policy ELSE call[inbox[n - 1]].under
        BY <1>1, <1>2, <1>8 DEF InOrder
      <4>2. n # 1 => n - 1 \in 1 .. n - 1
        BY <1>8
      <4>3. n # 1 => inbox'[n - 1] = inbox[n - 1]
        BY <1>8, <4>2
      <4> QED BY <1>3, <1>6, <1>8, <2>1, <3>1, <4>1, <4>2, <4>3
    <3>2. CASE i # n
      <4>1. i \in 1 .. n - 1 /\ (i # 1 => i - 1 \in 1 .. n - 1)
        BY <1>8, <3>2
      <4> QED BY <1>1, <1>3, <1>6, <1>8, <2>1, <4>1 DEF InOrder
    <3> QED BY <3>1, <3>2
  <2>2. asked' = call'[inbox'[Len(inbox')]].under
    BY <1>3, <1>8
  <2> QED BY <1>8, <2>1, <2>2 DEF InOrder
<1>11. Began' /\ (Steady' => Steady)
  <2>1. CASE doing = Absent
    BY <2>1 DEF Began, Steady
  <2>2. CASE doing # Absent
    <3>1. doing \in Call /\ inbox # <<>> /\ doing = Head(inbox)
      BY <1>1, <2>2 DEF FsTypes, Began
    <3>2. doing = inbox[1] /\ 1 \in 1 .. n - 1
      BY <1>2, <1>8, <3>1
    <3>3. Head(inbox') = inbox'[1]
      BY <1>2, <1>8
    <3>4. call'[doing] = call[doing] /\ Head(inbox') = doing
      BY <1>3, <1>6, <1>8, <3>1, <3>2, <3>3
    <3> QED BY <1>1, <1>8, <3>1, <3>4 DEF Began, BeganRead, BeganWrite, Steady
  <2> QED BY <2>1, <2>2
<1>12. Seen'
  BY <1>1, <1>3, <1>11 DEF Seen
<1>13. AnswersGood'
  BY <1>1, <1>3, <1>7 DEF AnswersGood
<1>14. FilesTold'
  BY <1>1, <1>3 DEF FilesTold
<1> QED BY <1>4, <1>5, <1>9, <1>10, <1>11, <1>12, <1>13, <1>14 DEF FsInv
LEMMA UserAsyncInv == FsInv /\ (\E t \in Call : UserAsync(t)) => FsInv'
<1> SUFFICES ASSUME FsInv, NEW t \in Call, UserAsync(t) PROVE FsInv'
  OBVIOUS
<1>1. files \in [Path -> Held] /\ asked \in Policy \cup {Default}
  BY DEF FsInv, FsTypes
<1>2. \A d \in Content : d \in Seq(Nat)
  BY FsAssumption
<1>3. ASSUME NEW op \in {"readFile", "writeFile"}, NEW p \in Path, NEW d \in Seq(Nat),
             Sends(t, op, p, d), asked' = asked
      PROVE  FsInv'
  <2> DEFINE c == Pending(op, p, d, asked)
  <2>1. /\ c \in FsCall /\ c.pc = "pending" /\ c.op = op /\ c.path = p
        /\ c.under = asked /\ c.held = {files[p]}
    BY <1>1 DEF Pending, FsCall, FsOp
  <2>2. /\ Unused(t) /\ call' = [call EXCEPT ![t] = c] /\ inbox' = Append(inbox, t)
        /\ UNCHANGED <<files, answers, policy, doing, open, syncs>>
    BY <1>3 DEF Sends
  <2> HIDE DEF c
  <2>3. /\ c.op \in FsOp /\ c.path \in Path /\ asked' = c.under
        /\ c.op # "policy" => c.under = asked /\ files[c.path] \in c.held
    BY <1>3, <2>1 DEF FsOp
  <2> QED BY <2>1, <2>2, <2>3, SendInv
<1>4. ASSUME NEW p \in Path, ReadFileAsync(t, p) PROVE FsInv'
  <2>1. <<>> \in Seq(Nat) /\ Sends(t, "readFile", p, <<>>) /\ asked' = asked
    BY <1>4 DEF ReadFileAsync
  <2> QED BY <1>3, <2>1
<1>5. ASSUME NEW p \in Path, NEW d \in Content, WriteFileAsync(t, p, d) PROVE FsInv'
  BY <1>2, <1>3, <1>5 DEF WriteFileAsync
<1>6. ASSUME NEW p \in Path, NEW d \in Content, AppendFileAsync(t, p, d) PROVE FsInv'
  <2>1. Old(p) \in Seq(Nat)
    BY <1>1 DEF Old, Held
  <2>2. Old(p) \o d \in Seq(Nat)
    BY <1>2, <2>1
  <2> QED BY <1>3, <1>6, <2>2 DEF AppendFileAsync
<1>7. ASSUME NEW pol \in Policy, Configure(t, pol) PROVE FsInv'
  <2> DEFINE q == CHOOSE p \in Path : TRUE
             c == Pending("policy", q, <<>>, pol)
  <2>1. /\ Unused(t) /\ call' = [call EXCEPT ![t] = c] /\ inbox' = Append(inbox, t)
        /\ asked' = pol /\ UNCHANGED <<files, answers, policy, doing, open, syncs>>
    BY <1>7 DEF Configure
  <2>2. q \in Path
    BY FsAssumption
  <2> HIDE DEF q
  <2>3. c \in FsCall /\ c.pc = "pending" /\ c.op = "policy" /\ c.path = q /\ c.under = pol
    BY <1>1, <2>2 DEF Pending, FsCall, FsOp
  <2> HIDE DEF c
  <2> QED BY <2>1, <2>2, <2>3, SendInv DEF FsOp
<1> QED BY <1>4, <1>5, <1>6, <1>7 DEF UserAsync
-----------------------------------------------------------------------------
\* The service answers the first call of its mailbox, and the next one runs
\* under the policy that this one leaves.
LEMMA ReplyInv ==
    ASSUME FsInv, inbox # <<>>, NEW ok \in BOOLEAN, NEW d \in Seq(Nat),
           Replied(Head(inbox), ok, d), policy' = call[Head(inbox)].under,
           call' \in [Call -> FsCall], files' \in [Path -> Held],
           open' \in Path \cup {Absent}, open' # Absent => files'[open'] # Absent,
           \A t \in Call : Grew(call[t], call'[t]), asked' = asked, doing' = Absent, Seen',
           GoodAnswer(call'[Head(inbox)], [by |-> Head(inbox), ok |-> ok, data |-> d])
    PROVE  FsInv'
<1> DEFINE h == Head(inbox)
           r == [by |-> h, ok |-> ok, data |-> d]
           n == Len(inbox)
           m == Len(answers)
<1>1. FsTypes /\ Made /\ Mailed /\ InOrder /\ Began /\ Seen /\ AnswersGood /\ FilesTold
  BY DEF FsInv
<1>2. /\ inbox \in Seq(Call) /\ answers \in Seq(FsAnswer) /\ call \in [Call -> FsCall]
  BY <1>1 DEF FsTypes
<1>3. /\ n \in Nat /\ n > 0 /\ DOMAIN inbox = 1 .. n /\ h = inbox[1] /\ h \in Call
      /\ \A i \in 1 .. n : inbox[i] \in Call
  BY <1>2
<1>4. /\ inbox' = Tail(inbox) /\ inbox' \in Seq(Call)
      /\ Len(inbox') = n - 1 /\ DOMAIN inbox' = 1 .. n - 1
      /\ \A i \in 1 .. n - 1 : inbox'[i] = inbox[i + 1]
  BY <1>2 DEF Replied
<1>5. r \in FsAnswer /\ r.by = h
  BY <1>3 DEF FsAnswer
<1>6. answers' = Append(answers, r)
  BY DEF Replied
<1> HIDE DEF r
<1>7. /\ m \in Nat /\ answers' \in Seq(FsAnswer) /\ DOMAIN answers = 1 .. m
      /\ DOMAIN answers' = 1 .. m + 1 /\ answers'[m + 1] = r
      /\ \A j \in 1 .. m : answers'[j] = answers[j]
  BY <1>2, <1>5, <1>6
<1>8. \A j \in 1 .. m : answers[j].by \in Call
  <2>1. \A j \in 1 .. m : answers[j] \in FsAnswer
    BY <1>2, <1>7
  <2> QED BY <2>1 DEF FsAnswer
<1> HIDE DEF h, n, m
<1>9. FsTypes'
  <2>1. policy' \in Policy \cup {Default}
    BY <1>2, <1>3 DEF FsCall, h
  <2>2. doing' \in Call \cup {Absent} /\ asked' \in Policy \cup {Default}
    BY <1>1 DEF FsTypes
  <2> QED BY <1>4, <1>7, <2>1, <2>2 DEF FsTypes
<1>10. Made'
  BY <1>1 DEF Made, Grew
<1>11. \A j \in 1 .. m + 1 : j \in 1 .. m \/ j = m + 1
  BY <1>7
<1>12. \A i \in 1 .. n - 1 : i + 1 \in 1 .. n /\ i + 1 # 1
  BY <1>3
<1>13. Mailed'
  <2> DEFINE once == \A i, j \in 1 .. n : inbox[i] = inbox[j] => i = j
             pends == \A i \in 1 .. n : call[inbox[i]].pc = "pending"
             apart == \A i \in 1 .. n, j \in 1 .. m : inbox[i] # answers[j].by
             wasMade == \A j \in 1 .. m : call[answers[j].by].pc # "none"
  <2>0. once /\ pends /\ apart /\ wasMade
    BY <1>1, <1>3, <1>7 DEF Mailed
  <2>1. \A i \in 1 .. n - 1 : \A j \in 1 .. n - 1 : inbox'[i] = inbox'[j] => i = j
    <3>1. \A i \in 1 .. n - 1 : \A j \in 1 .. n - 1 :
              inbox[i + 1] = inbox[j + 1] => i + 1 = j + 1
      BY <1>12, <2>0
    <3> QED BY <1>3, <1>4, <3>1
  <2>2. \A i \in 1 .. n - 1 : call'[inbox'[i]].pc = "pending" /\ inbox'[i] # h
    <3>1. \A t \in Call : call'[t].pc = call[t].pc
      BY DEF Grew
    <3>2. 1 \in 1 .. n
      BY <1>3
    <3>3. \A i \in 1 .. n - 1 : inbox[i + 1] \in Call /\ call[inbox[i + 1]].pc = "pending"
                                /\ inbox[i + 1] # inbox[1]
      BY <1>3, <1>12, <2>0, <3>2
    <3> QED BY <1>3, <1>4, <3>1, <3>3
  <2>3. call[h].pc = "pending" /\ Grew(call[h], call'[h])
    BY <1>3, <2>0
  <2>4. \A j \in 1 .. m + 1 : call'[answers'[j].by].pc # "none"
    <3>1. call'[h].pc # "none" /\ \A t \in Call : call'[t].pc = call[t].pc
      BY <2>3 DEF Grew
    <3> QED BY <1>5, <1>7, <1>8, <1>11, <2>0, <3>1
  <2>5. \A i \in 1 .. n - 1 : \A j \in 1 .. m : inbox'[i] # answers'[j].by
    <3>1. \A i \in 1 .. n - 1 : \A j \in 1 .. m : inbox[i + 1] # answers[j].by
      BY <1>12, <2>0
    <3> QED BY <1>4, <1>7, <3>1
  <2>6. \A i \in 1 .. n - 1 : \A j \in 1 .. m + 1 : inbox'[i] # answers'[j].by
    BY <1>5, <1>7, <1>11, <2>2, <2>5
  <2> QED BY SMTT(20), <1>4, <1>7, <2>1, <2>2, <2>4, <2>6 DEF Mailed
<1>14. InOrder'
  <2>1. \A t \in Call : call'[t].under = call[t].under /\ call'[t].op = call[t].op
    BY DEF Grew
  <2>2. policy' = call[inbox[1]].under
    BY <1>3 DEF h
  <2>3. ASSUME NEW i \in 1 .. n - 1, call'[inbox'[i]].op # "policy"
        PROVE  call'[inbox'[i]].under = IF i = 1 THEN policy' ELSE call'[inbox'[i - 1]].under
    <3>1. inbox'[i] = inbox[i + 1] /\ i + 1 \in 1 .. n /\ i \in 1 .. n /\ (i + 1) - 1 = i
      BY <1>3, <1>4, <1>12
    <3>2. call[inbox[i + 1]].under = call[inbox[i]].under
      <4>1. call[inbox[i + 1]].op # "policy"
        BY <1>3, <2>1, <2>3, <3>1
      <4>2. \A k \in 1 .. n : call[inbox[k]].op # "policy" =>
                call[inbox[k]].under = IF k = 1 THEN policy ELSE call[inbox[k - 1]].under
        BY <1>1, <1>3 DEF InOrder
      <4> QED BY <1>12, <3>1, <4>1, <4>2
    <3>3. i # 1 => i - 1 \in 1 .. n - 1 /\ (i - 1) + 1 = i
      BY <1>3
    <3>4. i # 1 => inbox'[i - 1] = inbox[i]
      BY <1>4, <3>3
    <3> QED BY <1>3, <2>1, <2>2, <3>1, <3>2, <3>4
  <2>4. asked = call[inbox[n]].under
    BY <1>1, <1>3 DEF InOrder, n
  <2>5. n # 1 => inbox'[n - 1] = inbox[n] /\ inbox' # <<>>
    <3>1. n # 1 => n - 1 \in 1 .. n - 1 /\ (n - 1) + 1 = n
      BY <1>3
    <3> QED BY <1>4, <3>1
  <2>6. n = 1 => inbox' = <<>>
    BY <1>4
  <2>7. asked = IF inbox' = <<>> THEN policy' ELSE call'[inbox'[Len(inbox')]].under
    BY <1>3, <1>4, <2>1, <2>2, <2>4, <2>5, <2>6
  <2> QED BY <1>4, <2>3, <2>7 DEF InOrder
<1>15. Began'
  BY DEF Began
<1>16. FilesTold'
  BY <1>1, <1>9, ToldStays
<1>17. AnswersGood'
  <2>1. \A j \in 1 .. m : GoodAnswer(call'[answers[j].by], answers[j])
    BY <1>1, <1>7, <1>9, AnswersStayGood
  <2>2. GoodAnswer(call'[r.by], r)
    BY <1>5 DEF r, h
  <2> QED BY <1>7, <1>11, <2>1, <2>2 DEF AnswersGood
<1> QED BY <1>9, <1>10, <1>13, <1>14, <1>15, <1>16, <1>17 DEF FsInv
\* The first call of the mailbox, and the policy it runs under.
LEMMA HeadCall ==
    ASSUME FsInv, inbox # <<>>
    PROVE  /\ Head(inbox) \in Call /\ call[Head(inbox)] \in FsCall
           /\ call[Head(inbox)].pc = "pending" /\ call[Head(inbox)].path \in Path
           /\ call[Head(inbox)].op # "policy" => policy = call[Head(inbox)].under
<1>1. inbox \in Seq(Call) /\ call \in [Call -> FsCall]
  BY DEF FsInv, FsTypes
<1>2. 1 \in DOMAIN inbox /\ Head(inbox) = inbox[1] /\ Head(inbox) \in Call
  BY <1>1
<1>3. call[inbox[1]].pc = "pending"
  BY <1>2 DEF FsInv, Mailed
<1>4. call[inbox[1]].op # "policy" => policy = call[inbox[1]].under
  BY <1>2 DEF FsInv, InOrder
<1>5. call[inbox[1]].path \in Path
  BY <1>2, <1>3 DEF FsInv, Made
<1> QED BY <1>1, <1>2, <1>3, <1>4, <1>5
LEMMA SameCalls == call' = call => \A t \in Call : Grew(call[t], call'[t])
BY DEF Grew
\* What the caller knows of a call the service is in the middle of.
LEMMA AtWork ==
    ASSUME FsInv, doing # Absent
    PROVE  /\ inbox # <<>> /\ doing = Head(inbox) /\ doing \in Call
           /\ call[doing] \in FsCall /\ call[doing].path \in Path
           /\ call[doing].pc = "pending" /\ policy = call[doing].under
<1>1. inbox # <<>> /\ doing = Head(inbox) /\ call[doing].op \in {"readFile", "writeFile"}
  BY DEF FsInv, Began
<1> QED BY <1>1, HeadCall

LEMMA ServicePolicyInv == FsInv /\ ServicePolicy => FsInv'
<1> SUFFICES ASSUME FsInv, ServicePolicy PROVE FsInv'
  OBVIOUS
<1> DEFINE ok == TRUE         \* hidden below: the provers want a value
<1>1. /\ inbox # <<>> /\ doing = Absent /\ call[Head(inbox)].op = "policy"
      /\ policy' = call[Head(inbox)].under /\ Replied(Head(inbox), ok, <<>>)
      /\ files' = files /\ call' = call /\ open' = open /\ doing' = doing /\ asked' = asked
  BY DEF ServicePolicy, Is
<1>2. /\ call' \in [Call -> FsCall] /\ files' \in [Path -> Held]
      /\ open' \in Path \cup {Absent}
      /\ open' # Absent => files'[open'] # Absent
  BY <1>1 DEF FsInv, FsTypes, Made
<1>3. Seen' /\ <<>> \in Seq(Nat) /\ ok \in BOOLEAN
  BY <1>1 DEF FsInv, Seen, Steady
<1>4. GoodAnswer(call'[Head(inbox)], [by |-> Head(inbox), ok |-> ok, data |-> <<>>])
  BY <1>1 DEF GoodAnswer
<1>9. \A t \in Call : Grew(call[t], call'[t])
  BY <1>1, SameCalls
<1> HIDE DEF ok
<1> QED BY <1>1, <1>2, <1>3, <1>4, <1>9, ReplyInv
LEMMA RefuseInv == FsInv /\ Refuse => FsInv'
<1> SUFFICES ASSUME FsInv, Refuse PROVE FsInv'
  OBVIOUS
<1> DEFINE ok == FALSE         \* hidden below: the provers want a value
<1>1. /\ inbox # <<>> /\ doing = Absent /\ call[Head(inbox)].op # "policy"
      /\ Replied(Head(inbox), ok, <<>>) /\ policy' = policy
      /\ files' = files /\ call' = call /\ open' = open /\ doing' = doing /\ asked' = asked
  BY DEF Refuse, Is
<1>2. /\ call' \in [Call -> FsCall] /\ files' \in [Path -> Held]
      /\ open' \in Path \cup {Absent}
      /\ open' # Absent => files'[open'] # Absent
  BY <1>1 DEF FsInv, FsTypes, Made
<1>3. Seen' /\ <<>> \in Seq(Nat) /\ ok \in BOOLEAN
  BY <1>1 DEF FsInv, Seen, Steady
<1>4. GoodAnswer(call'[Head(inbox)], [by |-> Head(inbox), ok |-> ok, data |-> <<>>])
  BY DEF GoodAnswer
<1>5. policy' = call[Head(inbox)].under
  BY <1>1, HeadCall
<1>9. \A t \in Call : Grew(call[t], call'[t])
  BY <1>1, SameCalls
<1> HIDE DEF ok
<1> QED BY <1>1, <1>2, <1>3, <1>4, <1>5, <1>9, ReplyInv
LEMMA StartReadInv == FsInv /\ StartRead => FsInv'
<1> SUFFICES ASSUME FsInv, StartRead PROVE FsInv'
  OBVIOUS
<1> DEFINE h == Head(inbox)
<1>1. /\ inbox # <<>> /\ doing = Absent /\ call[h].op = "readFile" /\ doing' = h
      /\ Inside(policy, call[h].path) /\ WithinQuota(policy, Len(files[call[h].path]))
      /\ files[call[h].path] # Absent
      /\ UNCHANGED <<files, call, inbox, answers, policy, open, syncs, asked>>
  BY DEF StartRead, Is, Admits, Permits, Size, Old
<1>2. h \in Call
  BY <1>1, HeadCall
<1>3. FsTypes' /\ Made' /\ Mailed' /\ InOrder' /\ AnswersGood' /\ FilesTold'
  BY <1>1, <1>2
     DEF FsInv, FsTypes, Made, Mailed, InOrder, AnswersGood, GoodAnswer, Good, FilesTold
<1>4. Began'
  BY <1>1, <1>2, FsAssumption DEF Began, BeganRead
<1>5. Seen'
  BY <1>1 DEF FsInv, Seen, Steady
<1> QED BY <1>3, <1>4, <1>5 DEF FsInv
LEMMA StartWriteInv == FsInv /\ StartWrite => FsInv'
<1> SUFFICES ASSUME FsInv, StartWrite PROVE FsInv'
  OBVIOUS
<1> DEFINE h == Head(inbox)
<1>1. /\ inbox # <<>> /\ doing = Absent /\ call[h].op = "writeFile" /\ doing' = h
      /\ Inside(policy, call[h].path) /\ ~policy.readOnly
      /\ WithinQuota(policy, Len(call[h].data))
      /\ files' = Written(call[h].path, <<>>) /\ open' = call[h].path
      /\ UNCHANGED <<call, inbox, answers, policy, syncs, asked>>
  BY DEF StartWrite, Is, Admits, Permits, Size
<1>2. h \in Call /\ call[h].path \in Path /\ files \in [Path -> Held]
  BY <1>1, HeadCall DEF FsInv, FsTypes
<1>3. <<>> \in Held /\ <<>> # Absent /\ h # Absent
  <2>1. <<>> \in Seq(Nat)
    OBVIOUS
  <2> QED BY <1>2, <2>1, FsAssumption DEF Held
<1>4. files' \in [Path -> Held] /\ files'[call[h].path] = <<>>
  BY <1>1, <1>2, <1>3 DEF Written
<1>5. FsTypes' /\ Made'
  BY <1>1, <1>2, <1>3, <1>4 DEF FsInv, FsTypes, Made
<1>6. Mailed' /\ InOrder' /\ AnswersGood' /\ FilesTold'
  BY <1>1 DEF FsInv, Mailed, InOrder, AnswersGood, FilesTold
<1>7. Began'
  BY <1>1, <1>4 DEF Began, BeganWrite
<1>8. Seen'
  BY <1>1, <1>3 DEF Seen, Steady
<1> QED BY <1>5, <1>6, <1>7, <1>8 DEF FsInv
LEMMA EndReadInv == FsInv /\ EndRead => FsInv'
<1> SUFFICES ASSUME FsInv, EndRead PROVE FsInv'
  OBVIOUS
<1> DEFINE p == call[doing].path
           ok == files[p] # Absent
           d == Old(p)
<1>1. /\ doing # Absent /\ call[doing].op = "readFile"
      /\ Replied(doing, ok, d) /\ policy' = policy
      /\ files' = files /\ call' = call /\ open' = open /\ doing' = Absent /\ asked' = asked
  BY DEF EndRead
<1>2. /\ inbox # <<>> /\ doing = Head(inbox) /\ doing \in Call /\ p \in Path
      /\ call[doing].pc = "pending" /\ policy' = call[doing].under
  BY <1>1, AtWork
<1>3. /\ call' \in [Call -> FsCall] /\ files' \in [Path -> Held]
      /\ open' \in Path \cup {Absent}
      /\ open' # Absent => files'[open'] # Absent
  BY <1>1 DEF FsInv, FsTypes, Made
<1>4. Seen'
  BY <1>1 DEF FsInv, Seen, Steady
<1>5. ok \in BOOLEAN /\ d \in Seq(Nat)
  BY <1>1, <1>2, <1>3 DEF Old, Held
<1>6. ok => Good(call[doing], d)
  <2>1. ok => d = files[p]
    BY DEF Old
  <2>2. files[p] \in call[doing].held
    BY <1>1, <1>2 DEF FsInv, Seen, Steady
  <2>3. Inside(policy, p) /\ BeganRead(call[doing])
    BY <1>1 DEF FsInv, Began
  <2> QED BY <1>1, <1>2, <2>1, <2>2, <2>3 DEF Good, BeganRead
<1> HIDE DEF ok, d
<1>7. GoodAnswer(call'[doing], [by |-> doing, ok |-> ok, data |-> d])
  BY <1>1, <1>6 DEF GoodAnswer
<1>9. \A t \in Call : Grew(call[t], call'[t])
  BY <1>1, SameCalls
<1> QED BY <1>1, <1>2, <1>3, <1>4, <1>5, <1>7, <1>9, ReplyInv
LEMMA EndWriteInv == FsInv /\ EndWrite => FsInv'
<1> SUFFICES ASSUME FsInv, EndWrite PROVE FsInv'
  OBVIOUS
<1> DEFINE ok == TRUE
           d == call[doing].data
<1>1. /\ doing # Absent /\ call[doing].op = "writeFile" /\ files' = Filled(d)
      /\ Watched(files') /\ Replied(doing, ok, <<>>) /\ policy' = policy
      /\ open' = Absent /\ doing' = Absent /\ asked' = asked
  BY DEF EndWrite
<1>2. /\ inbox # <<>> /\ doing = Head(inbox) /\ doing \in Call
      /\ call[doing].path \in Path /\ d \in Seq(Nat)
      /\ call[doing].pc = "pending" /\ policy' = call[doing].under
  BY <1>1, AtWork DEF FsCall
<1>3. /\ call \in [Call -> FsCall] /\ files \in [Path -> Held] /\ open \in Path \cup {Absent}
      /\ open # Absent => files[open] # Absent
      /\ \A t \in Call : call[t].pc = "pending" => call[t].path \in Path
  BY DEF FsInv, FsTypes, Made
<1>4. files' \in [Path -> Held]
  <2>1. CASE open = Absent
    BY <1>1, <1>3, <2>1 DEF Filled
  <2>2. CASE open # Absent
    <3>1. files[open] \in Seq(Nat)
      BY <1>3, <2>2 DEF Held
    <3>2. SubSeq(files[open], Len(d) + 1, Len(files[open])) \in Seq(Nat)
      BY <1>2, <3>1
    <3>3. d \o SubSeq(files[open], Len(d) + 1, Len(files[open])) \in Seq(Nat)
      BY <1>2, <3>2
    <3> QED BY <1>1, <1>3, <2>2, <3>3 DEF Filled, Written, Held
  <2> QED BY <2>1, <2>2
<1> DEFINE next(t) == IF call[t].pc = "pending"
                      THEN [call[t] EXCEPT !.held = @ \cup {files'[call[t].path]}]
                      ELSE call[t]
<1>5. \A t \in Call :
          /\ next(t) \in FsCall /\ Grew(call[t], next(t))
          /\ call[t].pc = "pending" => files'[call[t].path] \in next(t).held
  <2> SUFFICES ASSUME NEW t \in Call
               PROVE  /\ next(t) \in FsCall /\ Grew(call[t], next(t))
                      /\ call[t].pc = "pending" => files'[call[t].path] \in next(t).held
    OBVIOUS
  <2>1. call[t] \in FsCall
    BY <1>3
  <2>2. call[t].pc = "pending" => files'[call[t].path] \in Held
    BY <1>3, <1>4
  <2> QED BY <2>1, <2>2 DEF FsCall, Grew
<1>6. call' = [t \in Call |-> next(t)] /\ \A t \in Call : call'[t] = next(t)
  BY <1>1 DEF Watched
<1>7. /\ call' \in [Call -> FsCall] /\ \A t \in Call : Grew(call[t], call'[t])
      /\ \A t \in Call : call[t].pc = "pending" => files'[call[t].path] \in call'[t].held
  BY <1>5, <1>6
<1> HIDE DEF next
<1>8. Seen'
  BY <1>7 DEF Seen, Grew
<1>9. Good(call'[doing], call'[doing].data)
  <2>1. /\ Inside(policy, call[doing].path) /\ BeganWrite(call[doing])
    BY <1>1 DEF FsInv, Began
  <2>2. Grew(call[doing], call'[doing])
    BY <1>2, <1>7
  <2>3. ~call[doing].disturbed => files'[call[doing].path] = d
    <3> SUFFICES ASSUME ~call[doing].disturbed PROVE files'[call[doing].path] = d
      OBVIOUS
    <3>1. open = call[doing].path /\ files[open] = <<>> /\ open # Absent
      BY <1>2, <2>1, FsAssumption DEF BeganWrite
    <3>2. SubSeq(files[open], Len(d) + 1, Len(files[open])) = <<>>
      BY <1>2, <3>1
    <3>3. d \o <<>> = d
      BY <1>2
    <3> QED BY <1>1, <1>2, <1>3, <3>1, <3>2, <3>3 DEF Filled, Written
  <2>4. ~call[doing].disturbed => d \in call'[doing].held
    BY <1>2, <1>7, <2>3
  <2>5. \A b : call'[doing].disturbed = b /\ ~b => ~call[doing].disturbed
    BY <2>2 DEF Grew
  <2> QED BY <1>1, <1>2, <2>1, <2>2, <2>4 DEF Good, BeganWrite, Grew
<1> HIDE DEF ok, d
<1>10. GoodAnswer(call'[doing], [by |-> doing, ok |-> ok, data |-> <<>>])
  BY <1>1, <1>2, <1>7, <1>9 DEF GoodAnswer, Grew
<1>11. ok \in BOOLEAN /\ <<>> \in Seq(Nat)
  BY DEF ok
<1> QED BY <1>1, <1>2, <1>4, <1>7, <1>8, <1>10, <1>11, ReplyInv
LEMMA AnsweredInv == FsInv /\ Answered => FsInv'
<1> SUFFICES ASSUME FsInv, Answered PROVE FsInv'
  OBVIOUS
<1> DEFINE r == Head(answers)
           t == r.by
           c == call[t]
           pc == IF r.ok THEN "done" ELSE "failed"
           data == IF c.op = "readFile" THEN r.data ELSE c.data
           e == [c EXCEPT !.pc = pc, !.data = data]
           m == Len(answers)
<1>1. /\ answers # <<>> /\ call' = [call EXCEPT ![t] = e] /\ answers' = Tail(answers)
      /\ UNCHANGED <<files, inbox, policy, doing, open, syncs, asked>>
  BY DEF Answered, Settled
<1>2. FsTypes /\ Made /\ Mailed /\ InOrder /\ Began /\ Seen /\ AnswersGood /\ FilesTold
  BY DEF FsInv
<1>3. answers \in Seq(FsAnswer) /\ call \in [Call -> FsCall] /\ inbox \in Seq(Call)
  BY <1>2 DEF FsTypes
<1>4. /\ m \in Nat /\ 1 \in DOMAIN answers /\ r = answers[1] /\ r \in FsAnswer
      /\ DOMAIN answers = 1 .. m /\ \A j \in 1 .. m : answers[j] \in FsAnswer
      /\ answers' \in Seq(FsAnswer) /\ DOMAIN answers' = 1 .. m - 1
      /\ \A j \in 1 .. m - 1 : answers'[j] = answers[j + 1] /\ j + 1 \in 1 .. m
  BY <1>1, <1>3
<1>5. t \in Call /\ r.data \in Seq(Nat) /\ c \in FsCall /\ GoodAnswer(c, r)
  BY <1>2, <1>3, <1>4 DEF FsAnswer, AnswersGood
<1>6. c.pc # "none" /\ \A i \in DOMAIN inbox : inbox[i] # t /\ inbox[i] \in Call
  BY <1>2, <1>3, <1>4 DEF Mailed
<1>7. /\ pc \in {"done", "failed"} /\ data \in Seq(Nat)
  BY <1>5 DEF FsCall
<1> HIDE DEF pc, data
<1>8. /\ e \in FsCall /\ e.pc = pc /\ e.data = data /\ e.op = c.op /\ e.path = c.path
      /\ e.under = c.under /\ e.held = c.held /\ e.disturbed = c.disturbed
  BY <1>5, <1>7 DEF FsCall
<1> HIDE DEF e
<1>9. /\ call' \in [Call -> FsCall] /\ call'[t] = e
      /\ \A u \in Call : u # t => call'[u] = call[u]
  BY <1>1, <1>3, <1>5, <1>8
<1>10. \A u \in Call : call'[u].op = call[u].op /\ call'[u].under = call[u].under
  BY <1>8, <1>9
<1>11. FsTypes'
  BY <1>1, <1>2, <1>4, <1>9 DEF FsTypes
<1>12. Made'
  BY <1>1, <1>2, <1>5, <1>6, <1>8, <1>9 DEF Made
<1>13. \A j \in 1 .. m : answers[j].by \in Call
  BY <1>4 DEF FsAnswer
<1> HIDE DEF t, m, c
<1>14. Mailed'
  <2>1. \A j \in 1 .. m : call[answers[j].by].pc # "none"
    BY <1>2, <1>4 DEF Mailed
  <2>2. call'[t].pc # "none"
    BY <1>7, <1>8, <1>9
  <2>3. \A j \in 1 .. m : call'[answers[j].by].pc # "none"
    BY <1>9, <1>13, <2>1, <2>2
  <2>4. \A j \in 1 .. m - 1 : call'[answers'[j].by].pc # "none"
    BY <1>4, <2>3
  <2>5. \A i \in DOMAIN inbox, j \in 1 .. m : inbox[i] # answers[j].by
    BY <1>2, <1>4 DEF Mailed
  <2>6. \A i \in DOMAIN inbox, j \in 1 .. m - 1 : inbox[i] # answers'[j].by
    BY <1>4, <2>5
  <2>7. \A i \in DOMAIN inbox : call'[inbox[i]].pc = "pending"
    BY <1>2, <1>6, <1>9 DEF Mailed
  <2>8. inbox' = inbox
    BY <1>1
  <2> QED BY <1>2, <1>4, <2>4, <2>6, <2>7, <2>8 DEF Mailed
<1>15. InOrder'
  <2>1. inbox # <<>> => Len(inbox) \in DOMAIN inbox
    BY <1>3
  <2>2. \A i \in DOMAIN inbox : i # 1 => i - 1 \in DOMAIN inbox
    BY <1>3
  <2> QED BY <1>1, <1>2, <1>6, <1>10, <2>1, <2>2 DEF InOrder
<1>16. Began' /\ (Steady' <=> Steady)
  <2>1. CASE doing = Absent
    BY <1>1, <2>1 DEF Began, Steady
  <2>2. CASE doing # Absent
    <3>1. inbox # <<>> /\ doing = Head(inbox)
      BY <1>2, <2>2 DEF Began
    <3>2. doing = inbox[1] /\ 1 \in DOMAIN inbox
      BY <1>3, <3>1
    <3>3. call'[doing] = call[doing]
      BY <1>6, <1>9, <3>2
    <3> QED BY <1>1, <1>2, <3>1, <3>3 DEF Began, BeganRead, BeganWrite, Steady
  <2> QED BY <2>1, <2>2
<1>17. Seen'
  BY <1>1, <1>2, <1>7, <1>8, <1>9, <1>16 DEF Seen
<1>18. r.ok /\ e.op # "policy" => Good(e, e.data)
  <2>1. r.ok /\ c.op # "policy" => Good(c, data)
    BY <1>5 DEF GoodAnswer, data
  <2> QED BY <1>8, <2>1 DEF Good
<1>19. FilesTold'
  <2>1. \A u \in Call : call[u].pc = "done" /\ call[u].op # "policy" =>
                            Good(call[u], call[u].data)
    BY <1>2, ToldIsGood
  <2>2. pc = "done" => r.ok
    BY DEF pc
  <2>3. \A u \in Call : call'[u].pc = "done" /\ call'[u].op # "policy" =>
                            Good(call'[u], call'[u].data)
    BY <1>8, <1>9, <1>18, <2>1, <2>2
  <2> QED BY <2>3 DEF FilesTold, Good
<1>20. AnswersGood'
  <2>1. \A j \in 1 .. m : GoodAnswer(call[answers[j].by], answers[j])
    BY <1>2, <1>4 DEF AnswersGood
  <2>2. \A q : GoodAnswer(call[t], q) => GoodAnswer(e, q)
    BY <1>8 DEF GoodAnswer, Good, data, c
  <2>3. \A j \in 1 .. m : GoodAnswer(call'[answers[j].by], answers[j])
    BY <1>9, <1>13, <2>1, <2>2
  <2> QED BY <1>4, <2>3 DEF AnswersGood
<1> QED BY <1>11, <1>12, <1>14, <1>15, <1>16, <1>17, <1>19, <1>20 DEF FsInv
-----------------------------------------------------------------------------
LEMMA FsNextInv == FsInv /\ [FsNext]_fsVars => FsInv'
<1>1. FsInv /\ Serve => FsInv'
  BY ServicePolicyInv, RefuseInv, StartReadInv, StartWriteInv, EndReadInv, EndWriteInv DEF Serve
<1>2. FsInv /\ FsNext => FsInv'
  BY <1>1, UserSyncInv, UserAsyncInv, AnsweredInv DEF FsNext
<1>3. FsInv /\ UNCHANGED fsVars => FsInv'
  BY DEF fsVars, FsInv, FsTypes, Made, Mailed, InOrder, Began, BeganRead, BeganWrite, Steady,
         Seen, AnswersGood, FilesTold
<1> QED BY <1>2, <1>3
\* What the file service answers is what happened, however the caller's
\* synchronous operations fall between its steps, and it was allowed by the
\* policy the caller had asked for before the call.
THEOREM FilesAreAsTold == FsSpec => []FilesTold
<1>1. FsSpec => []FsInv
  BY FsInitInv, FsNextInv, PTL DEF FsSpec
<1> QED BY <1>1, PTL DEF FsInv
(* ------------------------------- subprocesses ----------------------------- *)
KidOp == {"spawn", "write", "kill"}
WaitOp == {"status", "stdout", "stderr", "release"}
Names == Kid \cup {None}
SubChild == [ready : {"new", "asked", "up", "failed"}, exits : Nat, code : Int,
             pushed : [Stream -> Seq(Int)]]
SubWait == [pc : {"none", "asleep", "done", "failed"} \cup WaitOp, kid : Names, pid : Names,
            stops : BOOLEAN, code : Int, body : [Stream -> Seq(Nat)]]
Steps == Seq(Stream \cup {"in"}) \cup {<<"missing">>}
SubProc == [status : {"none", "running", "zombie", "gone"},
            left : Steps, stdin : Int, code : Int,
            pipe : [Stream -> Seq(Nat)], said : [Stream -> Seq(Nat)]]
SubMail == [op : KidOp, pid : Names, by : Kid] \cup [op : WaitOp, pid : Names, by : Wait]
SubValue == {None} \cup [exited : BOOLEAN, code : Int] \cup Seq(Nat)
SubReply == [op : KidOp, by : Kid, ok : BOOLEAN, val : SubValue]
            \cup [op : WaitOp, by : Wait, ok : BOOLEAN, val : SubValue]
SubTypes ==
    /\ child \in [Kid -> SubChild] /\ wait \in [Wait -> SubWait] /\ proc \in [Kid -> SubProc]
    /\ record \in [Kid -> {None} \cup Record]
    /\ mail \in Seq(SubMail) /\ replies \in Seq(SubReply)
    /\ named \in Names /\ starting \in Seq(Kid)
    /\ at \in [doing : {"idle", "write", "tick"}, kid : Names]
\* A process that was reaped stays so, and what it said and its code stand.
Over(k) == proc[k].status \in {"zombie", "gone"} /\ (record[k] = None \/ record[k].exited)
\* What there is to tell of a stream: all of it, or a beginning if it was too long.
Tells(k, s, b) == IF Fits(k) THEN b = proc[k].said[s] ELSE IsPrefix(b, proc[k].said[s])
\* What the owner keeps of a process and what is in its pipe is what it said,
\* until there is too much.
Kept(k, r) ==
    /\ proc[k].status # "none"
    /\ IF r.truncated
       THEN ~Fits(k) /\ \A s \in Stream : IsPrefix(r.sink[s], proc[k].said[s])
       ELSE \A s \in Stream : r.sink[s] \o proc[k].pipe[s] = proc[k].said[s]
    /\ r.exited => /\ Over(k) /\ r.code = proc[k].code
                   /\ \A s \in Stream : proc[k].pipe[s] = <<>>
RecordsKept == \A k \in Kid : record[k] # None => Kept(k, record[k])
Unborn ==
    /\ \A k \in Kid : proc[k].status = "none" =>
          record[k] = None /\ \A s \in Stream : proc[k].said[s] = <<>>
    /\ \A k \in Kid : child[k].ready = "new" => proc[k].status = "none"
\* A spawn is asked for once and answered once.
SpawnsAwaited ==
    /\ \A i \in DOMAIN mail : mail[i].op = "spawn" =>
          child[mail[i].by].ready = "asked" /\ proc[mail[i].by].status = "none"
    /\ \A j \in DOMAIN replies : replies[j].op = "spawn" =>
          /\ child[replies[j].by].ready = "asked"
          /\ replies[j].ok => record[replies[j].by] # None
SpawnsOnce(ms, rs) ==
    /\ \A i, j \in DOMAIN ms :
          ms[i].op = "spawn" /\ ms[j].op = "spawn" /\ ms[i].by = ms[j].by => i = j
    /\ \A i, j \in DOMAIN rs :
          rs[i].op = "spawn" /\ rs[j].op = "spawn" /\ rs[i].by = rs[j].by => i = j
    /\ \A i \in DOMAIN ms, j \in DOMAIN rs :
          ms[i].op = "spawn" /\ rs[j].op = "spawn" => ms[i].by # rs[j].by
\* A wait() asks about the process of its object, or about none.
Waiters ==
    \A w \in Wait : wait[w].pc # "none" =>
        /\ wait[w].kid \in Kid /\ wait[w].pid \in {None, wait[w].kid}
        /\ wait[w].pid # None => child[wait[w].pid].ready = "up"
Learnt(w) == wait[w].pid # None /\ Over(wait[w].pid) /\ wait[w].code = proc[wait[w].pid].code
LearntOut(w) == Learnt(w) /\ Tells(wait[w].pid, "out", wait[w].body["out"])
MailTrue(m) ==
    m.op \in WaitOp =>
        /\ wait[m.by].pc # "none" /\ m.pid = wait[m.by].pid
        /\ m.op = "stdout" => Learnt(m.by)
        /\ m.op = "stderr" => LearntOut(m.by)
        /\ m.op = "release" /\ m.pid # None => child[m.pid].exits > 0
ReplyTrue(r) ==
    r.op \in WaitOp =>
        LET k == wait[r.by].pid
        IN  /\ wait[r.by].pc # "none"
            /\ r.op = "status" /\ r.ok =>
                  /\ k # None /\ r.val \in [exited : BOOLEAN, code : Int]
                  /\ r.val.exited => Over(k) /\ r.val.code = proc[k].code
            /\ r.op = "stdout" /\ r.ok => Learnt(r.by) /\ r.val \in Seq(Nat) /\ Tells(k, "out", r.val)
            /\ r.op = "stderr" /\ r.ok => LearntOut(r.by) /\ r.val \in Seq(Nat) /\ Tells(k, "err", r.val)
Mailings ==
    /\ \A i \in DOMAIN mail : MailTrue(mail[i])
    /\ \A j \in DOMAIN replies : ReplyTrue(replies[j])
OwnerBusy ==
    /\ at.doing = "tick" => at.kid # None /\ record[at.kid] # None /\ ~record[at.kid].exited
    /\ at.doing = "write" => mail # <<>> /\ Head(mail).op = "write"
\* Before exit is emitted nothing is pushed, and after it each stream has all
\* there was, and then its end.
ToldOf(k, s) ==
    \E n \in 1 .. Len(child[k].pushed[s]) :
        /\ child[k].pushed[s][n] = End
        /\ SubSeq(child[k].pushed[s], 1, n - 1) \in Seq(Nat)
        /\ Tells(k, s, SubSeq(child[k].pushed[s], 1, n - 1))
Children ==
    \A k \in Kid :
        /\ child[k].exits = 0 => \A s \in Stream : child[k].pushed[s] = <<>>
        /\ child[k].exits > 0 =>
              /\ child[k].ready = "up" /\ Over(k) /\ child[k].code = proc[k].code
              /\ \A s \in Stream : ToldOf(k, s)
        /\ child[k].ready = "up" /\ child[k].exits = 0 => record[k] # None
SubInv ==
    /\ SubTypes /\ RecordsKept /\ Unborn /\ SpawnsAwaited /\ SpawnsOnce(mail, replies)
    /\ Waiters /\ Mailings /\ OwnerBusy /\ Children
-----------------------------------------------------------------------------
\* A beginning stays one of what grows, and of what it is the start of.
LEMMA Beginnings ==
    ASSUME NEW b \in Seq(Nat), NEW s \in Seq(Nat), NEW t \in Seq(Nat)
    PROVE  /\ IsPrefix(<<>>, s) /\ IsPrefix(s, s) /\ IsPrefix(s, s \o t)
           /\ IsPrefix(b, s) => IsPrefix(b, s \o t)
<1>1. Len(b) \in Nat /\ Len(s) \in Nat /\ Len(t) \in Nat /\ Len(s \o t) = Len(s) + Len(t)
  BY ConcatProperties, LenProperties
<1>2. \A n \in Int : n <= Len(s) => SubSeq(s \o t, 1, n) = SubSeq(s, 1, n)
  <2> SUFFICES ASSUME NEW n \in Int, n <= Len(s) PROVE SubSeq(s \o t, 1, n) = SubSeq(s, 1, n)
    OBVIOUS
  <2>1. CASE n < 1
    BY <2>1, SubSeqEmpty
  <2>2. CASE n >= 1
    <3>1. 1 \in 1 .. Len(s) /\ n \in 1 .. Len(s)
      BY <1>1, <2>2
    <3> QED BY <3>1, SubSeqOfConcat1
  <2> QED BY <2>1, <2>2
<1>3. Len(<<>>) = 0 /\ SubSeq(<<>>, 1, 0) = <<>> /\ SubSeq(s, 1, 0) = <<>>
  BY SubSeqEmpty
<1>4. IsPrefix(<<>>, s)
  BY <1>1, <1>3 DEF IsPrefix
<1>5. IsPrefix(s, s) /\ IsPrefix(s, s \o t)
  BY <1>1, <1>2 DEF IsPrefix
<1>6. IsPrefix(b, s) => IsPrefix(b, s \o t)
  BY <1>1, <1>2 DEF IsPrefix
<1> QED BY <1>4, <1>5, <1>6
LEMMA MailFields ==
    ASSUME NEW m \in SubMail
    PROVE  /\ m.op \in KidOp \cup WaitOp /\ m.pid \in Names
           /\ m.op \in KidOp => m.by \in Kid
           /\ m.op \in WaitOp => m.by \in Wait
BY DEF SubMail, KidOp, WaitOp
LEMMA ReplyFields ==
    ASSUME NEW r \in SubReply
    PROVE  /\ r.op \in KidOp \cup WaitOp /\ r.ok \in BOOLEAN
           /\ r.op \in KidOp => r.by \in Kid
           /\ r.op \in WaitOp => r.by \in Wait
BY DEF SubReply, KidOp, WaitOp
LEMMA KidFields ==
    ASSUME SubTypes, NEW k \in Kid
    PROVE  /\ child[k] \in SubChild /\ proc[k] \in SubProc /\ record[k] \in {None} \cup Record
           /\ \A s \in Stream : /\ proc[k].said[s] \in Seq(Nat) /\ proc[k].pipe[s] \in Seq(Nat)
                                /\ child[k].pushed[s] \in Seq(Int)
                                /\ record[k] # None => record[k].sink[s] \in Seq(Nat)
           /\ k # None
<1>1. child[k] \in SubChild /\ proc[k] \in SubProc /\ record[k] \in {None} \cup Record /\ k # None
  BY SubprocessAssumption DEF SubTypes
<1> QED BY <1>1 DEF SubChild, SubProc, Record

\* What is true of a message stays true: no step takes back what it rests on.
Grows ==
    /\ \A k \in Kid :
          /\ child[k].ready = "up" => child'[k].ready = "up"
          /\ child[k].exits > 0 => child'[k].exits > 0
          /\ Over(k) => /\ Over(k)' /\ proc'[k].code = proc[k].code
                        /\ proc'[k].said = proc[k].said
    /\ \A w \in Wait : wait[w].pc # "none" =>
          /\ wait'[w].pc # "none" /\ wait'[w].pid = wait[w].pid
          /\ Learnt(w) => wait'[w].code = wait[w].code
          /\ LearntOut(w) =>
                wait'[w].body["out"] = wait[w].body["out"] \/ LearntOut(w)'
LEMMA LearntStays ==
    ASSUME SubTypes, Grows, NEW w \in Wait, wait[w].pc # "none"
    PROVE  /\ Learnt(w) => Learnt(w)'
           /\ LearntOut(w) => LearntOut(w)'
           /\ \A k : \A b : \A s \in Stream :
                 k = wait[w].pid /\ Learnt(w) /\ Tells(k, s, b) => Tells(k, s, b)'
<1>0. PICK k : k = wait[w].pid
  OBVIOUS
<1>1. k # None => k \in Kid
  BY <1>0 DEF SubTypes, SubWait, Names
<1>2. wait'[w].pid = k
  BY <1>0 DEF Grows
<1>3. Learnt(w) => k \in Kid /\ Over(k) /\ Over(k)' /\ proc'[k].said = proc[k].said
                   /\ proc'[k].code = proc[k].code
  BY <1>0, <1>1 DEF Learnt, Grows
<1>4. Learnt(w) => Learnt(w)'
  BY <1>0, <1>2, <1>3 DEF Learnt, Grows
<1>5. \A b : \A s \in Stream : Learnt(w) /\ Tells(k, s, b) => Tells(k, s, b)'
  BY <1>3 DEF Tells, Fits
<1>6. LearntOut(w) => LearntOut(w)'
  <2> SUFFICES ASSUME LearntOut(w), wait'[w].body["out"] = wait[w].body["out"] PROVE LearntOut(w)'
    BY DEF Grows
  <2>1. Tells(wait[w].pid, "out", wait[w].body["out"])'
    <3>1. PICK b : b = wait[w].body["out"]
      OBVIOUS
    <3>2. Tells(k, "out", b)'
      BY <1>0, <1>5, <3>1 DEF LearntOut, Stream
    <3> QED BY <1>0, <1>2, <3>1, <3>2 DEF Tells, Fits
  <2> QED BY <1>0, <1>2, <1>4, <2>1 DEF LearntOut
<1> QED BY <1>0, <1>2, <1>4, <1>5, <1>6
LEMMA MailStays ==
    ASSUME SubTypes, Grows
    PROVE  /\ \A m \in SubMail : MailTrue(m) => MailTrue(m)'
           /\ \A r \in SubReply : ReplyTrue(r) => ReplyTrue(r)'
<1>1. ASSUME NEW m \in SubMail, MailTrue(m) PROVE MailTrue(m)'
  <2> SUFFICES ASSUME m.op \in WaitOp PROVE MailTrue(m)'
    BY DEF MailTrue
  <2>1. m.by \in Wait /\ wait[m.by].pc # "none" /\ m.pid = wait[m.by].pid
    BY <1>1, MailFields DEF MailTrue
  <2>2. wait'[m.by].pc # "none" /\ m.pid = wait'[m.by].pid
    BY <2>1 DEF Grows
  <2>3. (m.op = "stdout" => Learnt(m.by)') /\ (m.op = "stderr" => LearntOut(m.by)')
    BY <1>1, <2>1, LearntStays DEF MailTrue
  <2>4. m.op = "release" /\ m.pid # None => child'[m.pid].exits > 0
    BY <1>1, MailFields DEF MailTrue, Grows, Names
  <2> QED BY <2>2, <2>3, <2>4 DEF MailTrue
<1>2. ASSUME NEW r \in SubReply, ReplyTrue(r) PROVE ReplyTrue(r)'
  <2> SUFFICES ASSUME r.op \in WaitOp PROVE ReplyTrue(r)'
    BY DEF ReplyTrue
  <2>1. PICK k : k = wait[r.by].pid
    OBVIOUS
  <2>2. r.by \in Wait /\ wait[r.by].pc # "none"
    BY <1>2, ReplyFields DEF ReplyTrue
  <2>3. wait'[r.by].pc # "none" /\ wait'[r.by].pid = k /\ (k # None => k \in Kid)
    BY <2>1, <2>2 DEF Grows, SubTypes, SubWait, Names
  <2>4. r.op = "status" /\ r.ok =>
          /\ k # None /\ r.val \in [exited : BOOLEAN, code : Int]
          /\ r.val.exited => Over(k)' /\ r.val.code = proc'[k].code
    BY <1>2, <2>1, <2>3 DEF ReplyTrue, Grows
  <2>5. r.op = "stdout" /\ r.ok => Learnt(r.by)' /\ r.val \in Seq(Nat) /\ Tells(k, "out", r.val)'
    BY <1>2, <2>1, <2>2, LearntStays DEF ReplyTrue, Stream
  <2>6. r.op = "stderr" /\ r.ok => LearntOut(r.by)' /\ r.val \in Seq(Nat) /\ Tells(k, "err", r.val)'
    BY <1>2, <2>1, <2>2, LearntStays DEF ReplyTrue, Stream, LearntOut
  <2>7. \A s : Tells(k, s, r.val)' => Tells(wait[r.by].pid, s, r.val)'
    BY <2>1, <2>3 DEF Tells, Fits
  <2> QED BY <2>3, <2>4, <2>5, <2>6, <2>7 DEF ReplyTrue, Over
<1> QED BY <1>1, <1>2
\* Messages leave at the front and come at the end.
Shifted(ns, ms) ==
    /\ DOMAIN ns \subseteq Nat
    /\ \E d \in Nat : \A i \in DOMAIN ns :
          ns[i].op = "spawn" => i + d \in DOMAIN ms /\ ns[i] = ms[i + d]
LEMMA SpawnsShift ==
    ASSUME NEW ms, NEW rs, SpawnsOnce(ms, rs), NEW ns, NEW ss, Shifted(ns, ms), Shifted(ss, rs)
    PROVE  SpawnsOnce(ns, ss)
<1>0. /\ DOMAIN ns \subseteq Nat /\ DOMAIN ss \subseteq Nat
      /\ \E d \in Nat : \A i \in DOMAIN ns :
            ns[i].op = "spawn" => i + d \in DOMAIN ms /\ ns[i] = ms[i + d]
      /\ \E e \in Nat : \A j \in DOMAIN ss :
            ss[j].op = "spawn" => j + e \in DOMAIN rs /\ ss[j] = rs[j + e]
  BY DEF Shifted
<1>d. PICK d \in Nat : \A i \in DOMAIN ns :
            ns[i].op = "spawn" => i + d \in DOMAIN ms /\ ns[i] = ms[i + d]
  BY <1>0
<1>e. PICK e \in Nat : \A j \in DOMAIN ss :
            ss[j].op = "spawn" => j + e \in DOMAIN rs /\ ss[j] = rs[j + e]
  BY <1>0
<1>1. ASSUME NEW i \in DOMAIN ns, NEW j \in DOMAIN ns,
             ns[i].op = "spawn", ns[j].op = "spawn", ns[i].by = ns[j].by
      PROVE  i = j
  <2>1. i + d \in DOMAIN ms /\ j + d \in DOMAIN ms /\ ns[i] = ms[i + d] /\ ns[j] = ms[j + d]
    BY <1>1, <1>d
  <2>2. i + d = j + d
    BY <1>1, <2>1 DEF SpawnsOnce
  <2>3. i \in Nat /\ j \in Nat
    BY <1>0
  <2> QED BY ONLY <2>2, <2>3, d \in Nat
<1>2. ASSUME NEW i \in DOMAIN ss, NEW j \in DOMAIN ss,
             ss[i].op = "spawn", ss[j].op = "spawn", ss[i].by = ss[j].by
      PROVE  i = j
  <2>1. i + e \in DOMAIN rs /\ j + e \in DOMAIN rs /\ ss[i] = rs[i + e] /\ ss[j] = rs[j + e]
    BY <1>2, <1>e
  <2>2. i + e = j + e
    BY <1>2, <2>1 DEF SpawnsOnce
  <2>3. i \in Nat /\ j \in Nat
    BY <1>0
  <2> QED BY ONLY <2>2, <2>3, e \in Nat
<1>3. ASSUME NEW i \in DOMAIN ns, NEW j \in DOMAIN ss, ns[i].op = "spawn", ss[j].op = "spawn"
      PROVE  ns[i].by # ss[j].by
  BY <1>3, <1>d, <1>e DEF SpawnsOnce
<1> QED BY <1>1, <1>2, <1>3 DEF SpawnsOnce
LEMMA ShiftNone ==
    ASSUME NEW S, NEW ns \in Seq(S), NEW ms,
           \A i \in DOMAIN ns : ns[i].op = "spawn" => i \in DOMAIN ms /\ ns[i] = ms[i]
    PROVE  Shifted(ns, ms)
<1>1. DOMAIN ns \subseteq Nat
  BY LenProperties
<1>2. \E d \in Nat : \A i \in DOMAIN ns :
          ns[i].op = "spawn" => i + d \in DOMAIN ms /\ ns[i] = ms[i + d]
  <2>1. \A i \in DOMAIN ns : i + 0 = i
    BY <1>1
  <2> WITNESS 0 \in Nat
  <2> QED BY <2>1
<1> QED BY <1>1, <1>2 DEF Shifted
LEMMA ShiftTail ==
    ASSUME NEW S, NEW ms \in Seq(S), ms # <<>>
    PROVE  /\ Shifted(Tail(ms), ms)
           /\ \A i \in DOMAIN Tail(ms) : i + 1 \in DOMAIN ms /\ Tail(ms)[i] = ms[i + 1]
           /\ Tail(ms) \in Seq(S) /\ Head(ms) \in S /\ 1 \in DOMAIN ms /\ Head(ms) = ms[1]
           /\ \A i \in DOMAIN Tail(ms) : i + 1 # 1
<1>1. /\ Len(ms) \in Nat /\ Len(ms) > 0 /\ Len(Tail(ms)) = Len(ms) - 1
      /\ DOMAIN ms = 1 .. Len(ms) /\ DOMAIN Tail(ms) = 1 .. Len(Tail(ms))
      /\ Head(ms) = ms[1] /\ Tail(ms) \in Seq(S) /\ Head(ms) \in S
      /\ \A i \in 1 .. Len(Tail(ms)) : Tail(ms)[i] = ms[i + 1]
  BY HeadTailProperties, LenProperties, EmptySeq
<1>2. \A i \in DOMAIN Tail(ms) : i + 1 \in DOMAIN ms /\ Tail(ms)[i] = ms[i + 1] /\ i + 1 # 1
  BY <1>1
<1>3. \E d \in Nat : \A i \in DOMAIN Tail(ms) :
          Tail(ms)[i].op = "spawn" => i + d \in DOMAIN ms /\ Tail(ms)[i] = ms[i + d]
  <2> WITNESS 1 \in Nat
  <2> QED BY <1>2
<1>4. DOMAIN Tail(ms) \subseteq Nat
  BY <1>1
<1> QED BY <1>1, <1>2, <1>3, <1>4 DEF Shifted
LEMMA SpawnsAsk ==
    ASSUME NEW ms, NEW rs, SpawnsOnce(ms, rs), NEW ns, NEW a \in DOMAIN ns,
           \A i \in DOMAIN ms : ms[i].op = "spawn" => ms[i].by # ns[a].by,
           \A j \in DOMAIN rs : rs[j].op = "spawn" => rs[j].by # ns[a].by,
           \A i \in DOMAIN ns : ns[i].op = "spawn" /\ i # a => i \in DOMAIN ms /\ ns[i] = ms[i]
    PROVE  SpawnsOnce(ns, rs)
<1>1. ASSUME NEW i \in DOMAIN ns, NEW j \in DOMAIN ns,
             ns[i].op = "spawn", ns[j].op = "spawn", ns[i].by = ns[j].by
      PROVE  i = j
  BY <1>1 DEF SpawnsOnce
<1>2. ASSUME NEW i \in DOMAIN ns, NEW j \in DOMAIN rs, ns[i].op = "spawn", rs[j].op = "spawn"
      PROVE  ns[i].by # rs[j].by
  BY <1>2 DEF SpawnsOnce
<1> QED BY <1>1, <1>2 DEF SpawnsOnce
LEMMA SpawnsAnswer ==
    ASSUME NEW S, NEW T, NEW ms \in Seq(S), NEW rs \in Seq(T), SpawnsOnce(ms, rs), ms # <<>>,
           NEW r \in T, Head(ms).op = "spawn", r.by = Head(ms).by
    PROVE  SpawnsOnce(Tail(ms), Append(rs, r))
<1> DEFINE ns == Tail(ms)  ss == Append(rs, r)
<1>1. /\ Len(ms) \in Nat /\ Len(ms) > 0 /\ Len(ns) = Len(ms) - 1
      /\ DOMAIN ms = 1 .. Len(ms) /\ DOMAIN ns = 1 .. Len(ns)
      /\ \A i \in DOMAIN ns : ns[i] = ms[i + 1] /\ i + 1 \in DOMAIN ms
      /\ Head(ms) = ms[1] /\ 1 \in DOMAIN ms
  BY HeadTailProperties, LenProperties, EmptySeq
<1>2. /\ Len(rs) \in Nat /\ DOMAIN rs = 1 .. Len(rs)
      /\ DOMAIN ss = 1 .. Len(rs) + 1 /\ ss[Len(rs) + 1] = r
      /\ \A j \in DOMAIN rs : ss[j] = rs[j]
  BY AppendProperties, LenProperties
<1> HIDE DEF ns, ss
<1>3. ASSUME NEW i \in DOMAIN ns, NEW j \in DOMAIN ns,
             ns[i].op = "spawn", ns[j].op = "spawn", ns[i].by = ns[j].by
      PROVE  i = j
  <2>1. i + 1 = j + 1
    BY <1>1, <1>3 DEF SpawnsOnce
  <2>2. i \in Int /\ j \in Int
    BY <1>1
  <2> QED BY ONLY <2>1, <2>2
<1>4. ASSUME NEW i \in DOMAIN ss, NEW j \in DOMAIN ss,
             ss[i].op = "spawn", ss[j].op = "spawn", ss[i].by = ss[j].by
      PROVE  i = j
  <2>1. \A n \in DOMAIN rs : rs[n].op = "spawn" => rs[n].by # r.by
    BY <1>1 DEF SpawnsOnce
  <2>2. \A n \in DOMAIN ss : n \in DOMAIN rs \/ n = Len(rs) + 1
    BY <1>2
  <2> QED BY <1>2, <1>4, <2>1, <2>2 DEF SpawnsOnce
<1>5. ASSUME NEW i \in DOMAIN ns, NEW j \in DOMAIN ss, ns[i].op = "spawn", ss[j].op = "spawn"
      PROVE  ns[i].by # ss[j].by
  <2>1. \A n \in DOMAIN ss : n \in DOMAIN rs \/ n = Len(rs) + 1
    BY <1>2
  <2>2. CASE j = Len(rs) + 1
    <3>1. i + 1 # 1
      BY <1>1
    <3> QED BY <1>1, <1>2, <1>5, <2>2, <3>1 DEF SpawnsOnce
  <2>3. CASE j \in DOMAIN rs
    BY <1>1, <1>2, <1>5, <2>3 DEF SpawnsOnce
  <2> QED BY <2>1, <2>2, <2>3
<1> QED BY <1>3, <1>4, <1>5 DEF SpawnsOnce, ns, ss
-----------------------------------------------------------------------------
\* The caller's steps leave the owner alone and add requests to the mailbox.
LEMMA ClientInv ==
    ASSUME SubInv, UNCHANGED <<record, proc, at>>, SubTypes', Grows,
           NEW ns \in Seq(SubMail), mail' = mail \o ns, \A i \in DOMAIN ns : MailTrue(ns[i])',
           NEW e \in {0, 1},
           \A j \in DOMAIN replies' : j + e \in DOMAIN replies /\ replies'[j] = replies[j + e],
           \A k \in Kid : child'[k].ready = "new" => child[k].ready = "new",
           SpawnsAwaited', SpawnsOnce(mail', replies'), Waiters', Children'
    PROVE  SubInv'
<1>1. SubTypes /\ RecordsKept /\ Unborn /\ Mailings /\ OwnerBusy
  BY DEF SubInv
<1>2. mail \in Seq(SubMail) /\ replies \in Seq(SubReply)
  BY <1>1 DEF SubTypes
<1>3. /\ Len(mail) \in Nat /\ Len(ns) \in Nat /\ DOMAIN mail = 1 .. Len(mail)
      /\ DOMAIN ns = 1 .. Len(ns) /\ mail' \in Seq(SubMail) /\ DOMAIN mail' = 1 .. Len(mail')
      /\ Len(mail') = Len(mail) + Len(ns)
      /\ \A i \in 1 .. Len(mail) + Len(ns) :
            mail'[i] = IF i <= Len(mail) THEN mail[i] ELSE ns[i - Len(mail)]
  BY <1>2, ConcatProperties, LenProperties
<1>4. RecordsKept'
  BY <1>1 DEF RecordsKept, Kept, Over, Fits
<1>5. Unborn'
  BY <1>1 DEF Unborn
<1>6. OwnerBusy'
  <2>1. mail # <<>> => mail' # <<>> /\ Head(mail') = Head(mail)
    <3> SUFFICES ASSUME mail # <<>> PROVE mail' # <<>> /\ Head(mail') = Head(mail)
      OBVIOUS
    <3>1. Len(mail) > 0 /\ Len(mail') > 0 /\ mail'[1] = mail[1]
      BY <1>2, <1>3, EmptySeq
    <3> QED BY <1>2, <1>3, <3>1, HeadTailProperties, EmptySeq
  <2> QED BY <1>1, <2>1 DEF OwnerBusy
<1>7. Mailings'
  <2>1. ASSUME NEW m, NEW i \in DOMAIN mail', m = mail'[i] PROVE MailTrue(m)'
    <3>1. CASE i <= Len(mail)
      <4>1. i \in DOMAIN mail /\ m = mail[i]
        BY <1>3, <2>1, <3>1
      <4>2. m \in SubMail /\ MailTrue(m)
        BY <1>1, <1>2, <4>1, ElementOfSeq DEF Mailings
      <4> QED BY <1>1, <4>2, MailStays
    <3>2. CASE ~(i <= Len(mail))
      <4>1. i - Len(mail) \in DOMAIN ns /\ m = ns[i - Len(mail)]
        BY <1>3, <2>1, <3>2
      <4> QED BY <4>1
    <3> QED BY <3>1, <3>2
  <2>2. ASSUME NEW r, NEW j \in DOMAIN replies', r = replies'[j] PROVE ReplyTrue(r)'
    <3>1. j + e \in DOMAIN replies /\ r = replies[j + e]
      BY <2>2
    <3>2. r \in SubReply /\ ReplyTrue(r)
      BY <1>1, <1>2, <3>1, ElementOfSeq, LenProperties DEF Mailings
    <3> QED BY <1>1, <3>2, MailStays
  <2>3. \A i \in DOMAIN mail' : MailTrue(mail[i])'
    <3> TAKE i \in DOMAIN mail'
    <3>1. PICK m : m = mail'[i]
      OBVIOUS
    <3>2. MailTrue(m)'
      BY <2>1, <3>1
    <3> QED BY <3>1, <3>2 DEF MailTrue, Learnt, LearntOut, Tells, Fits, Over
  <2>4. \A j \in DOMAIN replies' : ReplyTrue(replies[j])'
    <3> TAKE j \in DOMAIN replies'
    <3>1. PICK r : r = replies'[j]
      OBVIOUS
    <3>2. ReplyTrue(r)'
      BY <2>2, <3>1
    <3> QED BY <3>1, <3>2 DEF ReplyTrue, Learnt, LearntOut, Tells, Fits, Over
  <2> QED BY <2>3, <2>4 DEF Mailings
<1> QED BY <1>4, <1>5, <1>6, <1>7 DEF SubInv
\* One that neither spawns nor reads an answer.
LEMMA AskingInv ==
    ASSUME SubInv, UNCHANGED <<child, replies, record, proc, at>>,
           NEW ns \in Seq(SubMail), mail' = mail \o ns,
           \A i \in DOMAIN ns : ns[i].op # "spawn" /\ MailTrue(ns[i])',
           wait' \in [Wait -> SubWait], named' \in Names, starting' \in Seq(Kid),
           \A w \in Wait : wait[w].pc # "none" =>
              /\ wait'[w].pc # "none" /\ wait'[w].kid = wait[w].kid /\ wait'[w].pid = wait[w].pid
              /\ wait'[w].code = wait[w].code /\ wait'[w].body = wait[w].body,
           \A w \in Wait : wait'[w].pc # "none" /\ wait[w].pc = "none" =>
              /\ wait'[w].kid \in Kid /\ wait'[w].pid \in {None, wait'[w].kid}
              /\ wait'[w].pid # None => child[wait'[w].pid].ready = "up"
    PROVE  SubInv'
<1>1. SubTypes /\ SpawnsAwaited /\ SpawnsOnce(mail, replies) /\ Waiters /\ Children
  BY DEF SubInv
<1>2. mail \in Seq(SubMail) /\ replies \in Seq(SubReply)
  BY <1>1 DEF SubTypes
<1>3. /\ Len(mail) \in Nat /\ Len(ns) \in Nat /\ DOMAIN mail = 1 .. Len(mail)
      /\ DOMAIN ns = 1 .. Len(ns) /\ mail' \in Seq(SubMail) /\ DOMAIN mail' = 1 .. Len(mail')
      /\ Len(mail') = Len(mail) + Len(ns)
      /\ \A i \in 1 .. Len(mail) + Len(ns) :
            mail'[i] = IF i <= Len(mail) THEN mail[i] ELSE ns[i - Len(mail)]
      /\ DOMAIN replies = 1 .. Len(replies) /\ Len(replies) \in Nat
  BY <1>2, ConcatProperties, LenProperties
<1>4. SubTypes'
  BY <1>1, <1>3 DEF SubTypes
<1>5. Grows
  BY DEF Grows, Over, LearntOut, Learnt, Tells, Fits
<1>6. \A i \in DOMAIN mail' : mail'[i].op = "spawn" => i \in DOMAIN mail /\ mail'[i] = mail[i]
  <2> SUFFICES ASSUME NEW i \in DOMAIN mail', mail'[i].op = "spawn", ~(i \in DOMAIN mail)
               PROVE  FALSE
    BY <1>3
  <2>1. i - Len(mail) \in DOMAIN ns /\ mail'[i] = ns[i - Len(mail)]
    BY <1>3
  <2> QED BY <2>1
<1>7. SpawnsAwaited'
  BY <1>1, <1>6 DEF SpawnsAwaited
<1>8. SpawnsOnce(mail', replies')
  <2>1. Shifted(mail', mail)
    BY <1>3, <1>6, ShiftNone
  <2>2. Shifted(replies', replies)
    BY <1>2, ShiftNone
  <2> QED BY <1>1, <2>1, <2>2, SpawnsShift
<1>9. Waiters'
  BY <1>1 DEF Waiters
<1>10. Children'
  <2>1. \A k \in Kid : \A s \in Stream : ToldOf(k, s)' <=> ToldOf(k, s)
    BY DEF ToldOf, Tells, Fits
  <2> QED BY <1>1, <2>1 DEF Children, Over
<1>11. \A j \in DOMAIN replies' : j + 0 \in DOMAIN replies /\ replies'[j] = replies[j + 0]
  BY <1>3
<1> QED BY <1>4, <1>5, <1>7, <1>8, <1>9, <1>10, <1>11, ClientInv
LEMMA WaitsFields ==
    ASSUME SubTypes, NEW k \in Kid, NEW w \in Wait, NEW stops \in BOOLEAN, wait[w].pc = "none",
           Waits(w, k, stops)
    PROVE  /\ wait' \in [Wait -> SubWait]
           /\ wait'[w].pc = "status" /\ wait'[w].kid = k /\ wait'[w].pid = Pid(k)
           /\ \A v \in Wait : v # w => wait'[v] = wait[v]
           /\ Pid(k) \in {None, k} /\ (Pid(k) # None => child[k].ready = "up")
<1> DEFINE e == [Nobody EXCEPT !.pc = "status", !.kid = k, !.pid = Pid(k), !.stops = stops]
<1>1. Pid(k) \in {None, k} /\ (Pid(k) # None => child[k].ready = "up")
  BY DEF Pid
<1>2. e \in SubWait /\ e.pc = "status" /\ e.kid = k /\ e.pid = Pid(k)
  <2> DEFINE none == [s \in Stream |-> <<>>]
  <2>1. none \in [Stream -> Seq(Nat)]
    BY EmptySeq
  <2>2. Nobody = [pc |-> "none", kid |-> None, pid |-> None, stops |-> FALSE,
                  code |-> 0, body |-> none]
    BY DEF Nobody
  <2> HIDE DEF none
  <2>3. e = [pc |-> "status", kid |-> k, pid |-> Pid(k), stops |-> stops, code |-> 0, body |-> none]
    <3>1. PICK p : p = Pid(k)
      OBVIOUS
    <3>2. e = [Nobody EXCEPT !.pc = "status", !.kid = k, !.pid = p, !.stops = stops]
      BY <3>1
    <3> HIDE DEF e
    <3>3. e = [pc |-> "status", kid |-> k, pid |-> p, stops |-> stops, code |-> 0, body |-> none]
      BY ONLY <2>2, <3>2
    <3> QED BY <3>1, <3>3
  <2>4. Pid(k) \in Names
    BY <1>1 DEF Names
  <2> HIDE DEF e
  <2> QED BY <2>1, <2>3, <2>4 DEF SubWait, Names, WaitOp
<1>3. wait' = [wait EXCEPT ![w] = e]
  BY DEF Waits
<1> HIDE DEF e
<1> QED BY <1>1, <1>2, <1>3 DEF SubTypes
\* The step adds one request, or two.
LEMMA OneRequest ==
    ASSUME SubTypes, NEW m \in SubMail
    PROVE  /\ Append(mail, m) = mail \o <<m>> /\ <<m>> \in Seq(SubMail)
           /\ \A i \in DOMAIN <<m>> : <<m>>[i] = m
<1>1. mail \in Seq(SubMail)
  BY DEF SubTypes
<1>2. Append(mail, m) = mail \o <<m>>
  BY <1>1, AppendIsConcat
<1>3. <<m>> \in Seq(SubMail) /\ \A i \in DOMAIN <<m>> : <<m>>[i] = m
  OBVIOUS
<1> QED BY <1>2, <1>3
LEMMA TwoRequests ==
    ASSUME NEW m \in SubMail, NEW n \in SubMail
    PROVE  /\ <<m, n>> \in Seq(SubMail) /\ DOMAIN <<m, n>> = {1, 2}
           /\ <<m, n>>[1] = m /\ <<m, n>>[2] = n
OBVIOUS
LEMMA ThreeRequests ==
    ASSUME NEW m \in SubMail, NEW n \in SubMail, NEW o \in SubMail
    PROVE  /\ <<m, n, o>> \in Seq(SubMail) /\ DOMAIN <<m, n, o>> = {1, 2, 3}
           /\ <<m, n, o>>[1] = m /\ <<m, n, o>>[2] = n /\ <<m, n, o>>[3] = o
           /\ Append(<<m, n>>, o) = <<m, n, o>>
<1>1. /\ <<m, n, o>> \in Seq(SubMail) /\ DOMAIN <<m, n, o>> = {1, 2, 3}
      /\ <<m, n, o>>[1] = m /\ <<m, n, o>>[2] = n /\ <<m, n, o>>[3] = o
  OBVIOUS
<1>2. Append(<<m, n>>, o) = <<m, n, o>>
  <2> DEFINE s == Append(<<m, n>>, o)
  <2>1. s \in Seq(SubMail) /\ Len(s) = 3 /\ s[1] = m /\ s[2] = n /\ s[3] = o
    BY TwoRequests, AppendProperties
  <2>2. <<m, n, o>> \in Seq(SubMail) /\ Len(<<m, n, o>>) = 3
    OBVIOUS
  <2>3. \A i \in 1 .. 3 : i = 1 \/ i = 2 \/ i = 3
    OBVIOUS
  <2> HIDE DEF s
  <2>4. s = <<m, n, o>>
    <3> DEFINE u == <<m, n, o>>
    <3>1. u[1] = m /\ u[2] = n /\ u[3] = o
      OBVIOUS
    <3> HIDE DEF u
    <3>2. u \in Seq(SubMail) /\ Len(u) = 3
      BY <2>2 DEF u
    <3>3. \A i \in 1 .. Len(s) : s[i] = u[i]
      BY <2>1, <2>3, <3>1
    <3>4. s = u
      BY <2>1, <3>2, <3>3, SeqEqual
    <3> QED BY <3>4 DEF u
  <2> QED BY <2>4 DEF s
<1> QED BY <1>1, <1>2
LEMMA RequestFields ==
    ASSUME NEW op, NEW pid, NEW by
    PROVE  /\ Request(op, pid, by).op = op /\ Request(op, pid, by).pid = pid
           /\ Request(op, pid, by).by = by
           /\ op \in KidOp /\ pid \in Names /\ by \in Kid => Request(op, pid, by) \in SubMail
           /\ op \in WaitOp /\ pid \in Names /\ by \in Wait => Request(op, pid, by) \in SubMail
BY DEF Request, SubMail
LEMMA UserWaitInv ==
    ASSUME SubInv, NEW k \in Kid, NEW w \in Wait, UserWait(k, w)
    PROVE  SubInv'
<1>1. SubTypes
  BY DEF SubInv
<1>2. PICK m : m = Request("status", Pid(k), w)
  OBVIOUS
<1>3. /\ wait' \in [Wait -> SubWait]
      /\ wait'[w].pc = "status" /\ wait'[w].kid = k /\ wait'[w].pid = Pid(k)
      /\ \A v \in Wait : v # w => wait'[v] = wait[v]
      /\ Pid(k) \in {None, k} /\ (Pid(k) # None => child[k].ready = "up")
      /\ wait[w].pc = "none"
  BY <1>1, WaitsFields DEF UserWait
<1>4. m \in SubMail /\ m.op = "status" /\ m.pid = Pid(k) /\ m.by = w
  BY <1>2, <1>3, RequestFields DEF WaitOp, Names
<1>5. MailTrue(m)'
  BY <1>3, <1>4 DEF MailTrue
<1>6. mail' = Append(mail, m) /\ UNCHANGED <<child, replies, record, proc, at, named, starting>>
  BY <1>2 DEF UserWait
<1>7. mail' = mail \o <<m>> /\ <<m>> \in Seq(SubMail) /\ \A i \in DOMAIN <<m>> : <<m>>[i] = m
  BY <1>1, <1>4, <1>6, OneRequest
<1>8. named' \in Names /\ starting' \in Seq(Kid)
  BY <1>1, <1>6 DEF SubTypes
<1>9. \A v \in Wait : wait[v].pc # "none" =>
              /\ wait'[v].pc # "none" /\ wait'[v].kid = wait[v].kid /\ wait'[v].pid = wait[v].pid
              /\ wait'[v].code = wait[v].code /\ wait'[v].body = wait[v].body
  BY <1>3
<1>10. \A v \in Wait : wait'[v].pc # "none" /\ wait[v].pc = "none" =>
              /\ wait'[v].kid \in Kid /\ wait'[v].pid \in {None, wait'[v].kid}
              /\ wait'[v].pid # None => child[wait'[v].pid].ready = "up"
  BY <1>3
<1>11. \A i \in DOMAIN <<m>> : <<m>>[i].op # "spawn" /\ MailTrue(<<m>>[i])'
  <2> TAKE i \in DOMAIN <<m>>
  <2>1. PICK x : x = <<m>>[i]
    OBVIOUS
  <2>2. x = m
    BY <1>7, <2>1
  <2> QED BY <1>4, <1>5, <2>1, <2>2
<1> QED BY <1>3, <1>6, <1>7, <1>8, <1>9, <1>10, <1>11, AskingInv
LEMMA UserSendsInv ==
    ASSUME SubInv, NEW k \in Kid, UserWrite(k) \/ UserKill(k)
    PROVE  SubInv'
<1>1. SubTypes
  BY DEF SubInv
<1>2. PICK op \in {"write", "kill"} : mail' = Append(mail, Request(op, Pid(k), k))
  BY DEF UserWrite, UserKill
<1>3. PICK m : m = Request(op, Pid(k), k)
  OBVIOUS
<1>4. m \in SubMail /\ m.op = op
  BY <1>3, RequestFields DEF KidOp, Names, Pid
<1>5. UNCHANGED <<child, wait, replies, record, proc, at, named, starting>>
  BY DEF UserWrite, UserKill
<1>6. mail' = mail \o <<m>> /\ <<m>> \in Seq(SubMail) /\ \A i \in DOMAIN <<m>> : <<m>>[i] = m
  BY <1>1, <1>2, <1>3, <1>4, OneRequest
<1>7. wait' \in [Wait -> SubWait] /\ named' \in Names /\ starting' \in Seq(Kid)
  BY <1>1, <1>5 DEF SubTypes
<1>8. \A i \in DOMAIN <<m>> : <<m>>[i].op # "spawn" /\ MailTrue(<<m>>[i])'
  <2> TAKE i \in DOMAIN <<m>>
  <2>1. PICK x : x = <<m>>[i]
    OBVIOUS
  <2>2. x.op # "spawn" /\ x.op \notin WaitOp
    BY <1>4, <1>6, <2>1 DEF WaitOp
  <2> QED BY <2>1, <2>2 DEF MailTrue
<1> QED BY <1>5, <1>6, <1>7, <1>8, AskingInv
LEMMA UserStopInv ==
    ASSUME SubInv, NEW w \in Wait, UserStop(w)
    PROVE  SubInv'
<1>1. SubTypes
  BY DEF SubInv
<1>2. PICK k \in Kid : k = named
  BY <1>1 DEF UserStop, SubTypes, Names
<1>3. PICK m : m = Request("status", Pid(k), w)
  OBVIOUS
<1>4. PICK a : a = Request("kill", Pid(k), k)
  OBVIOUS
<1>5. /\ wait' \in [Wait -> SubWait]
      /\ wait'[w].pc = "status" /\ wait'[w].kid = k /\ wait'[w].pid = Pid(k)
      /\ \A v \in Wait : v # w => wait'[v] = wait[v]
      /\ Pid(k) \in {None, k} /\ (Pid(k) # None => child[k].ready = "up")
      /\ wait[w].pc = "none"
  BY <1>1, <1>2, WaitsFields DEF UserStop
<1>6. m \in SubMail /\ m.op = "status" /\ m.pid = Pid(k) /\ m.by = w
  BY <1>3, <1>5, RequestFields DEF WaitOp, Names
<1>7. a \in SubMail /\ a.op = "kill"
  BY <1>4, <1>5, RequestFields DEF KidOp, Names
<1>8. MailTrue(m)'
  BY <1>5, <1>6 DEF MailTrue
<1>9. MailTrue(a)'
  BY <1>7 DEF MailTrue, WaitOp
<1>10. mail' = mail \o <<a, m>> /\ UNCHANGED <<child, replies, record, proc, at, named, starting>>
  BY <1>2, <1>3, <1>4 DEF UserStop
<1>11. /\ <<a, m>> \in Seq(SubMail) /\ DOMAIN <<a, m>> = {1, 2}
       /\ <<a, m>>[1] = a /\ <<a, m>>[2] = m
  BY <1>6, <1>7, TwoRequests
<1>12. named' \in Names /\ starting' \in Seq(Kid)
  BY <1>1, <1>10 DEF SubTypes
<1>13. \A i \in DOMAIN <<a, m>> : <<a, m>>[i].op # "spawn" /\ MailTrue(<<a, m>>[i])'
  <2> TAKE i \in DOMAIN <<a, m>>
  <2>1. PICK x : x = <<a, m>>[i]
    OBVIOUS
  <2>2. x = a \/ x = m
    BY <1>11, <2>1
  <2> QED BY <1>6, <1>7, <1>8, <1>9, <2>1, <2>2
<1>14. \A v \in Wait : wait[v].pc # "none" =>
              /\ wait'[v].pc # "none" /\ wait'[v].kid = wait[v].kid /\ wait'[v].pid = wait[v].pid
              /\ wait'[v].code = wait[v].code /\ wait'[v].body = wait[v].body
  BY <1>5
<1>15. \A v \in Wait : wait'[v].pc # "none" /\ wait[v].pc = "none" =>
              /\ wait'[v].kid \in Kid /\ wait'[v].pid \in {None, wait'[v].kid}
              /\ wait'[v].pid # None => child[wait'[v].pid].ready = "up"
  BY <1>5
<1> QED BY <1>5, <1>10, <1>11, <1>12, <1>13, <1>14, <1>15, AskingInv
LEMMA GoesFields ==
    ASSUME SubTypes, NEW w \in Wait, NEW pc \in {"none", "asleep", "done", "failed"} \cup WaitOp,
           Goes(w, pc)
    PROVE  /\ wait' \in [Wait -> SubWait] /\ wait'[w].pc = pc
           /\ \A v \in Wait : /\ v # w => wait'[v] = wait[v]
                              /\ wait'[v].kid = wait[v].kid /\ wait'[v].pid = wait[v].pid
                              /\ wait'[v].code = wait[v].code /\ wait'[v].body = wait[v].body
BY DEF Goes, SubTypes, SubWait
LEMMA WakeInv ==
    ASSUME SubInv, NEW w \in Wait, Wake(w)
    PROVE  SubInv'
<1>1. SubTypes /\ wait[w].pc = "asleep" /\ Goes(w, "status")
  BY DEF SubInv, Wake
<1>2. /\ wait' \in [Wait -> SubWait] /\ wait'[w].pc = "status"
      /\ \A v \in Wait : /\ v # w => wait'[v] = wait[v]
                         /\ wait'[v].kid = wait[v].kid /\ wait'[v].pid = wait[v].pid
                         /\ wait'[v].code = wait[v].code /\ wait'[v].body = wait[v].body
  BY <1>1, GoesFields DEF WaitOp
<1>3. PICK m : m = Request("status", wait[w].pid, w)
  OBVIOUS
<1>4. m \in SubMail /\ m.op = "status" /\ m.pid = wait'[w].pid /\ m.by = w
  <2>1. wait[w].pid \in Names
    BY <1>1 DEF SubTypes, SubWait
  <2> QED BY <1>2, <1>3, <2>1, RequestFields DEF WaitOp
<1>5. MailTrue(m)'
  BY <1>2, <1>4 DEF MailTrue
<1>6. mail' = Append(mail, m) /\ UNCHANGED <<child, replies, record, proc, at, named, starting>>
  BY <1>3 DEF Wake, Asks
<1>7. mail' = mail \o <<m>> /\ <<m>> \in Seq(SubMail) /\ \A i \in DOMAIN <<m>> : <<m>>[i] = m
  BY <1>1, <1>4, <1>6, OneRequest
<1>8. named' \in Names /\ starting' \in Seq(Kid)
  BY <1>1, <1>6 DEF SubTypes
<1>9. \A v \in Wait : wait[v].pc # "none" =>
              /\ wait'[v].pc # "none" /\ wait'[v].kid = wait[v].kid /\ wait'[v].pid = wait[v].pid
              /\ wait'[v].code = wait[v].code /\ wait'[v].body = wait[v].body
  BY <1>2
<1>10. \A v \in Wait : ~(wait'[v].pc # "none" /\ wait[v].pc = "none")
  BY <1>1, <1>2
<1>11. \A i \in DOMAIN <<m>> : <<m>>[i].op # "spawn" /\ MailTrue(<<m>>[i])'
  <2> TAKE i \in DOMAIN <<m>>
  <2>1. PICK x : x = <<m>>[i]
    OBVIOUS
  <2>2. x = m
    BY <1>7, <2>1
  <2> QED BY <1>4, <1>5, <2>1, <2>2
<1> QED BY <1>2, <1>6, <1>7, <1>8, <1>9, <1>10, <1>11, AskingInv
LEMMA NamedInv ==
    ASSUME SubInv, Named
    PROVE  SubInv'
<1>1. SubTypes
  BY DEF SubInv
<1>2. mail' = mail \o <<>> /\ <<>> \in Seq(SubMail)
  BY <1>1, ConcatEmptySeq, EmptySeq DEF Named, SubTypes
<1>3. named' \in Names /\ starting' \in Seq(Kid)
  BY <1>1, HeadTailProperties DEF Named, SubTypes, Names
<1>4. UNCHANGED <<child, wait, replies, record, proc, at>> /\ wait' \in [Wait -> SubWait]
  BY <1>1 DEF Named, SubTypes
<1>5. \A i \in DOMAIN <<>> : <<>>[i].op # "spawn" /\ MailTrue(<<>>[i])'
  OBVIOUS
<1> QED BY <1>2, <1>3, <1>4, <1>5, AskingInv
\* An object asks for its process: no request or answer of its own is there yet.
LEMMA SpawnsInv ==
    ASSUME SubInv, NEW k \in Kid, Spawns(k), UNCHANGED <<replies, record, proc, at, named>>,
           NEW ns \in Seq(SubMail), mail' = mail \o ns, 1 \in DOMAIN ns, ns[1] = SpawnRequest(k),
           \A i \in DOMAIN ns : i # 1 => ns[i].op # "spawn" /\ MailTrue(ns[i])',
           wait' \in [Wait -> SubWait], starting' \in Seq(Kid),
           \A v \in Wait : wait[v].pc # "none" => wait'[v] = wait[v],
           \A v \in Wait : wait'[v].pc # "none" /\ wait[v].pc = "none" =>
              wait'[v].kid \in Kid /\ wait'[v].pid = None
    PROVE  SubInv'
<1>1. SubTypes /\ Unborn /\ SpawnsAwaited /\ SpawnsOnce(mail, replies) /\ Waiters /\ Children
  BY DEF SubInv
<1>2. mail \in Seq(SubMail) /\ replies \in Seq(SubReply) /\ named \in Names /\ at' = at
  BY <1>1 DEF SubTypes
<1>3. /\ Len(mail) \in Nat /\ Len(ns) \in Nat /\ DOMAIN mail = 1 .. Len(mail)
      /\ DOMAIN ns = 1 .. Len(ns) /\ mail' \in Seq(SubMail) /\ DOMAIN mail' = 1 .. Len(mail')
      /\ Len(mail') = Len(mail) + Len(ns)
      /\ \A i \in 1 .. Len(mail) + Len(ns) :
            mail'[i] = IF i <= Len(mail) THEN mail[i] ELSE ns[i - Len(mail)]
      /\ DOMAIN replies = 1 .. Len(replies) /\ Len(replies) \in Nat
  BY <1>2, ConcatProperties, LenProperties
<1>4. /\ child[k].ready = "new" /\ proc[k].status = "none"
      /\ child' = [child EXCEPT ![k].ready = "asked"]
  BY <1>1 DEF Spawns, Unborn
<1>5. /\ child' \in [Kid -> SubChild] /\ child'[k].ready = "asked"
      /\ \A j \in Kid : /\ j # k => child'[j] = child[j]
                        /\ child'[j].exits = child[j].exits /\ child'[j].code = child[j].code
                        /\ child'[j].pushed = child[j].pushed
  BY <1>1, <1>4 DEF SubTypes, SubChild
<1>6. SubTypes'
  BY <1>1, <1>3, <1>5 DEF SubTypes
<1>7. Grows
  BY <1>4, <1>5 DEF Grows, Over, LearntOut, Learnt, Tells, Fits
<1>8. PICK r : r = SpawnRequest(k)
  OBVIOUS
<1>9. r.op = "spawn" /\ r.by = k
  BY <1>8 DEF SpawnRequest, Request
<1>10. PICK a \in Nat : a = Len(mail) + 1
  BY <1>3
<1>11. a \in DOMAIN mail' /\ mail'[a] = r
  BY <1>3, <1>8, <1>10
<1>12. \A i \in DOMAIN mail' : mail'[i].op = "spawn" /\ i # a => i \in DOMAIN mail /\ mail'[i] = mail[i]
  <2> SUFFICES ASSUME NEW i \in DOMAIN mail', mail'[i].op = "spawn", i # a, ~(i \in DOMAIN mail)
               PROVE  FALSE
    BY <1>3
  <2>1. i - Len(mail) \in DOMAIN ns /\ i - Len(mail) # 1 /\ mail'[i] = ns[i - Len(mail)]
    BY <1>3, <1>10
  <2> QED BY <2>1
<1>13. /\ \A i \in DOMAIN mail : mail[i].op = "spawn" => mail[i].by # k
       /\ \A j \in DOMAIN replies : replies[j].op = "spawn" => replies[j].by # k
  BY <1>1, <1>4 DEF SpawnsAwaited
<1>14. SpawnsOnce(mail', replies')
  <2>1. mail'[a].by = k
    BY <1>9, <1>11
  <2>2. PICK ms : ms = mail
    OBVIOUS
  <2>3. PICK rs : rs = replies
    OBVIOUS
  <2>4. PICK bs : bs = mail'
    OBVIOUS
  <2>5. SpawnsOnce(ms, rs) /\ a \in DOMAIN bs
    BY <1>1, <1>11, <2>2, <2>3, <2>4
  <2>6. /\ \A i \in DOMAIN ms : ms[i].op = "spawn" => ms[i].by # bs[a].by
        /\ \A j \in DOMAIN rs : rs[j].op = "spawn" => rs[j].by # bs[a].by
    BY <1>13, <2>1, <2>2, <2>3, <2>4
  <2>7. \A i \in DOMAIN bs : bs[i].op = "spawn" /\ i # a => i \in DOMAIN ms /\ bs[i] = ms[i]
    BY <1>12, <2>2, <2>4
  <2>8. SpawnsOnce(bs, rs)
    BY ONLY <2>5, <2>6, <2>7, SpawnsAsk
  <2> QED BY <2>3, <2>4, <2>8
<1>15. SpawnsAwaited'
  <2>1. ASSUME NEW i \in DOMAIN mail', mail'[i].op = "spawn"
        PROVE  child'[mail'[i].by].ready = "asked" /\ proc[mail'[i].by].status = "none"
    <3>1. CASE i = a
      BY <1>4, <1>5, <1>9, <1>11, <3>1
    <3>2. CASE i # a
      <4>1. i \in DOMAIN mail /\ mail'[i] = mail[i] /\ mail[i].op = "spawn"
        BY <1>12, <2>1, <3>2
      <4>2. mail[i] \in SubMail /\ mail[i].by # k
        BY <1>2, <1>3, <1>13, <4>1, ElementOfSeq
      <4>3. mail[i].by \in Kid
        BY <4>1, <4>2, MailFields DEF KidOp
      <4> QED BY <1>1, <1>5, <4>1, <4>2, <4>3 DEF SpawnsAwaited
    <3> QED BY <3>1, <3>2
  <2>2. ASSUME NEW j \in DOMAIN replies, replies[j].op = "spawn"
        PROVE  child'[replies[j].by].ready = "asked" /\ (replies[j].ok => record[replies[j].by] # None)
    <3>1. replies[j].by \in Kid /\ replies[j].by # k
      <4>1. replies[j] \in SubReply
        BY <1>2, <1>3, ElementOfSeq
      <4> QED BY <1>13, <2>2, <4>1, ReplyFields DEF KidOp
    <3> QED BY <1>1, <1>5, <2>2, <3>1 DEF SpawnsAwaited
  <2> QED BY <2>1, <2>2 DEF SpawnsAwaited
<1>16. Waiters'
  <2>1. \A j \in Kid : child[j].ready = "up" => child'[j].ready = "up"
    BY <1>7 DEF Grows
  <2>2. ASSUME NEW w \in Wait, wait'[w].pc # "none"
        PROVE  /\ wait'[w].kid \in Kid /\ wait'[w].pid \in {None, wait'[w].kid}
               /\ wait'[w].pid # None => child'[wait'[w].pid].ready = "up"
    <3>1. CASE wait[w].pc = "none"
      BY <2>2, <3>1
    <3>2. CASE wait[w].pc # "none"
      <4>1. /\ wait[w].kid \in Kid /\ wait[w].pid \in {None, wait[w].kid}
            /\ wait[w].pid # None => child[wait[w].pid].ready = "up"
        BY <1>1, <3>2 DEF Waiters
      <4> QED BY <2>1, <3>2, <4>1
    <3> QED BY <3>1, <3>2
  <2> QED BY <2>2 DEF Waiters
<1>17. Children'
  <2>1. \A j \in Kid : \A s \in Stream : ToldOf(j, s)' <=> ToldOf(j, s)
    BY <1>5, ZenonT(60) DEF ToldOf, Tells, Fits
  <2>2. \A j \in Kid : child'[j].ready = "up" <=> child[j].ready = "up"
    BY <1>4, <1>5
  <2> QED BY <1>1, <1>5, <2>1, <2>2 DEF Children, Over
<1>18. \A j \in DOMAIN replies' : j + 0 \in DOMAIN replies /\ replies'[j] = replies[j + 0]
  BY <1>3
<1>19. \A j \in Kid : child'[j].ready = "new" => child[j].ready = "new"
  BY <1>4, <1>5
<1>20. \A i \in DOMAIN ns : MailTrue(ns[i])'
  <2> TAKE i \in DOMAIN ns
  <2>1. MailTrue(r)'
    BY <1>9 DEF MailTrue, WaitOp
  <2>2. CASE i = 1
    BY <1>8, <2>1, <2>2
  <2>3. CASE i # 1
    BY <2>3
  <2> QED BY <2>2, <2>3
<1> QED BY <1>6, <1>7, <1>14, <1>15, <1>16, <1>17, <1>18, <1>19, <1>20, ClientInv
LEMMA UserSpawnInv ==
    ASSUME SubInv, NEW k \in Kid, UserSpawn(k) \/ UserStart(k)
    PROVE  SubInv'
<1>1. SubTypes
  BY DEF SubInv
<1>2. PICK m : m = SpawnRequest(k)
  OBVIOUS
<1>3. m \in SubMail /\ m.op = "spawn"
  BY <1>2 DEF SpawnRequest, Request, SubMail, KidOp, Names
<1>4. /\ Spawns(k) /\ mail' = Append(mail, m)
      /\ UNCHANGED <<wait, replies, record, proc, at, named>>
  BY <1>2 DEF UserSpawn, UserStart
<1>5. mail' = mail \o <<m>> /\ <<m>> \in Seq(SubMail) /\ \A i \in DOMAIN <<m>> : <<m>>[i] = m
  BY <1>1, <1>3, <1>4, OneRequest
<1>6. starting' \in Seq(Kid) /\ wait' \in [Wait -> SubWait]
  <2>1. starting \in Seq(Kid) /\ wait \in [Wait -> SubWait]
    BY <1>1 DEF SubTypes
  <2>2. starting' = starting \/ starting' = Append(starting, k)
    BY DEF UserSpawn, UserStart
  <2> QED BY <1>4, <2>1, <2>2, AppendProperties
<1>7. 1 \in DOMAIN <<m>> /\ <<m>>[1] = SpawnRequest(k) /\ \A i \in DOMAIN <<m>> : i = 1
  BY <1>2
<1>8. \A i \in DOMAIN <<m>> : i # 1 => <<m>>[i].op # "spawn" /\ MailTrue(<<m>>[i])'
  BY <1>7
<1> QED BY <1>4, <1>5, <1>6, <1>7, <1>8, SpawnsInv
LEMMA UserExecInv ==
    ASSUME SubInv, NEW k \in Kid, NEW w \in Wait, UserExec(k, w)
    PROVE  SubInv'
<1>1. SubTypes
  BY DEF SubInv
<1>2. PICK m : m = SpawnRequest(k)
  OBVIOUS
<1>3. m \in SubMail /\ m.op = "spawn"
  BY <1>2 DEF SpawnRequest, Request, SubMail, KidOp, Names
<1>4. Pid(k) = None /\ Spawns(k)
  BY DEF UserExec, Spawns, Pid
<1>5. PICK a : a = Request("status", Pid(k), w)
  OBVIOUS
<1>6. a \in SubMail /\ a.op = "status" /\ a.pid = None /\ a.by = w
  BY <1>4, <1>5, RequestFields DEF WaitOp, Names
<1>7. /\ wait' \in [Wait -> SubWait]
      /\ wait'[w].pc = "status" /\ wait'[w].kid = k /\ wait'[w].pid = None
      /\ \A v \in Wait : v # w => wait'[v] = wait[v]
      /\ wait[w].pc = "none"
  BY <1>1, <1>4, WaitsFields DEF UserExec
<1>8. PICK c : c = Request("write", Pid(k), k)
  OBVIOUS
<1>9. c \in SubMail /\ c.op = "write" /\ c.pid = None /\ c.by = k
  BY <1>4, <1>8, RequestFields DEF KidOp, Names
<1>10. MailTrue(a)' /\ MailTrue(c)'
  <2>1. MailTrue(a)'
    BY <1>6, <1>7 DEF MailTrue
  <2>2. c.op \notin WaitOp \ KidOp
    BY <1>9 DEF KidOp, WaitOp
  <2>3. MailTrue(c)'
    BY <1>9, <2>2 DEF MailTrue, WaitOp
  <2> QED BY <2>1, <2>3
<1>11. PICK ns \in Seq(SubMail) :
          /\ mail' = mail \o ns /\ 1 \in DOMAIN ns /\ ns[1] = m
          /\ \A i \in DOMAIN ns : i # 1 => ns[i] = a \/ ns[i] = c
  <2>1. /\ <<m, a>> \in Seq(SubMail) /\ DOMAIN <<m, a>> = {1, 2}
        /\ <<m, a>>[1] = m /\ <<m, a>>[2] = a
    BY <1>3, <1>6, TwoRequests
  <2>2. /\ <<m, a, c>> \in Seq(SubMail) /\ DOMAIN <<m, a, c>> = {1, 2, 3}
        /\ <<m, a, c>>[1] = m /\ <<m, a, c>>[2] = a /\ <<m, a, c>>[3] = c
        /\ Append(<<m, a>>, c) = <<m, a, c>>
    BY <1>3, <1>6, <1>9, ThreeRequests
  <2>3. mail' = mail \o <<m, a>> \/ mail' = mail \o Append(<<m, a>>, c)
    BY <1>2, <1>5, <1>8 DEF UserExec
  <2> QED BY <2>1, <2>2, <2>3
<1>12. starting' \in Seq(Kid)
  BY <1>1 DEF SubTypes, UserExec
<1>13. \A i \in DOMAIN ns : i # 1 => ns[i].op # "spawn" /\ MailTrue(ns[i])'
  <2> SUFFICES ASSUME NEW i \in DOMAIN ns, i # 1
               PROVE  ns[i].op # "spawn" /\ MailTrue(ns[i])'
    OBVIOUS
  <2>1. PICK x : x = ns[i]
    OBVIOUS
  <2>2. x = a \/ x = c
    BY <1>11, <2>1
  <2> QED BY <1>6, <1>9, <1>10, <2>1, <2>2
<1>14. UNCHANGED <<replies, record, proc, at, named>>
  BY DEF UserExec
<1>15. \A v \in Wait : wait[v].pc # "none" => wait'[v] = wait[v]
  BY <1>7
<1>16. \A v \in Wait : wait'[v].pc # "none" /\ wait[v].pc = "none" =>
              wait'[v].kid \in Kid /\ wait'[v].pid = None
  BY <1>7
<1> QED BY <1>2, <1>4, <1>7, <1>11, <1>12, <1>13, <1>14, <1>15, <1>16, SpawnsInv
-----------------------------------------------------------------------------
\* The caller takes an answer.
LEMMA AnswerInv ==
    ASSUME SubInv, replies # <<>>, replies' = Tail(replies),
           UNCHANGED <<starting, record, at, proc>>,
           child' \in [Kid -> SubChild], wait' \in [Wait -> SubWait], named' \in Names,
           Grows, Waiters', Children',
           NEW ns \in Seq(SubMail), mail' = mail \o ns,
           \A i \in DOMAIN ns : ns[i].op # "spawn" /\ MailTrue(ns[i])',
           \A k \in Kid : \/ child'[k].ready = child[k].ready
                          \/ /\ Head(replies).op = "spawn" /\ Head(replies).by = k
                             /\ child'[k].ready # "new"
    PROVE  SubInv'
<1>1. SubTypes /\ SpawnsAwaited /\ SpawnsOnce(mail, replies)
  BY DEF SubInv
<1>2. mail \in Seq(SubMail) /\ replies \in Seq(SubReply)
  BY <1>1 DEF SubTypes
<1>3. /\ Len(mail) \in Nat /\ Len(ns) \in Nat /\ DOMAIN mail = 1 .. Len(mail)
      /\ DOMAIN ns = 1 .. Len(ns) /\ mail' \in Seq(SubMail) /\ DOMAIN mail' = 1 .. Len(mail')
      /\ Len(mail') = Len(mail) + Len(ns)
      /\ \A i \in 1 .. Len(mail) + Len(ns) :
            mail'[i] = IF i <= Len(mail) THEN mail[i] ELSE ns[i - Len(mail)]
  BY <1>2, ConcatProperties, LenProperties
<1>4. /\ Shifted(replies', replies)
      /\ \A j \in DOMAIN replies' : j + 1 \in DOMAIN replies /\ replies'[j] = replies[j + 1]
      /\ replies' \in Seq(SubReply) /\ Head(replies) \in SubReply
      /\ 1 \in DOMAIN replies /\ Head(replies) = replies[1]
      /\ \A j \in DOMAIN replies' : j + 1 # 1
  BY <1>2, ShiftTail
<1>5. SubTypes'
  BY <1>1, <1>3, <1>4 DEF SubTypes
<1>6. \A i \in DOMAIN mail' : mail'[i].op = "spawn" => i \in DOMAIN mail /\ mail'[i] = mail[i]
  <2> SUFFICES ASSUME NEW i \in DOMAIN mail', mail'[i].op = "spawn", ~(i \in DOMAIN mail)
               PROVE  FALSE
    BY <1>3
  <2>1. i - Len(mail) \in DOMAIN ns /\ mail'[i] = ns[i - Len(mail)]
    BY <1>3
  <2> QED BY <2>1
<1>7. SpawnsOnce(mail', replies')
  <2>1. Shifted(mail', mail)
    BY <1>3, <1>6, ShiftNone, ZenonT(60)
  <2> QED BY <1>1, <1>4, <2>1, SpawnsShift
<1>8. SpawnsAwaited'
  <2>1. ASSUME NEW i \in DOMAIN mail', mail'[i].op = "spawn"
        PROVE  child'[mail'[i].by].ready = "asked" /\ proc[mail'[i].by].status = "none"
    <3>1. i \in DOMAIN mail /\ mail'[i] = mail[i] /\ mail[i].op = "spawn"
      BY <1>6, <2>1
    <3>2. mail[i].by \in Kid
      <4>1. mail[i] \in SubMail
        BY <1>2, <1>3, <3>1, ElementOfSeq
      <4> QED BY <3>1, <4>1, MailFields DEF KidOp
    <3>3. ~(Head(replies).op = "spawn" /\ Head(replies).by = mail[i].by)
      BY <1>1, <1>4, <3>1 DEF SpawnsOnce
    <3>4. child'[mail[i].by].ready = child[mail[i].by].ready
      BY <3>2, <3>3
    <3> QED BY <1>1, <3>1, <3>4 DEF SpawnsAwaited
  <2>2. ASSUME NEW j \in DOMAIN replies', replies'[j].op = "spawn"
        PROVE  /\ child'[replies'[j].by].ready = "asked"
               /\ replies'[j].ok => record[replies'[j].by] # None
    <3>1. PICK n : n = j + 1
      OBVIOUS
    <3>2. n \in DOMAIN replies /\ replies'[j] = replies[n] /\ replies[n].op = "spawn" /\ n # 1
      BY <1>4, <2>2, <3>1
    <3>3. replies[n].by \in Kid
      <4>1. replies[n] \in SubReply
        BY <1>2, <3>2, ElementOfSeq, LenProperties
      <4> QED BY <3>2, <4>1, ReplyFields DEF KidOp
    <3>4. ~(Head(replies).op = "spawn" /\ Head(replies).by = replies[n].by)
      BY <1>1, <1>4, <3>2 DEF SpawnsOnce
    <3>5. child'[replies[n].by].ready = child[replies[n].by].ready
      BY <3>3, <3>4
    <3> QED BY <1>1, <3>2, <3>5 DEF SpawnsAwaited
  <2> QED BY <2>1, <2>2 DEF SpawnsAwaited
<1>9. \A k \in Kid : child'[k].ready = "new" => child[k].ready = "new"
  OBVIOUS
<1>10. \A i \in DOMAIN ns : MailTrue(ns[i])'
  OBVIOUS
<1> QED BY <1>4, <1>5, <1>7, <1>8, <1>9, <1>10, ClientInv
\* One that leaves the objects alone.
LEMMA AnswerToWait ==
    ASSUME SubInv, replies # <<>>, replies' = Tail(replies),
           UNCHANGED <<child, starting, record, at, proc>>,
           NEW w \in Wait, wait[w].pc # "none", wait' \in [Wait -> SubWait], wait'[w].pc # "none",
           \A v \in Wait : v # w => wait'[v] = wait[v],
           wait'[w].kid = wait[w].kid, wait'[w].pid = wait[w].pid,
           Learnt(w) => wait'[w].code = wait[w].code,
           LearntOut(w) => wait'[w].body["out"] = wait[w].body["out"] \/ LearntOut(w)',
           named' \in Names,
           NEW ns \in Seq(SubMail), mail' = mail \o ns,
           \A i \in DOMAIN ns : ns[i].op # "spawn" /\ MailTrue(ns[i])'
    PROVE  SubInv'
<1>1. SubTypes /\ Waiters /\ Children
  BY DEF SubInv
<1>2. Grows
  <2>1. \A v \in Wait : v # w => (LearntOut(v) => wait'[v].body["out"] = wait[v].body["out"])
    OBVIOUS
  <2>2. \A v \in Wait : wait[v].pc # "none" =>
          /\ wait'[v].pc # "none" /\ wait'[v].pid = wait[v].pid
          /\ Learnt(v) => wait'[v].code = wait[v].code
          /\ LearntOut(v) =>
                wait'[v].body["out"] = wait[v].body["out"] \/ LearntOut(v)'
    BY <2>1
  <2> QED BY <2>2 DEF Grows, Over
<1>3. Waiters'
  BY <1>1 DEF Waiters
<1>4. Children'
  <2>1. \A k \in Kid : \A s \in Stream : ToldOf(k, s)' <=> ToldOf(k, s)
    BY DEF ToldOf, Tells, Fits
  <2> QED BY <1>1, <2>1 DEF Children, Over
<1>5. child' \in [Kid -> SubChild]
  BY <1>1 DEF SubTypes
<1>6. \A k \in Kid : child'[k].ready = child[k].ready
  OBVIOUS
<1> QED BY <1>2, <1>3, <1>4, <1>5, <1>6, AnswerInv
LEMMA OnSpawnInv ==
    ASSUME SubInv, replies # <<>>, replies' = Tail(replies),
           UNCHANGED <<starting, record, at, proc>>,
           NEW r, r = Head(replies), r.op = "spawn", OnSpawn(r)
    PROVE  SubInv'
<1>1. SubTypes /\ SpawnsAwaited /\ Waiters /\ Children
  BY DEF SubInv
<1>2. replies \in Seq(SubReply) /\ mail \in Seq(SubMail)
  BY <1>1 DEF SubTypes
<1>3. r \in SubReply /\ 1 \in DOMAIN replies /\ r = replies[1]
  BY <1>2, ShiftTail
<1>4. PICK k : k = r.by
  OBVIOUS
<1>5. k \in Kid /\ child[k].ready = "asked" /\ (r.ok => record[k] # None)
  BY <1>1, <1>3, <1>4, ReplyFields DEF KidOp, SpawnsAwaited
<1>6. PICK x \in {"up", "failed"} : x = IF r.ok THEN "up" ELSE "failed"
  OBVIOUS
<1>7. child' = [child EXCEPT ![k].ready = x]
  BY <1>4, <1>6 DEF OnSpawn
<1>8. /\ child' \in [Kid -> SubChild] /\ child'[k].ready = x
      /\ \A j \in Kid : /\ j # k => child'[j] = child[j]
                        /\ child'[j].exits = child[j].exits /\ child'[j].code = child[j].code
                        /\ child'[j].pushed = child[j].pushed
  BY <1>1, <1>5, <1>7 DEF SubTypes, SubChild
<1>9. UNCHANGED <<wait, named, mail>>
  BY DEF OnSpawn
<1>10. \A j \in Kid : child[j].ready = "up" => child'[j].ready = "up"
  BY <1>5, <1>8
<1>11. Grows
  BY <1>8, <1>9, <1>10 DEF Grows, Over, LearntOut, Learnt, Tells, Fits
<1>12. Waiters'
  BY <1>1, <1>9, <1>10 DEF Waiters
<1>13. Children'
  <2>1. ASSUME NEW j \in Kid, NEW s \in Stream PROVE ToldOf(j, s)' <=> ToldOf(j, s)
    <3>1. child'[j].pushed = child[j].pushed /\ proc' = proc
      BY <1>8
    <3> QED BY ONLY <3>1 DEF ToldOf, Tells, Fits
  <2>2. ASSUME NEW j \in Kid
        PROVE  /\ child'[j].exits = 0 => \A s \in Stream : child'[j].pushed[s] = <<>>
               /\ child'[j].exits > 0 =>
                     /\ child'[j].ready = "up" /\ Over(j)' /\ child'[j].code = proc'[j].code
                     /\ \A s \in Stream : ToldOf(j, s)'
               /\ child'[j].ready = "up" /\ child'[j].exits = 0 => record'[j] # None
    <3>1. Over(j) <=> Over(j)'
      BY DEF Over
    <3>2. CASE j = k
      BY <1>1, <1>5, <1>6, <1>8, <2>1, <3>1, <3>2 DEF Children
    <3>3. CASE j # k
      BY <1>1, <1>8, <2>1, <3>1, <3>3 DEF Children
    <3> QED BY <3>2, <3>3
  <2> QED BY <2>2 DEF Children
<1>14. mail' = mail \o <<>> /\ <<>> \in Seq(SubMail) /\ named' \in Names /\ wait' \in [Wait -> SubWait]
  BY <1>1, <1>2, <1>9, ConcatEmptySeq, EmptySeq DEF SubTypes
<1>15. \A i \in DOMAIN <<>> : <<>>[i].op # "spawn" /\ MailTrue(<<>>[i])'
  OBVIOUS
<1>16. \A j \in Kid : child'[j].ready = child[j].ready \/
                      (Head(replies).op = "spawn" /\ Head(replies).by = j /\ child'[j].ready # "new")
  BY <1>4, <1>8
<1> QED BY <1>8, <1>11, <1>12, <1>13, <1>14, <1>15, <1>16, AnswerInv
LEMMA NothingAsked ==
    ASSUME SubTypes, UNCHANGED mail
    PROVE  /\ mail' = mail \o <<>> /\ <<>> \in Seq(SubMail)
           /\ \A i \in DOMAIN <<>> : <<>>[i].op # "spawn" /\ MailTrue(<<>>[i])'
<1>1. mail \in Seq(SubMail)
  BY DEF SubTypes
<1>2. mail' = mail \o <<>>
  BY <1>1, ConcatEmptySeq
<1> QED BY <1>2, EmptySeq
\* What a wait() asks next.
LEMMA AsksNext ==
    ASSUME SubTypes, NEW w \in Wait, NEW op \in WaitOp, Asks(w, op), wait'[w].pc # "none",
           wait'[w].pid = wait[w].pid,
           op = "stdout" => Learnt(w)', op = "stderr" => LearntOut(w)',
           op = "release" /\ wait[w].pid # None => child'[wait[w].pid].exits > 0
    PROVE  \E m \in SubMail :
              /\ mail' = mail \o <<m>> /\ <<m>> \in Seq(SubMail)
              /\ \A i \in DOMAIN <<m>> : <<m>>[i].op # "spawn" /\ MailTrue(<<m>>[i])'
<1>1. PICK p : p = wait[w].pid
  OBVIOUS
<1>2. PICK m : m = Request(op, p, w)
  OBVIOUS
<1>3. m \in SubMail /\ m.op = op /\ m.by = w /\ m.pid = p
  <2>1. wait[w].pid \in Names
    BY DEF SubTypes, SubWait
  <2> QED BY <1>1, <1>2, <2>1, RequestFields
<1>4. MailTrue(m)'
  BY <1>1, <1>3 DEF MailTrue
<1>5. mail' = Append(mail, m)
  BY <1>1, <1>2 DEF Asks
<1>6. mail' = mail \o <<m>> /\ <<m>> \in Seq(SubMail) /\ \A i \in DOMAIN <<m>> : <<m>>[i] = m
  BY <1>3, <1>5, OneRequest
<1>7. \A i \in DOMAIN <<m>> : <<m>>[i].op # "spawn" /\ MailTrue(<<m>>[i])'
  <2> TAKE i \in DOMAIN <<m>>
  <2>1. PICK x : x = <<m>>[i]
    OBVIOUS
  <2>2. x = m
    BY <1>6, <2>1
  <2> QED BY <1>3, <1>4, <2>1, <2>2 DEF WaitOp
<1> QED BY <1>3, <1>6, <1>7
LEMMA OnStatusInv ==
    ASSUME SubInv, replies # <<>>, replies' = Tail(replies),
           UNCHANGED <<starting, record, at, proc>>,
           NEW r, r = Head(replies), r.op = "status", OnStatus(r)
    PROVE  SubInv'
<1>1. SubTypes /\ Mailings
  BY DEF SubInv
<1>2. r \in SubReply /\ ReplyTrue(r)
  <2>1. replies \in Seq(SubReply)
    BY <1>1 DEF SubTypes
  <2>2. r \in SubReply /\ 1 \in DOMAIN replies /\ r = replies[1]
    BY <2>1, ShiftTail
  <2> QED BY <1>1, <2>2 DEF Mailings
<1>3. PICK w \in Wait : w = r.by
  BY <1>2, ReplyFields DEF WaitOp
<1>4. PICK k : k = wait[w].pid
  OBVIOUS
<1>5. /\ wait[w].pc # "none" /\ named \in Names /\ UNCHANGED <<child, named>>
      /\ r.ok => /\ k # None /\ r.val \in [exited : BOOLEAN, code : Int]
                 /\ r.val.exited => Over(k) /\ r.val.code = proc[k].code
  BY <1>1, <1>2, <1>3, <1>4 DEF ReplyTrue, WaitOp, SubTypes, OnStatus
<1>6. CASE r.ok /\ r.val.exited
  <2>1. PICK c \in Int : c = r.val.code
    BY <1>5, <1>6
  <2>2. wait' = [wait EXCEPT ![w].pc = "stdout", ![w].code = c] /\ Asks(w, "stdout")
    BY <1>3, <1>6, <2>1 DEF OnStatus
  <2>3. /\ wait' \in [Wait -> SubWait] /\ wait'[w].pc = "stdout" /\ wait'[w].code = c
        /\ wait'[w].pid = k /\ wait'[w].kid = wait[w].kid /\ wait'[w].body = wait[w].body
        /\ \A v \in Wait : v # w => wait'[v] = wait[v]
    BY <1>1, <1>4, <2>2 DEF SubTypes, SubWait, WaitOp
  <2>4. Learnt(w)'
    BY <1>5, <1>6, <2>1, <2>3 DEF Learnt, Over
  <2>5. Learnt(w) => wait'[w].code = wait[w].code
    BY <1>4, <1>5, <1>6, <2>1, <2>3 DEF Learnt
  <2>6. \E m \in SubMail :
              /\ mail' = mail \o <<m>> /\ <<m>> \in Seq(SubMail)
              /\ \A i \in DOMAIN <<m>> : <<m>>[i].op # "spawn" /\ MailTrue(<<m>>[i])'
    BY <1>1, <1>4, <2>2, <2>3, <2>4, AsksNext DEF WaitOp
  <2> QED BY <1>4, <1>5, <2>3, <2>5, <2>6, AnswerToWait
<1>7. CASE ~(r.ok /\ r.val.exited)
  <2>1. PICK x \in {"failed", "asleep"} : Goes(w, x) /\ UNCHANGED mail
    BY <1>3, <1>7 DEF OnStatus
  <2>2. /\ wait' \in [Wait -> SubWait] /\ wait'[w].pc # "none"
        /\ \A v \in Wait : /\ v # w => wait'[v] = wait[v]
                           /\ wait'[v].kid = wait[v].kid /\ wait'[v].pid = wait[v].pid
                           /\ wait'[v].code = wait[v].code /\ wait'[v].body = wait[v].body
    BY <1>1, <2>1, GoesFields
  <2>3. \E ns \in Seq(SubMail) :
            mail' = mail \o ns /\ \A i \in DOMAIN ns : ns[i].op # "spawn" /\ MailTrue(ns[i])'
    BY <1>1, <2>1, NothingAsked
  <2> QED BY <1>5, <2>2, <2>3, AnswerToWait
<1> QED BY <1>6, <1>7
LEMMA OnStdoutInv ==
    ASSUME SubInv, replies # <<>>, replies' = Tail(replies),
           UNCHANGED <<starting, record, at, proc>>,
           NEW r, r = Head(replies), r.op = "stdout", OnStdout(r)
    PROVE  SubInv'
<1>1. SubTypes /\ Mailings
  BY DEF SubInv
<1>2. r \in SubReply /\ ReplyTrue(r)
  <2>1. replies \in Seq(SubReply)
    BY <1>1 DEF SubTypes
  <2>2. r \in SubReply /\ 1 \in DOMAIN replies /\ r = replies[1]
    BY <2>1, ShiftTail
  <2> QED BY <1>1, <2>2 DEF Mailings
<1>3. PICK w \in Wait : w = r.by
  BY <1>2, ReplyFields DEF WaitOp
<1>4. PICK k : k = wait[w].pid
  OBVIOUS
<1>5. /\ wait[w].pc # "none" /\ named \in Names /\ UNCHANGED <<child, named>>
      /\ r.ok => Learnt(w) /\ r.val \in Seq(Nat) /\ Tells(k, "out", r.val)
  BY <1>1, <1>2, <1>3, <1>4 DEF ReplyTrue, WaitOp, SubTypes, OnStdout
<1>6. CASE r.ok
  <2>1. PICK b \in Seq(Nat) : b = r.val
    BY <1>5, <1>6
  <2>2. wait' = [wait EXCEPT ![w].pc = "stderr", ![w].body["out"] = b] /\ Asks(w, "stderr")
    BY <1>3, <1>6, <2>1 DEF OnStdout
  <2>3. /\ wait' \in [Wait -> SubWait] /\ wait'[w].pc = "stderr" /\ wait'[w].code = wait[w].code
        /\ wait'[w].pid = k /\ wait'[w].kid = wait[w].kid /\ wait'[w].body["out"] = b
        /\ \A v \in Wait : v # w => wait'[v] = wait[v]
    <3>1. wait \in [Wait -> SubWait]
      BY <1>1 DEF SubTypes
    <3>2. wait' = [wait EXCEPT ![w].pc = "stderr", ![w].body["out"] = b]
      BY <2>2
    <3>3. PICK x \in SubWait : x = wait[w]
      BY <3>1
    <3>4. PICK d \in [Stream -> Seq(Nat)] : d = [x.body EXCEPT !["out"] = b]
      BY DEF SubWait
    <3>5. d["out"] = b
      BY <3>3, <3>4 DEF SubWait, Stream
    <3>6. PICK y : y = [x EXCEPT !.pc = "stderr", !.body = d]
      OBVIOUS
    <3>7. y = [pc |-> "stderr", kid |-> x.kid, pid |-> x.pid, stops |-> x.stops,
               code |-> x.code, body |-> d]
      BY <3>6 DEF SubWait
    <3>8. y \in SubWait
      BY <3>7 DEF SubWait, WaitOp
    <3>9. wait' = [wait EXCEPT ![w] = y]
      BY ONLY <3>1, <3>2, <3>3, <3>4, <3>6, w \in Wait DEF SubWait, Stream
    <3>10. y.pc = "stderr" /\ y.kid = x.kid /\ y.pid = x.pid /\ y.code = x.code /\ y.body = d
      BY ONLY <3>7
    <3> QED BY <1>4, <3>1, <3>3, <3>5, <3>8, <3>9, <3>10
  <2>4. Tells(k, "out", b)'
    BY <1>5, <1>6, <2>1 DEF Tells, Fits
  <2>5. LearntOut(w)'
    BY <1>4, <1>5, <1>6, <2>3, <2>4 DEF Learnt, LearntOut, Over, Tells, Fits
  <2>6. \E m \in SubMail :
              /\ mail' = mail \o <<m>> /\ <<m>> \in Seq(SubMail)
              /\ \A i \in DOMAIN <<m>> : <<m>>[i].op # "spawn" /\ MailTrue(<<m>>[i])'
    BY <1>1, <1>4, <2>2, <2>3, <2>5, AsksNext DEF WaitOp
  <2> QED BY <1>4, <1>5, <2>3, <2>5, <2>6, AnswerToWait
<1>7. CASE ~r.ok
  <2>1. Goes(w, "failed") /\ UNCHANGED mail
    BY <1>3, <1>7 DEF OnStdout
  <2>2. /\ wait' \in [Wait -> SubWait] /\ wait'[w].pc # "none"
        /\ \A v \in Wait : /\ v # w => wait'[v] = wait[v]
                           /\ wait'[v].kid = wait[v].kid /\ wait'[v].pid = wait[v].pid
                           /\ wait'[v].code = wait[v].code /\ wait'[v].body = wait[v].body
    BY <1>1, <2>1, GoesFields
  <2>3. \E ns \in Seq(SubMail) :
            mail' = mail \o ns /\ \A i \in DOMAIN ns : ns[i].op # "spawn" /\ MailTrue(ns[i])'
    BY <1>1, <2>1, NothingAsked
  <2> QED BY <1>5, <2>2, <2>3, AnswerToWait
<1> QED BY <1>6, <1>7
LEMMA OnOtherInv ==
    ASSUME SubInv, replies # <<>>, replies' = Tail(replies),
           UNCHANGED <<starting, record, at, proc>>,
           NEW r, r = Head(replies),
           \/ r.op = "release" /\ OnRelease(r)
           \/ UNCHANGED <<child, wait, named, mail>>
    PROVE  SubInv'
<1>1. SubTypes /\ Mailings /\ Waiters /\ Children
  BY DEF SubInv
<1>2. \E ns \in Seq(SubMail) :
          mail' = mail \o ns /\ \A i \in DOMAIN ns : ns[i].op # "spawn" /\ MailTrue(ns[i])'
  BY <1>1, NothingAsked DEF OnRelease
<1>3. CASE r.op = "release" /\ OnRelease(r)
  <2>1. r \in SubReply /\ ReplyTrue(r)
    <3>1. replies \in Seq(SubReply)
      BY <1>1 DEF SubTypes
    <3>2. r \in SubReply /\ 1 \in DOMAIN replies /\ r = replies[1]
      BY <3>1, ShiftTail
    <3> QED BY <1>1, <3>2 DEF Mailings
  <2>2. PICK w \in Wait : w = r.by
    BY <1>3, <2>1, ReplyFields DEF WaitOp
  <2>3. wait[w].pc # "none" /\ Goes(w, "done") /\ UNCHANGED child /\ named' \in Names
    BY <1>1, <1>3, <2>1, <2>2 DEF ReplyTrue, WaitOp, OnRelease, SubTypes, Names
  <2>4. /\ wait' \in [Wait -> SubWait] /\ wait'[w].pc # "none"
        /\ \A v \in Wait : /\ v # w => wait'[v] = wait[v]
                           /\ wait'[v].kid = wait[v].kid /\ wait'[v].pid = wait[v].pid
                           /\ wait'[v].code = wait[v].code /\ wait'[v].body = wait[v].body
    BY <1>1, <2>3, GoesFields
  <2> QED BY <1>2, <2>3, <2>4, AnswerToWait
<1>4. CASE UNCHANGED <<child, wait, named, mail>>
  <2>1. Grows
    BY <1>4 DEF Grows, Over
  <2>2. Waiters' /\ child' \in [Kid -> SubChild] /\ wait' \in [Wait -> SubWait] /\ named' \in Names
    BY <1>1, <1>4 DEF Waiters, SubTypes
  <2>3. Children'
    <3>1. ASSUME NEW k \in Kid, NEW s \in Stream PROVE ToldOf(k, s)' <=> ToldOf(k, s)
      <4>1. child' = child /\ proc' = proc
        BY <1>4
      <4> QED BY ONLY <4>1 DEF ToldOf, Tells, Fits
    <3> QED BY <1>1, <1>4, <3>1 DEF Children, Over
  <2>4. \A k \in Kid : child'[k].ready = child[k].ready
    BY <1>4
  <2> QED BY <1>2, <2>1, <2>2, <2>3, <2>4, AnswerInv
<1> QED BY <1>3, <1>4
\* What an emission adds to a stream leaves what was pushed before where it was.
LEMMA Emitted ==
    ASSUME NEW p \in Seq(Int), NEW b \in Seq(Nat), NEW q, q = p \o b \o <<End>>
    PROVE  /\ q \in Seq(Int) /\ Len(q) = Len(p) + Len(b) + 1 /\ Len(p) \in Nat /\ Len(b) \in Nat
           /\ \A n \in 1 .. Len(p) : q[n] = p[n] /\ SubSeq(q, 1, n - 1) = SubSeq(p, 1, n - 1)
           /\ p = <<>> => q[Len(b) + 1] = End /\ SubSeq(q, 1, Len(b)) = b
<1> DEFINE e == <<End>>  c == p \o b
<1>1. e \in Seq(Int) /\ Len(e) = 1 /\ e[1] = End
  BY DEF End
<1>2. b \in Seq(Int) /\ Len(p) \in Nat /\ Len(b) \in Nat
  BY LenProperties, SeqDef
<1> HIDE DEF e
<1>3. /\ c \in Seq(Int) /\ Len(c) = Len(p) + Len(b)
      /\ \A n \in 1 .. Len(p) + Len(b) : c[n] = IF n <= Len(p) THEN p[n] ELSE b[n - Len(p)]
  BY <1>2, ConcatProperties
<1> HIDE DEF c
<1>4. q = c \o e
  BY DEF c, e
<1>5. /\ q \in Seq(Int) /\ Len(q) = Len(c) + Len(e)
      /\ \A n \in 1 .. Len(c) + Len(e) : q[n] = IF n <= Len(c) THEN c[n] ELSE e[n - Len(c)]
  BY <1>1, <1>3, <1>4, ConcatProperties, SMTT(30)
<1>6. \A n \in 1 .. Len(p) : q[n] = p[n]
  BY <1>1, <1>2, <1>3, <1>5
<1>7. ASSUME NEW n \in 1 .. Len(p) PROVE SubSeq(q, 1, n - 1) = SubSeq(p, 1, n - 1)
  <2>1. CASE n = 1
    BY <2>1, SubSeqEmpty
  <2>2. CASE n # 1
    <3>0. PICK m : m = n - 1
      OBVIOUS
    <3>1. 1 \in 1 .. Len(p) /\ m \in 1 .. Len(p)
      BY <1>2, <2>2, <3>0
    <3>2. 1 \in 1 .. Len(c) /\ m \in 1 .. Len(c)
      BY <1>2, <1>3, <3>1
    <3>3. SubSeq(c, 1, m) = SubSeq(p, 1, m)
      BY <1>2, <3>1, SubSeqOfConcat1 DEF c
    <3>4. SubSeq(q, 1, m) = SubSeq(c, 1, m)
      <4>1. c \in Seq(Int) /\ e \in Seq(Int)
        BY <1>1, <1>3
      <4>2. SubSeq(c \o e, 1, m) = SubSeq(c, 1, m)
        BY <3>2, <4>1, SubSeqOfConcat1
      <4> QED BY <1>4, <4>2
    <3> QED BY <3>0, <3>3, <3>4
  <2> QED BY <2>1, <2>2
<1>8. ASSUME p = <<>> PROVE q[Len(b) + 1] = End /\ SubSeq(q, 1, Len(b)) = b
  <2>1. c = b
    BY <1>2, <1>8, ConcatEmptySeq DEF c
  <2>2. q[Len(b) + 1] = e[1]
    <3>1. PICK n : n = Len(b) + 1
      OBVIOUS
    <3>2. n \in 1 .. Len(c) + Len(e) /\ ~(n <= Len(c)) /\ n - Len(c) = 1
      BY <1>1, <1>2, <2>1, <3>1
    <3> QED BY <1>5, <3>1, <3>2
  <2>3. SubSeq(q, 1, Len(b)) = b
    <3>1. CASE Len(b) = 0
      <4>1. b = <<>>
        BY <3>1, EmptySeq
      <4> QED BY <3>1, <4>1, SubSeqEmpty
    <3>2. CASE Len(b) # 0
      <4>1. 1 \in 1 .. Len(b) /\ Len(b) \in 1 .. Len(b)
        BY <1>2, <3>2
      <4>2. SubSeq(q, 1, Len(b)) = SubSeq(b, 1, Len(b))
        BY <1>1, <1>2, <1>4, <2>1, <4>1, SubSeqOfConcat1
      <4> QED BY <1>2, <4>2, SubSeqFull
    <3> QED BY <3>1, <3>2
  <2> QED BY <1>1, <2>2, <2>3
<1> QED BY <1>1, <1>2, <1>3, <1>5, <1>6, <1>7, <1>8
LEMMA ToldAgain ==
    ASSUME NEW k \in Kid, NEW s \in Stream, NEW b \in Seq(Nat), proc' = proc,
           child[k].pushed[s] \in Seq(Int),
           child'[k].pushed[s] = child[k].pushed[s] \o b \o <<End>>,
           (child[k].pushed[s] = <<>> /\ Tells(k, s, b)) \/ ToldOf(k, s)
    PROVE  ToldOf(k, s)'
<1>0. PICK p : p = child[k].pushed[s]
  OBVIOUS
<1>1. p \in Seq(Int) /\ p = child[k].pushed[s]
  BY <1>0
<1>2. PICK q : q = child'[k].pushed[s]
  OBVIOUS
<1>3. /\ q \in Seq(Int) /\ Len(q) = Len(p) + Len(b) + 1 /\ Len(p) \in Nat /\ Len(b) \in Nat
      /\ \A n \in 1 .. Len(p) : q[n] = p[n] /\ SubSeq(q, 1, n - 1) = SubSeq(p, 1, n - 1)
      /\ p = <<>> => q[Len(b) + 1] = End /\ SubSeq(q, 1, Len(b)) = b
  <2>1. q = p \o b \o <<End>>
    BY <1>1, <1>2
  <2>2. p \in Seq(Int) /\ b \in Seq(Nat)
    BY <1>1
  <2> QED BY ONLY <2>1, <2>2, Emitted, ZenonT(60)
<1>4. \E n \in 1 .. Len(q) :
          /\ q[n] = End /\ SubSeq(q, 1, n - 1) \in Seq(Nat)
          /\ Tells(k, s, SubSeq(q, 1, n - 1))
  <2>1. CASE p = <<>> /\ Tells(k, s, b)
    <3>1. Len(b) + 1 \in 1 .. Len(q) /\ Len(b) + 1 - 1 = Len(b)
      <4>1. Len(p) \in Nat /\ Len(b) \in Nat /\ Len(q) = Len(p) + Len(b) + 1
        BY <1>3
      <4> QED BY ONLY <4>1
    <3>2. PICK n : n = Len(b) + 1
      OBVIOUS
    <3>3. n \in 1 .. Len(q) /\ q[n] = End /\ SubSeq(q, 1, n - 1) = b
      BY <1>3, <2>1, <3>1, <3>2
    <3> QED BY <2>1, <3>3
  <2>2. CASE ToldOf(k, s)
    <3>1. PICK n \in 1 .. Len(p) :
              /\ p[n] = End /\ SubSeq(p, 1, n - 1) \in Seq(Nat)
              /\ Tells(k, s, SubSeq(p, 1, n - 1))
      BY <1>1, <2>2 DEF ToldOf
    <3>2. n \in 1 .. Len(q)
      <4>1. Len(p) \in Nat /\ Len(b) \in Nat /\ Len(q) = Len(p) + Len(b) + 1
        BY <1>3
      <4> QED BY ONLY <3>1, <4>1
    <3>3. q[n] = End /\ SubSeq(q, 1, n - 1) = SubSeq(p, 1, n - 1)
      BY <1>3, <3>1
    <3> QED BY <3>1, <3>2, <3>3
  <2> QED BY <1>1, <2>1, <2>2
<1>5. \A x : Tells(k, s, x) <=> Tells(k, s, x)'
  BY DEF Tells, Fits
<1>6. PICK n \in 1 .. Len(q) :
          q[n] = End /\ SubSeq(q, 1, n - 1) \in Seq(Nat) /\ Tells(k, s, SubSeq(q, 1, n - 1))
  BY <1>4
<1>7. Tells(k, s, SubSeq(q, 1, n - 1))'
  <2>1. PICK x : x = SubSeq(q, 1, n - 1)
    OBVIOUS
  <2>2. Tells(k, s, x)'
    BY <1>5, <1>6, <2>1
  <2> QED BY <2>1, <2>2 DEF Tells, Fits
<1> QED BY <1>2, <1>6, <1>7 DEF ToldOf, Tells, Fits
LEMMA OnStderrInv ==
    ASSUME SubInv, replies # <<>>, replies' = Tail(replies),
           UNCHANGED <<starting, record, at, proc>>,
           NEW r, r = Head(replies), r.op = "stderr", OnStderr(r)
    PROVE  SubInv'
<1>1. SubTypes /\ Mailings /\ Waiters /\ Children
  BY DEF SubInv
<1>2. r \in SubReply /\ ReplyTrue(r)
  <2>1. replies \in Seq(SubReply)
    BY <1>1 DEF SubTypes
  <2>2. r \in SubReply /\ 1 \in DOMAIN replies /\ r = replies[1]
    BY <2>1, ShiftTail
  <2> QED BY <1>1, <2>2 DEF Mailings
<1>3. PICK w \in Wait : w = r.by
  BY <1>2, ReplyFields DEF WaitOp
<1>4. PICK k : k = wait[w].pid
  OBVIOUS
<1>5. /\ wait[w].pc # "none" /\ named \in Names /\ named' = named
      /\ r.ok => LearntOut(w) /\ r.val \in Seq(Nat) /\ Tells(k, "err", r.val)
  BY <1>1, <1>2, <1>3, <1>4 DEF ReplyTrue, WaitOp, SubTypes, OnStderr
<1>6. CASE r.ok
  <2>1. PICK b \in Seq(Nat) : b = r.val
    BY <1>5, <1>6
  <2>2. /\ k \in Kid /\ wait[w].kid = k /\ child[k].ready = "up" /\ Over(k)
        /\ wait[w].code = proc[k].code /\ Tells(k, "out", wait[w].body["out"])
        /\ Tells(k, "err", b)
    BY <1>1, <1>4, <1>5, <1>6, <2>1 DEF LearntOut, Learnt, Waiters
  <2>3. PICK o \in Seq(Nat) : o = wait[w].body["out"]
    BY <1>1 DEF SubTypes, SubWait, Stream
  <2>4. child' = [child EXCEPT ![k] = Told(child[k], w, b)] /\ Goes(w, "release") /\ Asks(w, "release")
    BY <1>3, <1>6, <2>1, <2>2 DEF OnStderr
  <2>5. /\ wait' \in [Wait -> SubWait] /\ wait'[w].pc = "release"
        /\ \A v \in Wait : /\ v # w => wait'[v] = wait[v]
                           /\ wait'[v].kid = wait[v].kid /\ wait'[v].pid = wait[v].pid
                           /\ wait'[v].code = wait[v].code /\ wait'[v].body = wait[v].body
    BY <1>1, <2>4, GoesFields DEF WaitOp
  <2>6. /\ child \in [Kid -> SubChild] /\ child[k] \in SubChild /\ child[k].exits \in Nat
        /\ child[k].pushed \in [Stream -> Seq(Int)] /\ wait[w].code \in Int
    BY <1>1, <2>2 DEF SubTypes, SubChild, SubWait
  <2>7. /\ \A j \in Kid : j # k => child'[j] = child[j]
        /\ child'[k] \in SubChild /\ child'[k].ready = "up" /\ child'[k].exits = child[k].exits + 1
        /\ child'[k].code = proc[k].code
        /\ child'[k].pushed["out"] = child[k].pushed["out"] \o o \o <<End>>
        /\ child'[k].pushed["err"] = child[k].pushed["err"] \o b \o <<End>>
    <3>1. PICK q : q = [s \in Stream |->
                  child[k].pushed[s] \o (IF s = "out" THEN o ELSE b) \o <<End>>]
      OBVIOUS
    <3>2. q \in [Stream -> Seq(Int)]
      <4>1. ASSUME NEW s \in Stream PROVE q[s] \in Seq(Int)
        <5>1. PICK x \in Seq(Nat) : x = IF s = "out" THEN o ELSE b
          OBVIOUS
        <5>2. PICK p \in Seq(Int) : p = child[k].pushed[s]
          BY <2>6
        <5>3. q[s] = p \o x \o <<End>>
          BY <3>1, <5>1, <5>2
        <5>4. q[s] \in Seq(Int)
          BY <5>3, Emitted
        <5> QED BY <5>4
      <4> QED BY <3>1, <4>1
    <3>3. q["out"] = child[k].pushed["out"] \o o \o <<End>>
          /\ q["err"] = child[k].pushed["err"] \o b \o <<End>>
      BY <3>1 DEF Stream
    <3>4. PICK c : c = child[k]
      OBVIOUS
    <3>5. PICK x \in Int : x = wait[w].code
      BY <2>6
    <3>6. Told(c, w, b) = [c EXCEPT !.exits = c.exits + 1, !.code = x, !.pushed = q]
      BY <2>3, <3>1, <3>4, <3>5 DEF Told
    <3>7. PICK d : d = Told(c, w, b)
      OBVIOUS
    <3>8. d \in SubChild /\ d.ready = c.ready /\ d.exits = c.exits + 1 /\ d.code = x /\ d.pushed = q
      <4>1. c \in SubChild
        BY <2>6, <3>4
      <4>2. PICK n \in Nat : n = c.exits + 1
        BY <2>6, <3>4
      <4>3. d = [c EXCEPT !.exits = n, !.code = x, !.pushed = q]
        BY <3>6, <3>7, <4>2
      <4>4. d \in SubChild /\ d.ready = c.ready /\ d.exits = n /\ d.code = x /\ d.pushed = q
        BY ONLY <3>2, <4>1, <4>3, x \in Int, n \in Nat DEF SubChild
      <4> QED BY <4>2, <4>4
    <3>9. child' = [child EXCEPT ![k] = d]
      BY <2>4, <3>4, <3>7
    <3>10. child'[k] = d /\ \A j \in Kid : j # k => child'[j] = child[j]
      BY <2>2, <2>6, <3>9
    <3> QED BY <2>2, <3>3, <3>4, <3>5, <3>8, <3>10
  <2>8. child' \in [Kid -> SubChild]
    <3>1. PICK d \in SubChild : d = child'[k]
      BY <2>7
    <3>2. child' = [child EXCEPT ![k] = d]
      BY <2>4, <2>6, <2>2, <3>1
    <3> QED BY <2>6, <3>2
  <2>9. \A j \in Kid : child'[j].ready = child[j].ready /\ (child[j].exits > 0 => child'[j].exits > 0)
    <3> TAKE j \in Kid
    <3>1. CASE j = k
      <4>1. PICK n \in Nat : n = child[k].exits
        BY <2>6
      <4>2. n + 1 > 0
        BY ONLY n \in Nat
      <4> QED BY <2>2, <2>7, <3>1, <4>1, <4>2
    <3>2. CASE j # k
      BY <2>7, <3>2
    <3> QED BY <3>1, <3>2
  <2>10. Grows
    <3>1. \A v \in Wait : wait[v].pc # "none" =>
            wait'[v].pc # "none" /\ wait'[v].pid = wait[v].pid /\ wait'[v].code = wait[v].code
            /\ wait'[v].body = wait[v].body
      BY <2>5
    <3>2. \A j \in Kid : Over(j) => Over(j)' /\ proc'[j].code = proc[j].code /\ proc'[j].said = proc[j].said
      BY DEF Over
    <3> QED BY <2>9, <3>1, <3>2 DEF Grows
  <2>11. Waiters'
    <3>1. \A v \in Wait : wait'[v].pc # "none" => wait[v].pc # "none"
      BY <1>5, <2>5
    <3>2. \A v \in Wait : wait'[v].kid = wait[v].kid /\ wait'[v].pid = wait[v].pid
      BY <2>5
    <3>3. \A v \in Wait : wait[v].pc # "none" =>
            /\ wait[v].kid \in Kid /\ wait[v].pid \in {None, wait[v].kid}
            /\ wait[v].pid # None => wait[v].pid \in Kid /\ child[wait[v].pid].ready = "up"
      BY <1>1 DEF Waiters
    <3> QED BY <2>9, <3>1, <3>2, <3>3 DEF Waiters
  <2>12. Children'
    <3>1. ASSUME NEW j \in Kid, j # k, NEW s \in Stream PROVE ToldOf(j, s)' <=> ToldOf(j, s)
      <4>1. child'[j].pushed = child[j].pushed /\ proc' = proc
        BY <2>7, <3>1
      <4> QED BY ONLY <4>1 DEF ToldOf, Tells, Fits
    <3>2. \A s \in Stream : child[k].pushed[s] \in Seq(Int) /\ (child[k].pushed[s] = <<>> \/ ToldOf(k, s))
      <4>1. child[k].exits = 0 \/ child[k].exits > 0
        <5>1. PICK n \in Nat : n = child[k].exits
          BY <2>6
        <5> QED BY <5>1
      <4> QED BY <1>1, <2>2, <2>6, <4>1 DEF Children
    <3>3. ToldOf(k, "out")'
      <4>1. "out" \in Stream
        BY DEF Stream
      <4> QED BY <2>2, <2>3, <2>7, <3>2, <4>1, ToldAgain
    <3>4. ToldOf(k, "err")'
      <4>1. "err" \in Stream
        BY DEF Stream
      <4> QED BY <2>2, <2>7, <3>2, <4>1, ToldAgain
    <3>5. \A s \in Stream : s = "out" \/ s = "err"
      BY DEF Stream
    <3>6. \A s \in Stream : ToldOf(k, s)'
      BY <3>3, <3>4, <3>5
    <3>7. ASSUME NEW j \in Kid
          PROVE  /\ child'[j].exits = 0 => \A s \in Stream : child'[j].pushed[s] = <<>>
                 /\ child'[j].exits > 0 =>
                       /\ child'[j].ready = "up" /\ Over(j)' /\ child'[j].code = proc'[j].code
                       /\ \A s \in Stream : ToldOf(j, s)'
                 /\ child'[j].ready = "up" /\ child'[j].exits = 0 => record'[j] # None
      <4>1. Over(j) <=> Over(j)'
        BY DEF Over
      <4>2. CASE j = k
        <5>0. PICK n \in Nat : n = child[k].exits
          BY <2>6
        <5>1. child'[j].exits > 0 /\ child'[j].exits # 0
          BY <2>7, <4>2, <5>0
        <5> QED BY <2>2, <2>7, <3>6, <4>1, <4>2, <5>1
      <4>3. CASE j # k
        <5>1. child'[j] = child[j] /\ proc' = proc /\ record' = record
          BY <2>7, <4>3
        <5> QED BY <1>1, <3>1, <4>1, <4>3, <5>1 DEF Children
      <4> QED BY <4>2, <4>3
    <3> QED BY <3>7 DEF Children
  <2>13. \E m \in SubMail :
              /\ mail' = mail \o <<m>> /\ <<m>> \in Seq(SubMail)
              /\ \A i \in DOMAIN <<m>> : <<m>>[i].op # "spawn" /\ MailTrue(<<m>>[i])'
    <3>1. child'[k].exits > 0
      BY <2>6, <2>7
    <3>2. wait[w].pid = k /\ wait'[w].pid = k
      BY <1>4, <2>5
    <3>3. child'[wait[w].pid].exits > 0
      BY <3>1, <3>2
    <3> QED BY <1>1, <2>4, <2>5, <3>3, AsksNext DEF WaitOp
  <2>14. named' \in Names
    BY <1>5
  <2> QED BY <2>5, <2>8, <2>9, <2>10, <2>11, <2>12, <2>13, <2>14, AnswerInv
<1>7. CASE ~r.ok
  <2>1. Goes(w, "failed") /\ UNCHANGED <<child, mail>>
    BY <1>3, <1>7 DEF OnStderr
  <2>2. /\ wait' \in [Wait -> SubWait] /\ wait'[w].pc # "none"
        /\ \A v \in Wait : /\ v # w => wait'[v] = wait[v]
                           /\ wait'[v].kid = wait[v].kid /\ wait'[v].pid = wait[v].pid
                           /\ wait'[v].code = wait[v].code /\ wait'[v].body = wait[v].body
    BY <1>1, <2>1, GoesFields
  <2>3. \E ns \in Seq(SubMail) :
            mail' = mail \o ns /\ \A i \in DOMAIN ns : ns[i].op # "spawn" /\ MailTrue(ns[i])'
    BY <1>1, <2>1, NothingAsked
  <2> QED BY <1>5, <2>1, <2>2, <2>3, AnswerToWait
<1> QED BY <1>6, <1>7
LEMMA OnReplyInv ==
    ASSUME SubInv, OnReply
    PROVE  SubInv'
<1>1. PICK r : r = Head(replies)
  OBVIOUS
<1>2. replies # <<>> /\ replies' = Tail(replies) /\ UNCHANGED <<starting, record, at, proc>>
  BY DEF OnReply
<1>3. \/ r.op = "spawn" /\ OnSpawn(r)
      \/ r.op = "status" /\ OnStatus(r)
      \/ r.op = "stdout" /\ OnStdout(r)
      \/ r.op = "stderr" /\ OnStderr(r)
      \/ r.op = "release" /\ OnRelease(r)
      \/ UNCHANGED <<child, wait, named, mail>>
  BY <1>1 DEF OnReply, OnWritten
<1> QED BY <1>1, <1>2, <1>3, OnSpawnInv, OnStatusInv, OnStdoutInv, OnStderrInv, OnOtherInv
-----------------------------------------------------------------------------
\* A step of the owner, or of a process, as one process sees it.
Moves(k) ==
    /\ record'[k] # None => Kept(k, record[k])'
    /\ Over(k) => Over(k)' /\ proc'[k].code = proc[k].code /\ proc'[k].said = proc[k].said
    /\ proc'[k].status = "none" => record'[k] = None /\ \A s \in Stream : proc'[k].said[s] = <<>>
    /\ record[k] # None => record'[k] # None \/ child[k].exits > 0
LEMMA OwnerInv ==
    ASSUME SubInv, UNCHANGED clientVars,
           proc' \in [Kid -> SubProc], record' \in [Kid -> {None} \cup Record],
           at' \in [doing : {"idle", "write", "tick"}, kid : Names],
           mail' \in Seq(SubMail), replies' \in Seq(SubReply),
           \A k \in Kid : Moves(k),
           \A k \in Kid : child[k].ready = "new" => proc'[k].status = "none",
           OwnerBusy', SpawnsAwaited', SpawnsOnce(mail', replies'),
           NEW d \in {0, 1},
           \A i \in DOMAIN mail' : i + d \in DOMAIN mail /\ mail'[i] = mail[i + d],
           NEW r, ReplyTrue(r)',
           \A j \in DOMAIN replies' : \/ replies'[j] = r
                                      \/ j \in DOMAIN replies /\ replies'[j] = replies[j]
    PROVE  SubInv'
<1>1. SubTypes /\ Mailings /\ Waiters /\ Children
  BY DEF SubInv
<1>2. UNCHANGED <<child, wait, named, starting, writing, calls>>
  BY DEF clientVars
<1>3. SubTypes'
  BY <1>1, <1>2 DEF SubTypes
<1>4. RecordsKept' /\ Unborn'
  BY <1>2 DEF Moves, RecordsKept, Unborn, Kept, Over, Fits
<1>5. Grows
  <2>1. \A k \in Kid :
          Over(k) => Over(k)' /\ proc'[k].code = proc[k].code /\ proc'[k].said = proc[k].said
    BY DEF Moves
  <2>2. child' = child /\ wait' = wait
    BY <1>2
  <2> QED BY <2>1, <2>2 DEF Grows
<1>6. Waiters'
  BY <1>1, <1>2 DEF Waiters
<1>7. mail \in Seq(SubMail) /\ replies \in Seq(SubReply)
  BY <1>1 DEF SubTypes
<1>8. Mailings'
  <2>1. ASSUME NEW m, NEW i \in DOMAIN mail', m = mail'[i] PROVE MailTrue(m)'
    <3>1. m \in SubMail /\ MailTrue(m)
      <4>1. PICK n : n = i + d
        OBVIOUS
      <4>2. n \in DOMAIN mail /\ m = mail[n]
        BY <2>1, <4>1
      <4> QED BY <1>1, <1>7, <4>2, ElementOfSeq, LenProperties DEF Mailings
    <3> QED BY <1>1, <1>5, <3>1, MailStays
  <2>2. ASSUME NEW x, NEW j \in DOMAIN replies', x = replies'[j] PROVE ReplyTrue(x)'
    <3>1. CASE x = r
      BY <3>1
    <3>2. CASE j \in DOMAIN replies /\ x = replies[j]
      <4>1. x \in SubReply /\ ReplyTrue(x)
        BY <1>1, <1>7, <3>2, ElementOfSeq, LenProperties DEF Mailings
      <4> QED BY <1>1, <1>5, <4>1, MailStays
    <3> QED BY <2>2, <3>1, <3>2
  <2>3. \A i \in DOMAIN mail' : MailTrue(mail[i])'
    <3> TAKE i \in DOMAIN mail'
    <3>1. PICK m : m = mail'[i]
      OBVIOUS
    <3>2. MailTrue(m)'
      BY <2>1, <3>1
    <3> QED BY <3>1, <3>2 DEF MailTrue, Learnt, LearntOut, Tells, Fits, Over
  <2>4. \A j \in DOMAIN replies' : ReplyTrue(replies[j])'
    <3> TAKE j \in DOMAIN replies'
    <3>1. PICK x : x = replies'[j]
      OBVIOUS
    <3>2. ReplyTrue(x)'
      BY <2>2, <3>1
    <3> QED BY <3>1, <3>2 DEF ReplyTrue, Learnt, LearntOut, Tells, Fits, Over
  <2> QED BY <2>3, <2>4 DEF Mailings
<1>9. Children'
  <2>1. ASSUME NEW k \in Kid, Over(k), NEW s \in Stream PROVE ToldOf(k, s)' <=> ToldOf(k, s)
    <3>1. proc'[k].said = proc[k].said /\ child' = child
      BY <1>2, <2>1 DEF Moves
    <3> QED BY ONLY <3>1 DEF ToldOf, Tells, Fits
  <2>2. ASSUME NEW k \in Kid
        PROVE  /\ child'[k].exits = 0 => \A s \in Stream : child'[k].pushed[s] = <<>>
               /\ child'[k].exits > 0 =>
                     /\ child'[k].ready = "up" /\ Over(k)' /\ child'[k].code = proc'[k].code
                     /\ \A s \in Stream : ToldOf(k, s)'
               /\ child'[k].ready = "up" /\ child'[k].exits = 0 => record'[k] # None
    <3>1. child' = child
      BY <1>2
    <3>2. CASE child[k].exits > 0
      <4>1. child[k].ready = "up" /\ Over(k) /\ child[k].code = proc[k].code
            /\ \A s \in Stream : ToldOf(k, s)
        BY <1>1, <3>2 DEF Children
      <4>2. Over(k)' /\ proc'[k].code = proc[k].code /\ \A s \in Stream : ToldOf(k, s)'
        BY <2>1, <4>1 DEF Moves
      <4>3. child[k].exits # 0
        <5>1. PICK n \in Nat : n = child[k].exits
          BY <1>1 DEF SubTypes, SubChild
        <5> QED BY <3>2, <5>1
      <4> QED BY <3>1, <4>1, <4>2, <4>3
    <3>3. CASE ~(child[k].exits > 0)
      BY <1>1, <3>1, <3>3 DEF Children, Moves
    <3> QED BY <3>2, <3>3
  <2> QED BY <2>2 DEF Children
<1> QED BY <1>3, <1>4, <1>5, <1>6, <1>8, <1>9 DEF SubInv
\* One that takes no message.
LEMMA QuietInv ==
    ASSUME SubInv, UNCHANGED <<clientVars, mail, replies>>,
           proc' \in [Kid -> SubProc], record' \in [Kid -> {None} \cup Record],
           at' \in [doing : {"idle", "write", "tick"}, kid : Names],
           \A k \in Kid : /\ Moves(k) /\ (record[k] # None => record'[k] # None)
                          /\ proc[k].status = "none" => proc'[k].status = "none",
           OwnerBusy'
    PROVE  SubInv'
<1>1. SubTypes /\ Unborn /\ SpawnsAwaited /\ SpawnsOnce(mail, replies)
  BY DEF SubInv
<1>2. UNCHANGED <<child, mail, replies>> /\ UNCHANGED clientVars
  BY DEF clientVars
<1>3. mail \in Seq(SubMail) /\ replies \in Seq(SubReply)
  BY <1>1 DEF SubTypes
<1>4. \A k \in Kid : child[k].ready = "new" => proc'[k].status = "none"
  BY <1>1 DEF Unborn
<1>5. SpawnsAwaited'
  <2>1. \A i \in DOMAIN mail : mail[i].op = "spawn" => mail[i].by \in Kid
    <3> TAKE i \in DOMAIN mail
    <3>1. mail[i] \in SubMail
      BY <1>3, ElementOfSeq, LenProperties
    <3> QED BY <3>1, MailFields DEF KidOp
  <2>2. \A j \in DOMAIN replies : replies[j].op = "spawn" => replies[j].by \in Kid
    <3> TAKE j \in DOMAIN replies
    <3>1. replies[j] \in SubReply
      BY <1>3, ElementOfSeq, LenProperties
    <3> QED BY <3>1, ReplyFields DEF KidOp
  <2> QED BY <1>1, <1>2, <2>1, <2>2 DEF SpawnsAwaited
<1>6. SpawnsOnce(mail', replies')
  BY <1>1, <1>2
<1>7. \A i \in DOMAIN mail' : i + 0 \in DOMAIN mail /\ mail'[i] = mail[i + 0]
  BY <1>2, <1>3, LenProperties
<1>8. \E r : ReplyTrue(r)'
  <2>1. PICK r : r = [op |-> "kill"]
    OBVIOUS
  <2>2. r.op \notin WaitOp
    BY <2>1 DEF WaitOp
  <2> QED BY <2>2 DEF ReplyTrue
<1> QED BY <1>2, <1>3, <1>4, <1>5, <1>6, <1>7, <1>8, OwnerInv
\* One that answers the message at the front.
LEMMA HandledInv ==
    ASSUME SubInv, UNCHANGED clientVars, mail # <<>>, NEW m, m = Head(mail), mail' = Tail(mail),
           NEW r \in SubReply, replies' = Append(replies, r), r.op = m.op, r.by = m.by,
           ReplyTrue(r)',
           proc' \in [Kid -> SubProc], record' \in [Kid -> {None} \cup Record],
           at' = Idle, \A k \in Kid : Moves(k),
           \A k \in Kid : proc[k].status = "none" =>
                proc'[k].status = "none" \/ (m.op = "spawn" /\ m.by = k),
           m.op = "spawn" /\ r.ok => record'[m.by] # None
    PROVE  SubInv'
<1>1. SubTypes /\ Unborn /\ SpawnsAwaited /\ SpawnsOnce(mail, replies) /\ Children
  BY DEF SubInv
<1>2. child' = child
  BY DEF clientVars
<1>3. mail \in Seq(SubMail) /\ replies \in Seq(SubReply)
  BY <1>1 DEF SubTypes
<1>4. /\ Shifted(mail', mail)
      /\ \A i \in DOMAIN mail' : i + 1 \in DOMAIN mail /\ mail'[i] = mail[i + 1] /\ i + 1 # 1
      /\ mail' \in Seq(SubMail) /\ m \in SubMail /\ 1 \in DOMAIN mail /\ m = mail[1]
  BY <1>3, ShiftTail
<1>5. /\ replies' \in Seq(SubReply) /\ Len(replies) \in Nat /\ DOMAIN replies = 1 .. Len(replies)
      /\ DOMAIN replies' = 1 .. Len(replies) + 1
      /\ replies'[Len(replies) + 1] = r /\ \A j \in DOMAIN replies : replies'[j] = replies[j]
  BY <1>3, AppendProperties, LenProperties
<1>6. \A j \in DOMAIN replies' : \/ replies'[j] = r
                                 \/ j \in DOMAIN replies /\ replies'[j] = replies[j]
  <2> TAKE j \in DOMAIN replies'
  <2>1. j \in DOMAIN replies \/ j = Len(replies) + 1
    BY <1>5
  <2> QED BY <1>5, <2>1
<1>7. \A k \in Kid : child[k].ready = "new" => proc'[k].status = "none"
  <2>1. m.op = "spawn" => child[m.by].ready = "asked"
    BY <1>1, <1>4 DEF SpawnsAwaited
  <2> QED BY <1>1, <2>1 DEF Unborn
<1>8. at' \in [doing : {"idle", "write", "tick"}, kid : Names] /\ OwnerBusy'
  BY DEF Idle, Names, OwnerBusy
<1>9. SpawnsOnce(mail', replies')
  <2>1. CASE m.op = "spawn"
    BY <1>1, <1>3, <2>1, SpawnsAnswer
  <2>2. CASE m.op # "spawn"
    <3>1. \A j \in DOMAIN replies' :
              replies'[j].op = "spawn" => j \in DOMAIN replies /\ replies'[j] = replies[j]
      BY <1>6, <2>2
    <3>2. Shifted(replies', replies)
      <4>1. replies' \in Seq(SubReply)
        BY <1>5
      <4> QED BY ONLY <3>1, <4>1, ShiftNone
    <3> QED BY <1>1, <1>4, <3>2, SpawnsShift
  <2> QED BY <2>1, <2>2
<1>10. SpawnsAwaited'
  <2>1. ASSUME NEW i \in DOMAIN mail', mail'[i].op = "spawn"
        PROVE  child'[mail'[i].by].ready = "asked" /\ proc'[mail'[i].by].status = "none"
    <3>1. PICK n : n = i + 1
      OBVIOUS
    <3>2. n \in DOMAIN mail /\ mail'[i] = mail[n] /\ mail[n].op = "spawn" /\ n # 1
      BY <1>4, <2>1, <3>1
    <3>3. mail[n].by \in Kid
      <4>1. mail[n] \in SubMail
        BY <1>3, <3>2, ElementOfSeq, LenProperties
      <4> QED BY <3>2, <4>1, MailFields DEF KidOp
    <3>4. ~(m.op = "spawn" /\ m.by = mail[n].by)
      BY <1>1, <1>4, <3>2 DEF SpawnsOnce
    <3> QED BY <1>1, <1>2, <3>2, <3>3, <3>4 DEF SpawnsAwaited
  <2>2. ASSUME NEW j \in DOMAIN replies', replies'[j].op = "spawn"
        PROVE  /\ child'[replies'[j].by].ready = "asked"
               /\ replies'[j].ok => record'[replies'[j].by] # None
    <3>1. CASE replies'[j] = r
      <4>1. m.op = "spawn" /\ child[m.by].ready = "asked"
        BY <1>1, <1>4, <2>2, <3>1 DEF SpawnsAwaited
      <4> QED BY <1>2, <3>1, <4>1
    <3>2. CASE j \in DOMAIN replies /\ replies'[j] = replies[j]
      <4>1. PICK k : k = replies[j].by
        OBVIOUS
      <4>2. k \in Kid
        <5>1. replies[j] \in SubReply
          BY <1>3, <3>2, ElementOfSeq, LenProperties
        <5> QED BY <2>2, <3>2, <4>1, <5>1, ReplyFields DEF KidOp
      <4>3. child[k].ready = "asked" /\ (replies[j].ok => record[k] # None)
        BY <1>1, <2>2, <3>2, <4>1 DEF SpawnsAwaited
      <4>4. ~(child[k].exits > 0)
        BY <1>1, <4>2, <4>3 DEF Children
      <4>5. record[k] # None => record'[k] # None
        BY <4>2, <4>4 DEF Moves
      <4> QED BY <1>2, <3>2, <4>1, <4>3, <4>5
    <3> QED BY <1>6, <3>1, <3>2
  <2> QED BY <2>1, <2>2 DEF SpawnsAwaited
<1> QED BY <1>4, <1>5, <1>6, <1>7, <1>8, <1>9, <1>10, OwnerInv
\* A process the step does not concern.
LEMMA Unmoved ==
    ASSUME SubInv, NEW k \in Kid, record'[k] = record[k],
           proc'[k].status = proc[k].status, proc'[k].code = proc[k].code,
           proc'[k].pipe = proc[k].pipe, proc'[k].said = proc[k].said
    PROVE  Moves(k)
<1>1. RecordsKept /\ Unborn
  BY DEF SubInv
<1>2. Over(k) <=> Over(k)'
  BY DEF Over
<1>3. record[k] # None => Kept(k, record[k])'
  <2>1. record[k] # None => Kept(k, record[k])
    BY <1>1 DEF RecordsKept
  <2>2. Fits(k) <=> Fits(k)'
    BY DEF Fits
  <2> QED BY <1>2, <2>1, <2>2 DEF Kept
<1>4. proc'[k].status = "none" => record'[k] = None /\ \A s \in Stream : proc'[k].said[s] = <<>>
  BY <1>1 DEF Unborn
<1> QED BY <1>2, <1>3, <1>4 DEF Moves
\* The answers to the messages, and what a request stands on.
LEMMA Asked ==
    ASSUME SubInv, mail # <<>>, NEW m, m = Head(mail)
    PROVE  m \in SubMail /\ MailTrue(m) /\ 1 \in DOMAIN mail /\ m = mail[1]
<1>1. mail \in Seq(SubMail) /\ Mailings
  BY DEF SubInv, SubTypes
<1>2. m \in SubMail /\ 1 \in DOMAIN mail /\ m = mail[1]
  BY <1>1, ShiftTail
<1> QED BY <1>1, <1>2 DEF Mailings
LEMMA Answers ==
    ASSUME NEW m \in SubMail, NEW ok \in BOOLEAN, NEW val \in SubValue
    PROVE  /\ Answer(m, ok, val) \in SubReply /\ Answer(m, ok, val).op = m.op
           /\ Answer(m, ok, val).by = m.by /\ Answer(m, ok, val).ok = ok
           /\ Answer(m, ok, val).val = val
<1>1. /\ m.op \in KidOp \cup WaitOp
      /\ m.op \in KidOp => m.by \in Kid
      /\ m.op \in WaitOp => m.by \in Wait
  BY MailFields
<1>2. PICK r : r = Answer(m, ok, val)
  OBVIOUS
<1>3. r = [op |-> m.op, by |-> m.by, ok |-> ok, val |-> val]
  BY <1>2 DEF Answer
<1>4. r \in SubReply
  <2>1. CASE m.op \in KidOp
    <3>1. r \in [op : KidOp, by : Kid, ok : BOOLEAN, val : SubValue]
      BY <1>1, <1>3, <2>1
    <3> QED BY <3>1 DEF SubReply
  <2>2. CASE m.op \in WaitOp
    <3>1. r \in [op : WaitOp, by : Wait, ok : BOOLEAN, val : SubValue]
      BY <1>1, <1>3, <2>2
    <3> QED BY <3>1 DEF SubReply
  <2> QED BY <1>1, <2>1, <2>2
<1> QED BY <1>2, <1>3, <1>4
LEMMA StatusInv ==
    ASSUME SubInv, UNCHANGED clientVars, mail # <<>>, NEW m, m = Head(mail), at' = Idle,
           m.op = "status", Status(m)
    PROVE  SubInv'
<1>1. SubTypes /\ RecordsKept
  BY DEF SubInv
<1>2. m \in SubMail /\ MailTrue(m)
  BY Asked
<1>3. PICK ok \in BOOLEAN : ok = Known(m.pid)
  BY DEF Known
<1>4. PICK v : v = IF ok THEN [exited |-> record[m.pid].exited, code |-> record[m.pid].code] ELSE None
  OBVIOUS
<1>5. ok => /\ m.pid \in Kid /\ record[m.pid] \in Record /\ record[m.pid] # None
            /\ v \in [exited : BOOLEAN, code : Int]
  <2>1. m.pid \in Names
    BY <1>2, MailFields
  <2>2. ok => m.pid \in Kid /\ record[m.pid] \in Record /\ record[m.pid] # None
    BY <1>1, <1>3, <2>1, KidFields DEF Known, Names
  <2> QED BY <1>4, <2>2 DEF Record
<1>6. v \in SubValue
  BY <1>4, <1>5 DEF SubValue
<1>7. PICK r : r = Answer(m, ok, v)
  OBVIOUS
<1>8. r \in SubReply /\ r.op = "status" /\ r.by = m.by /\ r.ok = ok /\ r.val = v
  BY <1>2, <1>6, <1>7, Answers
<1>9. replies' = Append(replies, r) /\ mail' = Tail(mail) /\ UNCHANGED <<record, proc>>
  BY <1>3, <1>4, <1>7 DEF Status, Replies
<1>10. UNCHANGED <<child, wait>>
  BY DEF clientVars
<1>11. ReplyTrue(r)'
  <2>1. wait[m.by].pc # "none" /\ wait[m.by].pid = m.pid
    BY <1>2 DEF MailTrue, WaitOp
  <2>2. ok => m.pid # None /\ (v.exited => Over(m.pid) /\ v.code = proc[m.pid].code)
    <3> SUFFICES ASSUME ok PROVE m.pid # None /\ (v.exited => Over(m.pid) /\ v.code = proc[m.pid].code)
      OBVIOUS
    <3>1. Kept(m.pid, record[m.pid])
      BY <1>1, <1>5 DEF RecordsKept
    <3>2. v.exited = record[m.pid].exited /\ v.code = record[m.pid].code
      BY <1>4
    <3>3. m.pid # None
      BY <1>3 DEF Known
    <3> QED BY <3>1, <3>2, <3>3 DEF Kept
  <2>3. PICK k : k = m.pid
    OBVIOUS
  <2>4. ok => k # None /\ v \in [exited : BOOLEAN, code : Int]
              /\ (v.exited => Over(k)' /\ v.code = proc'[k].code)
    BY <1>5, <1>9, <2>2, <2>3 DEF Over
  <2>5. wait'[r.by].pc # "none" /\ wait'[r.by].pid = k
    BY <1>8, <1>10, <2>1, <2>3
  <2> QED BY <1>8, <2>4, <2>5 DEF ReplyTrue, Over
<1>12. proc' \in [Kid -> SubProc] /\ record' \in [Kid -> {None} \cup Record]
  BY <1>1, <1>9 DEF SubTypes
<1>13. \A k \in Kid : Moves(k) /\ (proc[k].status = "none" => proc'[k].status = "none")
  BY <1>9, Unmoved
<1> QED BY <1>8, <1>9, <1>11, <1>12, <1>13, HandledInv
\* What is read is all that was said, or a beginning of what was too much.
LEMMA ReadInv ==
    ASSUME SubInv, UNCHANGED clientVars, mail # <<>>, NEW m, m = Head(mail), at' = Idle,
           NEW s \in Stream, m.op = IF s = "out" THEN "stdout" ELSE "stderr", Read(m, s)
    PROVE  SubInv'
<1>1. SubTypes /\ RecordsKept
  BY DEF SubInv
<1>2. m \in SubMail /\ MailTrue(m) /\ m.op \in {"stdout", "stderr"}
  BY Asked
<1>3. PICK ok \in BOOLEAN : ok = Known(m.pid)
  BY DEF Known
<1>4. PICK v : v = IF ok /\ record[m.pid].exited THEN record[m.pid].sink[s] ELSE <<>>
  OBVIOUS
<1>5. ok => /\ m.pid \in Kid /\ record[m.pid] \in Record /\ record[m.pid] # None
            /\ record[m.pid].sink[s] \in Seq(Nat)
  <2>1. m.pid \in Names
    BY <1>2, MailFields
  <2>2. ok => m.pid \in Kid /\ record[m.pid] \in Record /\ record[m.pid] # None
    BY <1>1, <1>3, <2>1, KidFields DEF Known, Names
  <2> QED BY <2>2 DEF Record
<1>6. v \in Seq(Nat) /\ v \in SubValue
  <2>1. v \in Seq(Nat)
    BY <1>4, <1>5, EmptySeq
  <2> QED BY <2>1 DEF SubValue
<1>7. PICK r : r = Answer(m, ok, v)
  OBVIOUS
<1>8. r \in SubReply /\ r.op = m.op /\ r.by = m.by /\ r.ok = ok /\ r.val = v
  BY <1>2, <1>6, <1>7, Answers
<1>9. replies' = Append(replies, r) /\ mail' = Tail(mail) /\ UNCHANGED <<record, proc>>
  BY <1>3, <1>4, <1>7 DEF Read, Replies
<1>10. UNCHANGED <<child, wait>>
  BY DEF clientVars
<1>11. ReplyTrue(r)'
  <2>0. PICK k : k = m.pid
    OBVIOUS
  <2>1. wait[m.by].pc # "none" /\ wait[m.by].pid = k /\ Learnt(m.by)
        /\ (m.op = "stderr" => LearntOut(m.by))
    BY <1>2, <2>0 DEF MailTrue, WaitOp, LearntOut
  <2>2. ok => Tells(k, s, v)
    <3> SUFFICES ASSUME ok PROVE Tells(k, s, v)
      OBVIOUS
    <3>1. k \in Kid /\ record[k] # None /\ Over(k) /\ Kept(k, record[k]) /\ record[k].exited
      BY <1>1, <1>5, <2>0, <2>1 DEF RecordsKept, Learnt, Over
    <3>2. v = record[k].sink[s] /\ proc[k].pipe[s] = <<>> /\ v \in Seq(Nat)
      BY <1>4, <1>6, <2>0, <3>1 DEF Kept
    <3>3. CASE record[k].truncated
      BY <3>1, <3>2, <3>3 DEF Kept, Tells
    <3>4. CASE ~record[k].truncated
      <4>1. v \o <<>> = proc[k].said[s]
        BY <3>1, <3>2, <3>4 DEF Kept
      <4>2. v \o <<>> = v
        BY <3>2, ConcatEmptySeq
      <4>3. v = proc[k].said[s]
        BY <4>1, <4>2
      <4>4. IsPrefix(v, v)
        BY <3>2, Beginnings
      <4> QED BY <4>3, <4>4 DEF Tells
    <3> QED BY <3>3, <3>4
  <2>3. wait'[r.by].pc # "none" /\ wait'[r.by].pid = k
    BY <1>8, <1>10, <2>1
  <2>4. Learnt(r.by)' /\ (m.op = "stderr" => LearntOut(r.by)')
    BY <1>8, <1>9, <1>10, <2>1 DEF Learnt, LearntOut, Over, Tells, Fits
  <2>5. ok => Tells(k, s, v)'
    BY <1>9, <2>2 DEF Tells, Fits
  <2>6. s = IF m.op = "stdout" THEN "out" ELSE "err"
    BY DEF Stream
  <2> QED BY <1>2, <1>6, <1>8, <2>3, <2>4, <2>5, <2>6 DEF ReplyTrue, Tells, Fits
<1>12. proc' \in [Kid -> SubProc] /\ record' \in [Kid -> {None} \cup Record]
  BY <1>1, <1>9 DEF SubTypes
<1>13. \A k \in Kid : Moves(k) /\ (proc[k].status = "none" => proc'[k].status = "none")
  BY <1>9, Unmoved
<1> QED BY <1>2, <1>8, <1>9, <1>11, <1>12, <1>13, HandledInv
\* An answer that brings nothing.
LEMMA Acknowledged ==
    ASSUME SubInv, UNCHANGED clientVars, mail # <<>>, NEW m, m = Head(mail), NEW ok \in BOOLEAN,
           m.op \in KidOp \cup {"release"}, Replies(m, ok, None)
    PROVE  \E r \in SubReply :
              /\ mail' = Tail(mail) /\ replies' = Append(replies, r)
              /\ r.op = m.op /\ r.by = m.by /\ r.ok = ok /\ ReplyTrue(r)'
<1>1. m \in SubMail /\ MailTrue(m)
  BY Asked
<1>2. PICK r : r = Answer(m, ok, None)
  OBVIOUS
<1>3. r \in SubReply /\ r.op = m.op /\ r.by = m.by /\ r.ok = ok
  <2>1. None \in SubValue
    BY DEF SubValue
  <2> QED BY <1>1, <1>2, <2>1, Answers
<1>4. ReplyTrue(r)'
  <2>1. CASE m.op \in KidOp
    BY <1>3, <2>1 DEF ReplyTrue, KidOp, WaitOp
  <2>2. CASE m.op = "release"
    <3>1. wait[m.by].pc # "none"
      BY <1>1, <2>2 DEF MailTrue, WaitOp
    <3>2. wait' = wait
      BY DEF clientVars
    <3> QED BY <1>3, <2>2, <3>1, <3>2 DEF ReplyTrue
  <2> QED BY <2>1, <2>2
<1>5. mail' = Tail(mail) /\ replies' = Append(replies, r)
  BY <1>2 DEF Replies
<1> QED BY <1>3, <1>4, <1>5
LEMMA KnownKid ==
    ASSUME SubTypes, NEW m \in SubMail
    PROVE  /\ Known(m.pid) \in BOOLEAN
           /\ Known(m.pid) => m.pid \in Kid /\ record[m.pid] # None
<1>1. m.pid \in Names
  BY MailFields
<1> QED BY <1>1 DEF Known, Names
LEMMA WriteEndsInv ==
    ASSUME SubInv, UNCHANGED clientVars, mail # <<>>, NEW m, m = Head(mail), at' = Idle,
           m.op = "write", WriteEnds(m)
    PROVE  SubInv'
<1>1. SubTypes
  BY DEF SubInv
<1>2. m \in SubMail
  BY Asked
<1>3. PICK ok \in BOOLEAN : ok = (Known(m.pid) /\ Runs(m.pid))
  OBVIOUS
<1>4. ok => m.pid \in Kid
  BY <1>1, <1>2, <1>3, KnownKid
<1>5. Replies(m, ok, None) /\ record' = record
  BY <1>3 DEF WriteEnds
<1>6. PICK r \in SubReply :
              /\ mail' = Tail(mail) /\ replies' = Append(replies, r)
              /\ r.op = m.op /\ r.by = m.by /\ r.ok = ok /\ ReplyTrue(r)'
  BY <1>5, Acknowledged DEF KidOp
<1>7. proc' \in [Kid -> SubProc] /\ \A k \in Kid :
         /\ proc'[k].status = proc[k].status /\ proc'[k].code = proc[k].code
         /\ proc'[k].pipe = proc[k].pipe /\ proc'[k].said = proc[k].said
  <2>1. CASE ok
    <3>1. PICK k \in Kid : k = m.pid
      BY <1>4, <2>1
    <3>2. proc' = [proc EXCEPT ![k].stdin = @ + 1]
      BY <1>3, <2>1, <3>1 DEF WriteEnds
    <3>3. PICK n \in Int : n = proc[k].stdin + 1
      BY <1>1 DEF SubTypes, SubProc
    <3>4. proc' = [proc EXCEPT ![k].stdin = n]
      BY <3>2, <3>3
    <3> QED BY <1>1, <3>4 DEF SubTypes, SubProc
  <2>2. CASE ~ok
    BY <1>1, <1>3, <2>2 DEF WriteEnds, SubTypes
  <2> QED BY <2>1, <2>2
<1>8. \A k \in Kid : Moves(k) /\ (proc[k].status = "none" => proc'[k].status = "none")
  BY <1>5, <1>7, Unmoved
<1>9. record' \in [Kid -> {None} \cup Record]
  BY <1>1, <1>5 DEF SubTypes
<1> QED BY <1>6, <1>7, <1>8, <1>9, HandledInv
\* A process whose status, code, input or pipes change.
LEMMA SubProcFields ==
    ASSUME NEW p \in SubProc
    PROVE  /\ p.status \in {"none", "running", "zombie", "gone"}
           /\ p.left \in Steps
           /\ p.stdin \in Int /\ p.code \in Int
           /\ p.pipe \in [Stream -> Seq(Nat)] /\ p.said \in [Stream -> Seq(Nat)]
BY DEF SubProc
\* One that ran and ended, with what it had said.
LEMMA Ended ==
    ASSUME SubInv, NEW k \in Kid, record'[k] = record[k], Runs(k),
           proc'[k].status = "zombie", proc'[k].pipe = proc[k].pipe, proc'[k].said = proc[k].said
    PROVE  Moves(k)
<1>1. RecordsKept
  BY DEF SubInv
<1>2. ~Over(k)
  BY DEF Over, Runs
<1>3. record[k] # None => Kept(k, record[k])'
  <2>1. record[k] # None => Kept(k, record[k])
    BY <1>1 DEF RecordsKept
  <2>2. Fits(k) <=> Fits(k)'
    BY DEF Fits
  <2> QED BY <1>2, <2>1, <2>2 DEF Kept
<1> QED BY <1>2, <1>3 DEF Moves
LEMMA SignalInv ==
    ASSUME SubInv, UNCHANGED clientVars, mail # <<>>, NEW m, m = Head(mail), at' = Idle,
           m.op = "kill", Signal(m)
    PROVE  SubInv'
<1>1. SubTypes
  BY DEF SubInv
<1>2. m \in SubMail
  BY Asked
<1>3. PICK ok \in BOOLEAN : ok = Known(m.pid)
  BY DEF Known
<1>4. ok => m.pid \in Kid
  BY <1>1, <1>2, <1>3, KnownKid
<1>5. Replies(m, ok, None) /\ record' = record
  BY <1>3 DEF Signal
<1>6. PICK r \in SubReply :
              /\ mail' = Tail(mail) /\ replies' = Append(replies, r)
              /\ r.op = m.op /\ r.by = m.by /\ r.ok = ok /\ ReplyTrue(r)'
  BY <1>5, Acknowledged DEF KidOp
<1>7. proc' \in [Kid -> SubProc] /\ \A k \in Kid :
         \/ proc'[k] = proc[k]
         \/ /\ Runs(k) /\ proc'[k].status = "zombie"
            /\ proc'[k].pipe = proc[k].pipe /\ proc'[k].said = proc[k].said
  <2>1. CASE ok /\ Runs(m.pid)
    <3>1. PICK k \in Kid : k = m.pid
      BY <1>4, <2>1
    <3>2. proc' = [proc EXCEPT ![k] = [proc[k] EXCEPT !.status = "zombie", !.code = -1]] /\ Runs(k)
      BY <1>3, <2>1, <3>1 DEF Signal, Kills
    <3>3. PICK p \in SubProc : p = proc[k]
      BY <1>1 DEF SubTypes
    <3>4. PICK q : q = [p EXCEPT !.status = "zombie", !.code = -1]
      OBVIOUS
    <3>5. q \in SubProc /\ q.status = "zombie" /\ q.pipe = p.pipe /\ q.said = p.said
      <4>1. PICK c \in Int : c = -1
        OBVIOUS
      <4>2. PICK l \in Steps, n \in Int, f \in [Stream -> Seq(Nat)], g \in [Stream -> Seq(Nat)] :
                l = p.left /\ n = p.stdin /\ f = p.pipe /\ g = p.said
        BY SubProcFields
      <4>3. q = [status |-> "zombie", left |-> l, stdin |-> n, code |-> c, pipe |-> f, said |-> g]
        BY <3>4, <4>1, <4>2 DEF SubProc
      <4>4. q \in SubProc
        BY ONLY <4>3, l \in Steps, n \in Int, c \in Int,
                f \in [Stream -> Seq(Nat)], g \in [Stream -> Seq(Nat)] DEF SubProc
      <4> QED BY <4>2, <4>3, <4>4
    <3>6. proc \in [Kid -> SubProc] /\ proc' = [proc EXCEPT ![k] = q]
      BY <1>1, <3>2, <3>3, <3>4 DEF SubTypes
    <3> QED BY <3>2, <3>3, <3>5, <3>6
  <2>2. CASE ~(ok /\ Runs(m.pid))
    <3>1. proc' = proc
      BY <1>3, <2>2 DEF Signal, Kills
    <3> QED BY <1>1, <3>1 DEF SubTypes
  <2> QED BY <2>1, <2>2
<1>8. \A k \in Kid : Moves(k) /\ (proc[k].status = "none" => proc'[k].status = "none")
  <2> TAKE k \in Kid
  <2>1. CASE proc'[k] = proc[k]
    BY <1>5, <2>1, Unmoved
  <2>2. CASE /\ Runs(k) /\ proc'[k].status = "zombie"
             /\ proc'[k].pipe = proc[k].pipe /\ proc'[k].said = proc[k].said
    BY <1>5, <2>2, Ended DEF Runs
  <2> QED BY <1>7, <2>1, <2>2
<1>9. record' \in [Kid -> {None} \cup Record]
  BY <1>1, <1>5 DEF SubTypes
<1> QED BY <1>6, <1>7, <1>8, <1>9, HandledInv
LEMMA ReleaseInv ==
    ASSUME SubInv, UNCHANGED clientVars, mail # <<>>, NEW m, m = Head(mail), at' = Idle,
           m.op = "release", Release(m)
    PROVE  SubInv'
<1>1. SubTypes /\ Children
  BY DEF SubInv
<1>2. m \in SubMail /\ MailTrue(m)
  BY Asked
<1>3. PICK r \in SubReply :
              /\ mail' = Tail(mail) /\ replies' = Append(replies, r)
              /\ r.op = m.op /\ r.by = m.by /\ r.ok = TRUE /\ ReplyTrue(r)'
  <2>1. Replies(m, TRUE, None)
    BY DEF Release
  <2> QED BY <2>1, Acknowledged
<1>4. CASE Known(m.pid)
  <2>1. PICK k \in Kid : k = m.pid
    BY <1>1, <1>2, <1>4, KnownKid
  <2>2. k # None /\ child[k].exits > 0
    BY <1>2, <1>4, <2>1 DEF MailTrue, WaitOp, Known
  <2>3. Over(k)
    BY <1>1, <2>2 DEF Children
  <2>4. PICK z \in [Stream -> Seq(Nat)] : z = NoBytes
    BY EmptySeq DEF NoBytes
  <2>5. record' = [record EXCEPT ![k] = None]
        /\ proc' = [proc EXCEPT ![k] = [proc[k] EXCEPT !.status = "gone", !.stdin = 0, !.pipe = z]]
    BY <1>4, <2>1, <2>4 DEF Release, Frees
  <2>6. /\ proc' \in [Kid -> SubProc] /\ record' \in [Kid -> {None} \cup Record]
        /\ record'[k] = None /\ proc'[k].status = "gone" /\ proc'[k].code = proc[k].code
        /\ proc'[k].said = proc[k].said
        /\ \A j \in Kid : j # k => proc'[j] = proc[j] /\ record'[j] = record[j]
    <3>1. PICK p \in SubProc : p = proc[k]
      BY <1>1 DEF SubTypes
    <3>2. PICK q : q = [p EXCEPT !.status = "gone", !.stdin = 0, !.pipe = z]
      OBVIOUS
    <3>3. q \in SubProc /\ q.status = "gone" /\ q.code = p.code /\ q.said = p.said
      <4>1. PICK l \in Steps, c \in Int, g \in [Stream -> Seq(Nat)] :
                l = p.left /\ c = p.code /\ g = p.said
        BY SubProcFields
      <4>2. q = [status |-> "gone", left |-> l, stdin |-> 0, code |-> c, pipe |-> z, said |-> g]
        BY <3>2, <4>1 DEF SubProc
      <4>3. q \in SubProc
        BY ONLY <4>2, l \in Steps, c \in Int,
                z \in [Stream -> Seq(Nat)], g \in [Stream -> Seq(Nat)] DEF SubProc
      <4> QED BY <4>1, <4>2, <4>3
    <3>4. proc \in [Kid -> SubProc] /\ proc' = [proc EXCEPT ![k] = q]
      BY <1>1, <2>5, <3>1, <3>2 DEF SubTypes
    <3>5. record \in [Kid -> {None} \cup Record]
      BY <1>1 DEF SubTypes
    <3>6. /\ record' \in [Kid -> {None} \cup Record] /\ record'[k] = None
          /\ \A j \in Kid : j # k => record'[j] = record[j]
      BY <2>5, <3>5
    <3>7. /\ proc' \in [Kid -> SubProc] /\ proc'[k] = q
          /\ \A j \in Kid : j # k => proc'[j] = proc[j]
      BY <3>3, <3>4
    <3> QED BY <3>1, <3>3, <3>6, <3>7
  <2>7. Moves(k)
    BY <2>2, <2>6 DEF Moves, Over
  <2>8. \A j \in Kid : Moves(j) /\ (proc[j].status = "none" => proc'[j].status = "none")
    <3> TAKE j \in Kid
    <3>1. CASE j = k
      BY <2>3, <2>7, <3>1 DEF Over
    <3>2. CASE j # k
      BY <2>6, <3>2, Unmoved
    <3> QED BY <3>1, <3>2
  <2> QED BY <1>3, <2>6, <2>8, HandledInv
<1>5. CASE ~Known(m.pid)
  <2>1. UNCHANGED <<record, proc>>
    BY <1>5 DEF Release
  <2>2. proc' \in [Kid -> SubProc] /\ record' \in [Kid -> {None} \cup Record]
    BY <1>1, <2>1 DEF SubTypes
  <2>3. \A k \in Kid : Moves(k) /\ (proc[k].status = "none" => proc'[k].status = "none")
    BY <2>1, Unmoved
  <2> QED BY <1>3, <2>2, <2>3, HandledInv
<1> QED BY <1>4, <1>5
LEMMA ChangedKid ==
    ASSUME SubTypes, NEW k \in Kid, NEW q \in SubProc, proc' = [proc EXCEPT ![k] = q]
    PROVE  /\ proc' \in [Kid -> SubProc] /\ proc'[k] = q
           /\ \A j \in Kid : j # k => proc'[j] = proc[j]
BY DEF SubTypes
LEMMA SpawnInv ==
    ASSUME SubInv, UNCHANGED clientVars, mail # <<>>, NEW m, m = Head(mail), at' = Idle,
           m.op = "spawn", Spawn(m)
    PROVE  SubInv'
<1>1. SubTypes /\ SpawnsAwaited /\ Unborn
  BY DEF SubInv
<1>2. m \in SubMail /\ 1 \in DOMAIN mail /\ m = mail[1]
  BY Asked
<1>3. PICK k : k = m.by
  OBVIOUS
<1>4. PICK ok \in BOOLEAN : ok = (Cardinality(Records) < MaxProcesses /\ ~Missing(k))
  OBVIOUS
<1>5. /\ record' = IF ok THEN [record EXCEPT ![k] = NewRecord] ELSE record
      /\ IF ok THEN Launches(k) ELSE UNCHANGED proc
      /\ Replies(m, ok, None)
  BY <1>3, <1>4 DEF Spawn
<1>6. k \in Kid /\ proc[k].status = "none" /\ record[k] = None
      /\ \A s \in Stream : proc[k].said[s] = <<>>
  BY <1>1, <1>2, <1>3, MailFields DEF KidOp, SpawnsAwaited, Unborn
<1>7. PICK r \in SubReply :
              /\ mail' = Tail(mail) /\ replies' = Append(replies, r)
              /\ r.op = m.op /\ r.by = m.by /\ r.ok = ok /\ ReplyTrue(r)'
  BY <1>5, Acknowledged DEF KidOp
<1>8. CASE ok
  <2>1. PICK z \in [Stream -> Seq(Nat)] : z = NoBytes /\ \A s \in Stream : z[s] = <<>>
    <3>1. NoBytes \in [Stream -> Seq(Nat)] /\ \A s \in Stream : NoBytes[s] = <<>>
      BY EmptySeq DEF NoBytes
    <3> QED BY <3>1
  <2>2. NewRecord = [exited |-> FALSE, code |-> 0, truncated |-> FALSE, sink |-> z]
    BY <2>1 DEF NewRecord, NoBytes
  <2>3. NewRecord \in Record /\ NewRecord # None
    <3>1. NewRecord \in Record
      BY <2>2 DEF Record
    <3> QED BY <3>1, SubprocessAssumption
  <2>4. record' = [record EXCEPT ![k] = NewRecord]
        /\ proc' = [proc EXCEPT ![k] = [proc[k] EXCEPT !.status = "running", !.pipe = z]]
    BY <1>5, <1>8, <2>1 DEF Launches
  <2>5. /\ record' \in [Kid -> {None} \cup Record] /\ record'[k] = NewRecord
        /\ \A j \in Kid : j # k => record'[j] = record[j]
    BY <1>1, <1>6, <2>3, <2>4 DEF SubTypes
  <2>6. PICK l \in Steps, n \in Int, c \in Int, g \in [Stream -> Seq(Nat)] :
            l = proc[k].left /\ n = proc[k].stdin /\ c = proc[k].code /\ g = proc[k].said
    BY <1>1, <1>6, SubProcFields DEF SubTypes
  <2>7. PICK q \in SubProc : /\ proc' = [proc EXCEPT ![k] = q]
                             /\ q.status = "running" /\ q.pipe = z /\ q.said = g
    <3>1. PICK p \in SubProc : p = proc[k]
      BY <1>1, <1>6 DEF SubTypes
    <3>2. PICK q : q = [p EXCEPT !.status = "running", !.pipe = z]
      OBVIOUS
    <3>3. q = [status |-> "running", left |-> l, stdin |-> n, code |-> c, pipe |-> z, said |-> g]
      BY <2>6, <3>1, <3>2 DEF SubProc
    <3>4. q \in SubProc
      BY ONLY <3>3, l \in Steps, n \in Int, c \in Int,
              z \in [Stream -> Seq(Nat)], g \in [Stream -> Seq(Nat)] DEF SubProc
    <3>5. proc' = [proc EXCEPT ![k] = q]
      BY <2>4, <3>1, <3>2
    <3>6. q.status = "running" /\ q.pipe = z /\ q.said = g
      BY <3>3
    <3> QED BY <3>4, <3>5, <3>6
  <2>8. /\ proc' \in [Kid -> SubProc] /\ proc'[k].status = "running"
        /\ proc'[k].pipe = z /\ proc'[k].said = g
        /\ \A j \in Kid : j # k => proc'[j] = proc[j]
    BY <1>1, <1>6, <2>7, ChangedKid
  <2>9. Kept(k, record[k])'
    <3>1. PICK x : x = record'[k]
      OBVIOUS
    <3>2. ~x.truncated /\ ~x.exited /\ \A s \in Stream : x.sink[s] = <<>>
      BY <2>1, <2>2, <2>5, <3>1
    <3>3. \A s \in Stream : x.sink[s] \o proc'[k].pipe[s] = proc'[k].said[s]
      <4> TAKE s \in Stream
      <4>1. proc'[k].pipe[s] = <<>> /\ proc'[k].said[s] = <<>> /\ x.sink[s] = <<>>
        BY <1>6, <2>1, <2>6, <2>8, <3>2
      <4>2. <<>> \o <<>> = <<>>
        BY ConcatEmptySeq, EmptySeq
      <4> QED BY <4>1, <4>2
    <3> QED BY <2>8, <3>1, <3>2, <3>3 DEF Kept
  <2>10. \A j \in Kid : Moves(j) /\ (proc[j].status = "none" => proc'[j].status = "none" \/ j = k)
    <3> TAKE j \in Kid
    <3>1. CASE j = k
      <4>1. ~Over(k) /\ record[k] = None /\ proc'[k].status # "none"
        BY <1>6, <2>8 DEF Over
      <4> QED BY <2>9, <3>1, <4>1 DEF Moves
    <3>2. CASE j # k
      BY <2>5, <2>8, <3>2, Unmoved
    <3> QED BY <3>1, <3>2
  <2>11. record'[m.by] # None
    BY <1>3, <2>3, <2>5
  <2> QED BY <1>3, <1>7, <2>5, <2>8, <2>10, <2>11, HandledInv
<1>9. CASE ~ok
  <2>1. UNCHANGED <<record, proc>>
    BY <1>5, <1>9
  <2>2. proc' \in [Kid -> SubProc] /\ record' \in [Kid -> {None} \cup Record]
    BY <1>1, <2>1 DEF SubTypes
  <2>3. \A j \in Kid : Moves(j) /\ (proc[j].status = "none" => proc'[j].status = "none")
    BY <2>1, Unmoved
  <2> QED BY <1>7, <1>9, <2>2, <2>3, HandledInv
<1> QED BY <1>8, <1>9
LEMMA HandleInv ==
    ASSUME SubInv, Handle
    PROVE  SubInv'
<1>1. PICK m : m = Head(mail)
  OBVIOUS
<1>2. at' = Idle /\ mail # <<>> /\ UNCHANGED clientVars
  BY DEF Handle
<1>3. \/ m.op = "spawn" /\ Spawn(m)
      \/ m.op = "status" /\ Status(m)
      \/ m.op = "stdout" /\ Read(m, "out")
      \/ m.op = "stderr" /\ Read(m, "err")
      \/ m.op = "write" /\ WriteEnds(m)
      \/ m.op = "kill" /\ Signal(m)
      \/ m.op = "release" /\ Release(m)
  BY <1>1 DEF Handle, Write
<1>4. CASE m.op = "spawn" /\ Spawn(m)
  BY <1>1, <1>2, <1>4, SpawnInv
<1>5. CASE m.op = "status" /\ Status(m)
  BY <1>1, <1>2, <1>5, StatusInv
<1>6. CASE m.op = "stdout" /\ Read(m, "out")
  <2>1. "out" \in Stream
    BY DEF Stream
  <2> QED BY <1>1, <1>2, <1>6, <2>1, ReadInv
<1>7. CASE m.op = "stderr" /\ Read(m, "err")
  <2>1. "err" \in Stream
    BY DEF Stream
  <2> QED BY <1>1, <1>2, <1>7, <2>1, ReadInv
<1>8. CASE m.op = "write" /\ WriteEnds(m)
  BY <1>1, <1>2, <1>8, WriteEndsInv
<1>9. CASE m.op = "kill" /\ Signal(m)
  BY <1>1, <1>2, <1>9, SignalInv
<1>10. CASE m.op = "release" /\ Release(m)
  BY <1>1, <1>2, <1>10, ReleaseInv
<1> QED BY <1>3, <1>4, <1>5, <1>6, <1>7, <1>8, <1>9, <1>10
LEMMA BlocksInv ==
    ASSUME SubInv, Block \/ Unblock
    PROVE  SubInv'
<1>1. SubTypes /\ OwnerBusy
  BY DEF SubInv
<1>2. CASE Block
  <2>1. mail # <<>> /\ Head(mail).op = "write" /\ UNCHANGED <<clientVars, mail, replies, record, proc>>
        /\ at' = [doing |-> "write", kid |-> Head(mail).pid]
    BY <1>2 DEF Block
  <2>2. Head(mail).pid \in Names
    <3>1. Head(mail) \in SubMail
      BY <2>1, Asked
    <3> QED BY <3>1, MailFields
  <2>3. at' \in [doing : {"idle", "write", "tick"}, kid : Names] /\ OwnerBusy'
    BY <2>1, <2>2 DEF OwnerBusy
  <2>4. proc' \in [Kid -> SubProc] /\ record' \in [Kid -> {None} \cup Record]
    BY <1>1, <2>1 DEF SubTypes
  <2>5. \A k \in Kid : /\ Moves(k) /\ (record[k] # None => record'[k] # None)
                       /\ proc[k].status = "none" => proc'[k].status = "none"
    BY <2>1, Unmoved
  <2> QED BY <2>1, <2>3, <2>4, <2>5, QuietInv
<1>3. CASE Unblock
  BY <1>1, <1>3, WriteEndsInv DEF Unblock, OwnerBusy
<1> QED BY <1>2, <1>3
-----------------------------------------------------------------------------
\* Draining takes all there is of a stream, unless the stream is too long.
SunkAs(r, s, b, x) ==
    /\ x \in Record /\ x.exited = r.exited /\ x.code = r.code
    /\ \/ r.truncated /\ x = r
       \/ /\ ~r.truncated /\ x.truncated /\ Len(r.sink[s] \o b) > MaxOutput
          /\ x.sink[s] = <<>> /\ \A t \in Stream : t # s => x.sink[t] = r.sink[t]
       \/ /\ ~r.truncated /\ ~x.truncated /\ x.sink[s] = r.sink[s] \o b
          /\ \A t \in Stream : t # s => x.sink[t] = r.sink[t]
LEMMA SunkKept ==
    ASSUME NEW r \in Record, NEW s \in Stream, NEW b \in Seq(Nat)
    PROVE  SunkAs(r, s, b, Sunk(r, s, b))
<1> SUFFICES ASSUME NEW x, x = Sunk(r, s, b) PROVE SunkAs(r, s, b, x)
  OBVIOUS
<1>1. PICK f \in [Stream -> Seq(Nat)], e \in BOOLEAN, c \in Int, u \in BOOLEAN :
          r = [exited |-> e, code |-> c, truncated |-> u, sink |-> f]
  BY DEF Record
<1>2. PICK t \in Seq(Nat) : t = f[s] \o b
  <2>1. f[s] \in Seq(Nat)
    OBVIOUS
  <2> QED BY <2>1, ConcatProperties
<1>3. PICK v \in Seq(Nat) : v = IF Len(t) > MaxOutput THEN <<>> ELSE t
  BY EmptySeq
<1>4. PICK g : g = [f EXCEPT ![s] = v]
  OBVIOUS
<1>5. g \in [Stream -> Seq(Nat)] /\ g[s] = v /\ \A z \in Stream : z # s => g[z] = f[z]
  BY <1>4
<1>6. r.sink[s] = f[s] /\ r.sink[s] \o b = t /\ r.truncated = u /\ r.sink = f
      /\ r.exited = e /\ r.code = c
  BY <1>1, <1>2
<1>7. CASE u
  BY <1>6, <1>7 DEF Sunk, SunkAs
<1>8. CASE ~u /\ Len(t) > MaxOutput
  <2>1. x = [r EXCEPT !.truncated = TRUE, !.sink[s] = <<>>]
    BY <1>6, <1>8 DEF Sunk
  <2>2. v = <<>>
    BY <1>3, <1>8
  <2>3. x = [exited |-> e, code |-> c, truncated |-> TRUE, sink |-> g]
    BY <1>1, <1>4, <2>1, <2>2
  <2>4. x \in Record
    BY <1>5, <2>3 DEF Record
  <2>5. x.exited = e /\ x.code = c /\ x.truncated /\ x.sink = g
    BY <2>3
  <2> QED BY <1>5, <1>6, <1>8, <2>2, <2>4, <2>5 DEF SunkAs
<1>9. CASE ~u /\ ~(Len(t) > MaxOutput)
  <2>1. x = [r EXCEPT !.sink[s] = t]
    BY <1>6, <1>9 DEF Sunk
  <2>2. v = t
    BY <1>3, <1>9
  <2>3. x = [exited |-> e, code |-> c, truncated |-> u, sink |-> g]
    BY <1>1, <1>4, <2>1, <2>2
  <2>4. x \in Record
    BY <1>5, <2>3 DEF Record
  <2>5. x.exited = e /\ x.code = c /\ x.truncated = u /\ x.sink = g
    BY <2>3
  <2> QED BY <1>5, <1>6, <1>9, <2>2, <2>4, <2>5 DEF SunkAs
<1> QED BY <1>7, <1>8, <1>9
LEMMA DrainedKept ==
    ASSUME SubTypes, NEW k \in Kid, NEW r \in Record, Kept(k, r), NEW x, x = Drained(r, k)
    PROVE  /\ x \in Record /\ x.exited = r.exited /\ x.code = r.code
           /\ IF x.truncated
              THEN ~Fits(k) /\ \A s \in Stream : IsPrefix(x.sink[s], proc[k].said[s])
              ELSE \A s \in Stream : x.sink[s] = proc[k].said[s]
<1>1. PICK o \in Seq(Nat), e \in Seq(Nat) : o = proc[k].pipe["out"] /\ e = proc[k].pipe["err"]
  BY KidFields DEF Stream
<1>2. PICK so \in Seq(Nat), se \in Seq(Nat) : so = proc[k].said["out"] /\ se = proc[k].said["err"]
  BY KidFields DEF Stream
<1>3. PICK y : y = Sunk(r, "out", o)
  OBVIOUS
<1>4. "out" \in Stream /\ "err" \in Stream /\ \A s \in Stream : s = "out" \/ s = "err"
  BY DEF Stream
<1>5. /\ y \in Record /\ y.exited = r.exited /\ y.code = r.code
      /\ \/ r.truncated /\ y = r
         \/ /\ ~r.truncated /\ y.truncated /\ Len(r.sink["out"] \o o) > MaxOutput
            /\ y.sink["out"] = <<>> /\ y.sink["err"] = r.sink["err"]
         \/ /\ ~r.truncated /\ ~y.truncated /\ y.sink["out"] = r.sink["out"] \o o
            /\ y.sink["err"] = r.sink["err"]
  <2>1. PICK s \in Stream : s = "out"
    BY <1>4
  <2>2. SunkAs(r, s, o, y)
    BY <1>3, <2>1, SunkKept
  <2>3. "out" \in Stream /\ "err" \in Stream /\ "out" # "err"
    BY <1>4
  <2> QED BY <2>1, <2>2, <2>3 DEF SunkAs
<1>6. x = Sunk(y, "err", e)
  BY <1>1, <1>3 DEF Drained
<1>7. /\ x \in Record /\ x.exited = y.exited /\ x.code = y.code
      /\ \/ y.truncated /\ x = y
         \/ /\ ~y.truncated /\ x.truncated /\ Len(y.sink["err"] \o e) > MaxOutput
            /\ x.sink["err"] = <<>> /\ x.sink["out"] = y.sink["out"]
         \/ /\ ~y.truncated /\ ~x.truncated /\ x.sink["err"] = y.sink["err"] \o e
            /\ x.sink["out"] = y.sink["out"]
  <2>1. PICK s \in Stream : s = "err"
    BY <1>4
  <2>2. SunkAs(y, s, e, x)
    BY <1>5, <1>6, <2>1, SunkKept
  <2>3. "out" \in Stream /\ "err" \in Stream /\ "out" # "err"
    BY <1>4
  <2> QED BY <2>1, <2>2, <2>3 DEF SunkAs
<1>8. ~r.truncated => r.sink["out"] \o o = so /\ r.sink["err"] \o e = se
  BY <1>1, <1>2, <1>4 DEF Kept
<1>9. /\ Fits(k) => ~(Len(so) > MaxOutput) /\ ~(Len(se) > MaxOutput)
  <2>1. MaxOutput \in Nat /\ Len(so) \in Nat /\ Len(se) \in Nat
    BY SubprocessAssumption, LenProperties
  <2> QED BY <1>2, <1>4, <2>1 DEF Fits
<1>10. IsPrefix(<<>>, so) /\ IsPrefix(so, so) /\ IsPrefix(<<>>, se) /\ IsPrefix(se, se)
  BY Beginnings
<1>11. r.sink["out"] \in Seq(Nat) /\ r.sink["err"] \in Seq(Nat)
  BY <1>4 DEF Record
<1>12. IsPrefix(r.sink["err"], r.sink["err"] \o e)
  BY <1>11, Beginnings
<1>13. CASE r.truncated
  BY <1>5, <1>7, <1>13 DEF Kept
<1>14. CASE ~r.truncated /\ y.truncated
  <2>1. x = y /\ ~Fits(k) /\ x.truncated
    BY <1>5, <1>7, <1>8, <1>9, <1>14
  <2>2. IsPrefix(x.sink["out"], so) /\ IsPrefix(x.sink["err"], se)
    BY <1>5, <1>8, <1>10, <1>12, <1>14, <2>1
  <2> QED BY <1>2, <1>4, <1>5, <1>7, <2>1, <2>2
<1>15. CASE ~r.truncated /\ ~y.truncated /\ x.truncated
  <2>1. ~Fits(k) /\ x.sink["out"] = so /\ x.sink["err"] = <<>>
    BY <1>5, <1>7, <1>8, <1>9, <1>15
  <2> QED BY <1>2, <1>4, <1>5, <1>7, <1>10, <1>15, <2>1
<1>16. CASE ~r.truncated /\ ~y.truncated /\ ~x.truncated
  BY <1>2, <1>4, <1>5, <1>7, <1>8, <1>16
<1> QED BY <1>13, <1>14, <1>15, <1>16
LEMMA EmptiedKept ==
    ASSUME SubInv, NEW k \in Kid, record[k] # None, ~record[k].exited, proc' = Emptied(k),
           NEW x, x = Drained(record[k], k), NEW y \in Record, record' = [record EXCEPT ![k] = y],
           y.truncated = x.truncated, y.sink = x.sink,
           y.exited => HasEnded(k) /\ y.code = proc[k].code
    PROVE  /\ proc' \in [Kid -> SubProc] /\ record' \in [Kid -> {None} \cup Record]
           /\ record'[k] = y /\ y # None
           /\ \A j \in Kid : /\ Moves(j) /\ (record[j] # None => record'[j] # None)
                             /\ proc[j].status = "none" => proc'[j].status = "none"
<1>1. SubTypes /\ RecordsKept /\ Unborn
  BY DEF SubInv
<1>2. record[k] \in Record /\ Kept(k, record[k]) /\ proc[k].status # "none" /\ ~Over(k)
  BY <1>1, KidFields DEF RecordsKept, Kept, Over
<1>3. /\ x \in Record
      /\ IF x.truncated
         THEN ~Fits(k) /\ \A s \in Stream : IsPrefix(x.sink[s], proc[k].said[s])
         ELSE \A s \in Stream : x.sink[s] = proc[k].said[s]
  BY <1>1, <1>2, DrainedKept
<1>4. y # None
  BY SubprocessAssumption
<1>5. /\ record' \in [Kid -> {None} \cup Record] /\ record'[k] = y
      /\ \A j \in Kid : j # k => record'[j] = record[j]
  BY <1>1 DEF SubTypes
<1>6. PICK p \in SubProc : p = proc[k]
  BY <1>1 DEF SubTypes
<1>7. PICK z \in [Stream -> Seq(Nat)] : z = NoBytes /\ \A s \in Stream : z[s] = <<>>
  <2>1. NoBytes \in [Stream -> Seq(Nat)] /\ \A s \in Stream : NoBytes[s] = <<>>
    BY EmptySeq DEF NoBytes
  <2> QED BY <2>1
<1>8. PICK st \in {"none", "running", "zombie", "gone"}, l \in Steps, n \in Int, c \in Int,
           g \in [Stream -> Seq(Nat)] :
          st = p.status /\ l = p.left /\ n = p.stdin /\ c = p.code /\ g = p.said
  BY SubProcFields
<1>9. PICK q : q = [p EXCEPT !.pipe = z]
  OBVIOUS
<1>10. q = [status |-> st, left |-> l, stdin |-> n, code |-> c, pipe |-> z, said |-> g]
  BY <1>8, <1>9 DEF SubProc
<1>11. q \in SubProc
  BY ONLY <1>10, st \in {"none", "running", "zombie", "gone"}, l \in Steps, n \in Int, c \in Int,
          z \in [Stream -> Seq(Nat)], g \in [Stream -> Seq(Nat)] DEF SubProc
<1>12. proc' = [proc EXCEPT ![k] = q]
  BY <1>6, <1>7, <1>9 DEF Emptied
<1>13. /\ proc' \in [Kid -> SubProc] /\ proc'[k] = q
       /\ \A j \in Kid : j # k => proc'[j] = proc[j]
  BY <1>1, <1>11, <1>12, ChangedKid
<1>14. /\ proc'[k].status = proc[k].status /\ proc'[k].code = proc[k].code
       /\ proc'[k].pipe = z /\ proc'[k].said = proc[k].said
  BY <1>6, <1>8, <1>10, <1>13
<1>15. Kept(k, record[k])'
  <2>1. Fits(k) <=> Fits(k)'
    BY <1>14 DEF Fits
  <2>2. IF y.truncated
        THEN ~Fits(k)' /\ \A s \in Stream : IsPrefix(y.sink[s], proc'[k].said[s])
        ELSE \A s \in Stream : y.sink[s] \o proc'[k].pipe[s] = proc'[k].said[s]
    <3>1. CASE y.truncated
      BY <1>3, <1>14, <2>1, <3>1
    <3>2. CASE ~y.truncated
      <4>1. \A s \in Stream : y.sink[s] \o proc'[k].pipe[s] = proc'[k].said[s]
        <5> TAKE s \in Stream
        <5>1. PICK b \in Seq(Nat) : b = y.sink[s]
          BY DEF Record
        <5>2. b = proc'[k].said[s] /\ proc'[k].pipe[s] = <<>>
          BY <1>3, <1>7, <1>14, <3>2, <5>1
        <5>3. b \o <<>> = b
          BY ConcatEmptySeq
        <5> QED BY <5>1, <5>2, <5>3
      <4> QED BY <3>2, <4>1
    <3> QED BY <3>1, <3>2
  <2>3. y.exited => /\ Over(k)' /\ y.code = proc'[k].code
                    /\ \A s \in Stream : proc'[k].pipe[s] = <<>>
    <3> SUFFICES ASSUME y.exited PROVE /\ Over(k)' /\ y.code = proc'[k].code
                                       /\ \A s \in Stream : proc'[k].pipe[s] = <<>>
      OBVIOUS
    <3>1. proc'[k].status \in {"zombie", "gone"}
      BY <1>2, <1>6, <1>8, <1>14 DEF HasEnded, Runs
    <3>2. Over(k)'
      BY <1>5, <3>1 DEF Over
    <3> QED BY <1>7, <1>14, <3>2
  <2>4. PICK w : w = record'[k]
    OBVIOUS
  <2>5. w = y
    BY <1>5, <2>4
  <2> QED BY <1>2, <1>14, <2>2, <2>3, <2>4, <2>5 DEF Kept
<1>16. \A j \in Kid : /\ Moves(j) /\ (record[j] # None => record'[j] # None)
                      /\ proc[j].status = "none" => proc'[j].status = "none"
  <2> TAKE j \in Kid
  <2>1. CASE j = k
    BY <1>2, <1>4, <1>5, <1>14, <1>15, <2>1 DEF Moves
  <2>2. CASE j # k
    BY <1>5, <1>13, <2>2, Unmoved
  <2> QED BY <2>1, <2>2
<1> QED BY <1>4, <1>5, <1>13, <1>16
LEMMA TickInv ==
    ASSUME SubInv, NEW k \in Kid, Tick(k)
    PROVE  SubInv'
<1>1. SubTypes /\ RecordsKept /\ OwnerBusy
  BY DEF SubInv
<1>2. k # None /\ (record[k] # None => record[k] \in Record)
  BY <1>1, KidFields
<1>3. PICK x : x = Drained(record[k], k)
  OBVIOUS
<1>4. record[k] # None => x \in Record /\ x.exited = record[k].exited
  BY <1>1, <1>2, <1>3, DrainedKept DEF RecordsKept
<1>5. CASE TickDrains(k)
  <2>1. /\ record[k] # None /\ ~record[k].exited /\ record' = [record EXCEPT ![k] = x]
        /\ proc' = Emptied(k) /\ at' = [doing |-> "tick", kid |-> k]
        /\ UNCHANGED <<clientVars, mail, replies>>
    BY <1>3, <1>5 DEF TickDrains
  <2>2. x \in Record /\ ~x.exited
    BY <1>4, <2>1
  <2>3. /\ proc' \in [Kid -> SubProc] /\ record' \in [Kid -> {None} \cup Record]
        /\ record'[k] = x /\ x # None
        /\ \A j \in Kid : /\ Moves(j) /\ (record[j] # None => record'[j] # None)
                          /\ proc[j].status = "none" => proc'[j].status = "none"
    BY <1>3, <2>1, <2>2, EmptiedKept
  <2>4. at' \in [doing : {"idle", "write", "tick"}, kid : Names]
    BY <2>1 DEF Names
  <2>5. OwnerBusy'
    BY <1>2, <2>1, <2>2, <2>3 DEF OwnerBusy
  <2> QED BY <2>1, <2>3, <2>4, <2>5, QuietInv
<1>6. CASE TickWaits(k)
  <2>1. /\ at = [doing |-> "tick", kid |-> k] /\ at' = Idle
        /\ UNCHANGED <<clientVars, mail, replies>>
    BY <1>6 DEF TickWaits
  <2>2. record[k] # None /\ ~record[k].exited
    BY <1>1, <2>1 DEF OwnerBusy
  <2>3. at' \in [doing : {"idle", "write", "tick"}, kid : Names] /\ OwnerBusy'
    BY <2>1 DEF Names, Idle, OwnerBusy
  <2>4. CASE HasEnded(k)
    <3>1. PICK y : y = LastDrain(k)
      OBVIOUS
    <3>2. record' = [record EXCEPT ![k] = y] /\ proc' = Emptied(k)
      BY <1>6, <2>4, <3>1 DEF TickWaits
    <3>3. PICK c \in Int : c = proc[k].code
      BY <1>1 DEF SubTypes, SubProc
    <3>4. y = [x EXCEPT !.exited = TRUE, !.code = c]
      BY <1>3, <3>1, <3>3 DEF LastDrain
    <3>5. x \in Record
      BY <1>4, <2>2
    <3>6. y \in Record /\ y.truncated = x.truncated /\ y.sink = x.sink /\ y.code = c
      BY <3>4, <3>5 DEF Record
    <3>7. /\ proc' \in [Kid -> SubProc] /\ record' \in [Kid -> {None} \cup Record]
          /\ \A j \in Kid : /\ Moves(j) /\ (record[j] # None => record'[j] # None)
                            /\ proc[j].status = "none" => proc'[j].status = "none"
      BY <1>3, <2>2, <2>4, <3>2, <3>3, <3>6, EmptiedKept
    <3> QED BY <2>1, <2>3, <3>7, QuietInv
  <2>5. CASE ~HasEnded(k)
    <3>1. UNCHANGED <<record, proc>>
      BY <1>6, <2>5 DEF TickWaits
    <3>2. proc' \in [Kid -> SubProc] /\ record' \in [Kid -> {None} \cup Record]
      BY <1>1, <3>1 DEF SubTypes
    <3>3. \A j \in Kid : /\ Moves(j) /\ (record[j] # None => record'[j] # None)
                         /\ proc[j].status = "none" => proc'[j].status = "none"
      BY <3>1, Unmoved
    <3> QED BY <2>1, <2>3, <3>2, <3>3, QuietInv
  <2> QED BY <2>4, <2>5
<1> QED BY <1>5, <1>6 DEF Tick
\* A process that runs says one more byte: it goes into the pipe.
LEMMA Associative ==
    ASSUME NEW x \in Seq(Nat), NEW y \in Seq(Nat), NEW z \in Seq(Nat)
    PROVE  (x \o y) \o z = x \o (y \o z)
BY ConcatAssociative, SMTT(30)
LEMMA SaysKept ==
    ASSUME SubInv, NEW k \in Kid, Runs(k), NEW s \in Stream, NEW b \in Nat,
           record'[k] = record[k], proc'[k].status = "running",
           proc'[k].pipe = [proc[k].pipe EXCEPT ![s] = Append(@, b)],
           proc'[k].said = [proc[k].said EXCEPT ![s] = Append(@, b)]
    PROVE  Moves(k)
<1>0. PICK f \in [Stream -> Seq(Nat)], g \in [Stream -> Seq(Nat)] : f = proc[k].pipe /\ g = proc[k].said
  <2>1. proc[k] \in SubProc
    BY DEF SubInv, SubTypes
  <2> QED BY <2>1, SubProcFields
<1>1. SubTypes /\ RecordsKept
  BY DEF SubInv
<1>2. ~Over(k)
  BY DEF Over, Runs
<1>3. PICK u \in Seq(Nat) : u = <<b>>
  <2>1. <<b>> \in Seq(Nat)
    BY ONLY b \in Nat
  <2> QED BY ONLY <2>1
<1>4. PICK f1 : f1 = proc'[k].pipe
  OBVIOUS
<1>5. PICK g1 : g1 = proc'[k].said
  OBVIOUS
<1>6. /\ f1[s] = f[s] \o u /\ g1[s] = g[s] \o u
      /\ \A t \in Stream : t # s => f1[t] = f[t] /\ g1[t] = g[t]
  <2>1. Append(f[s], b) = f[s] \o u /\ Append(g[s], b) = g[s] \o u
    <3>1. \A x \in Seq(Nat) : Append(x, b) = x \o u
      BY ONLY <1>3, b \in Nat, AppendIsConcat
    <3> QED BY <3>1
  <2> QED BY <1>0, <1>4, <1>5, <2>1
<1>7. record[k] # None => Kept(k, record[k])'
  <2> SUFFICES ASSUME record[k] # None PROVE Kept(k, record[k])'
    OBVIOUS
  <2>1. PICK x \in Record : x = record[k]
    BY <1>1, KidFields
  <2>2. Kept(k, x) /\ ~x.exited
    BY <1>1, <1>2, <2>1 DEF RecordsKept, Kept
  <2>3. ~Fits(k) => ~Fits(k)'
    <3>1. \A t \in Stream : Len(g[t]) \in Nat /\ Len(g1[t]) \in Nat /\ Len(g[t]) <= Len(g1[t])
      <4> TAKE t \in Stream
      <4>1. CASE t = s
        <5>1. g[s] \in Seq(Nat) /\ g[s] \o u \in Seq(Nat) /\ Len(g[s] \o u) = Len(g[s]) + Len(u)
          BY ConcatProperties
        <5>2. Len(g[s]) \in Nat /\ Len(u) \in Nat /\ Len(g1[s]) = Len(g[s]) + Len(u)
          BY <1>6, <5>1, LenProperties
        <5>3. Len(g1[s]) \in Nat /\ Len(g[s]) <= Len(g1[s])
          BY ONLY <5>2
        <5> QED BY <4>1, <5>2, <5>3
      <4>2. CASE t # s
        BY <1>6, <4>2, LenProperties
      <4> QED BY <4>1, <4>2
    <3>2. Fits(k)' <=> \A t \in Stream : Len(g1[t]) <= MaxOutput
      BY <1>5 DEF Fits
    <3>3. Fits(k) <=> \A t \in Stream : Len(g[t]) <= MaxOutput
      BY <1>0 DEF Fits
    <3>4. MaxOutput \in Nat
      BY SubprocessAssumption
    <3>5. ASSUME NEW t \in Stream, Len(g1[t]) <= MaxOutput PROVE Len(g[t]) <= MaxOutput
      <4>1. PICK i \in Nat, j \in Nat : i = Len(g[t]) /\ j = Len(g1[t]) /\ i <= j
        BY <3>1
      <4> QED BY <3>4, <3>5, <4>1
    <3> QED BY <3>2, <3>3, <3>5
  <2>4. CASE x.truncated
    <3>1. \A t \in Stream : IsPrefix(x.sink[t], g1[t])
      <4> TAKE t \in Stream
      <4>1. x.sink[t] \in Seq(Nat) /\ IsPrefix(x.sink[t], g[t])
        BY <1>0, <2>2, <2>4 DEF Record, Kept
      <4>2. CASE t = s
        <5>1. PICK y \in Seq(Nat), v \in Seq(Nat) : y = x.sink[t] /\ v = g[t]
          BY <4>1
        <5>2. IsPrefix(y, v \o u)
          BY <4>1, <5>1, Beginnings
        <5> QED BY <1>6, <4>2, <5>1, <5>2
      <4>3. CASE t # s
        BY <1>6, <4>1, <4>3
      <4> QED BY <4>2, <4>3
    <3>2. ~Fits(k)'
      BY <2>2, <2>3, <2>4 DEF Kept
    <3>3. PICK w : w = record'[k]
      OBVIOUS
    <3> QED BY <1>5, <2>1, <2>2, <2>4, <3>1, <3>2, <3>3 DEF Kept
  <2>5. CASE ~x.truncated
    <3>1. \A t \in Stream : x.sink[t] \o f1[t] = g1[t]
      <4> TAKE t \in Stream
      <4>1. PICK y \in Seq(Nat), v \in Seq(Nat) : y = x.sink[t] /\ v = f[t]
        BY DEF Record
      <4>2. y \o v = g[t]
        BY <1>0, <2>2, <2>5, <4>1 DEF Kept
      <4>3. CASE t = s
        <5>1. (y \o v) \o u = y \o (v \o u)
          BY Associative
        <5> QED BY <1>6, <4>1, <4>2, <4>3, <5>1
      <4>4. CASE t # s
        BY <1>6, <4>1, <4>2, <4>4
      <4> QED BY <4>3, <4>4
    <3>2. PICK w : w = record'[k]
      OBVIOUS
    <3> QED BY <1>4, <1>5, <2>1, <2>2, <2>5, <3>1, <3>2 DEF Kept
  <2> QED BY <2>4, <2>5
<1> QED BY <1>2, <1>7 DEF Moves
LEMMA StepsTail ==
    ASSUME NEW l \in Steps, l # <<>>
    PROVE  /\ Tail(l) \in Steps /\ Head(l) \in Stream \cup {"in", "missing"}
<1>1. CASE l \in Seq(Stream \cup {"in"})
  <2>1. Tail(l) \in Seq(Stream \cup {"in"}) /\ Head(l) \in Stream \cup {"in"}
    BY <1>1, HeadTailProperties
  <2> QED BY <2>1 DEF Steps
<1>2. CASE l = <<"missing">>
  <2>1. Tail(l) = <<>> /\ Head(l) = "missing"
    BY <1>2
  <2>2. <<>> \in Seq(Stream \cup {"in"})
    BY EmptySeq
  <2> QED BY <2>1, <2>2 DEF Steps
<1> QED BY <1>1, <1>2 DEF Steps
LEMMA ProcStepsInv ==
    ASSUME SubInv, NEW k \in Kid, ProcSteps(k)
    PROVE  SubInv'
<1>1. SubTypes /\ OwnerBusy
  BY DEF SubInv
<1>2. Runs(k) /\ UNCHANGED <<clientVars, mail, replies, record, at>>
  BY DEF ProcSteps, ProcStep, Exits
<1>3. PICK p \in SubProc : p = proc[k]
  BY <1>1 DEF SubTypes
<1>4. PICK l \in Steps, n \in Int, c \in Int, f \in [Stream -> Seq(Nat)], g \in [Stream -> Seq(Nat)] :
          l = p.left /\ n = p.stdin /\ c = p.code /\ f = p.pipe /\ g = p.said
  BY SubProcFields
<1>5. p = [status |-> "running", left |-> l, stdin |-> n, code |-> c, pipe |-> f, said |-> g]
  BY <1>2, <1>3, <1>4 DEF SubProc, Runs
<1>6. \E q \in SubProc : proc' = [proc EXCEPT ![k] = q] /\ q.status # "none"
        /\ \A r : r = q /\ r = proc'[k] => Moves(k)
  <2>1. CASE ProcStep(k)
    <3>1. l # <<>> /\ Tail(l) \in Steps /\ Head(l) \in Stream \cup {"in", "missing"}
      BY <1>3, <1>4, <2>1, StepsTail DEF ProcStep
    <3>2. CASE Head(l) = "in"
      <4>1. PICK q : q = [p EXCEPT !.left = Tail(l), !.stdin = n - 1]
        OBVIOUS
      <4>2. proc' = [proc EXCEPT ![k] = q]
        <5>1. proc' = [proc EXCEPT ![k] = IF Head(proc[k].left) = "in"
                  THEN Reads(k) ELSE Says(k, Head(proc[k].left))]
          BY <2>1 DEF ProcStep
        <5>2. Head(proc[k].left) = "in" /\ p = proc[k]
          BY <1>3, <1>4, <3>2
        <5>3. Reads(k) = q
          BY <1>3, <1>4, <4>1 DEF Reads
        <5> QED BY <5>1, <5>2, <5>3
      <4>3. PICK l1 \in Steps, n1 \in Int : l1 = Tail(l) /\ n1 = n - 1
        <5>1. n - 1 \in Int
          BY ONLY n \in Int
        <5> QED BY <3>1, <5>1
      <4>4. q = [status |-> "running", left |-> l1, stdin |-> n1, code |-> c, pipe |-> f, said |-> g]
        BY <1>5, <4>1, <4>3
      <4>5. q \in SubProc
        BY ONLY <4>4, l1 \in Steps, n1 \in Int, c \in Int,
                f \in [Stream -> Seq(Nat)], g \in [Stream -> Seq(Nat)] DEF SubProc
      <4>6. q.status = p.status /\ q.code = p.code /\ q.pipe = p.pipe /\ q.said = p.said
            /\ q.status # "none"
        BY <1>5, <4>4
      <4>7. \A r : r = q /\ r = proc'[k] => Moves(k)
        BY <1>2, <1>3, <4>6, Unmoved
      <4> QED BY <4>2, <4>5, <4>6, <4>7
    <3>3. CASE Head(l) = "missing"
      <4>1. Head(l) \notin Stream /\ Head(l) # "in"
        BY <3>3 DEF Stream
      <4>2. PICK h : h = Head(l)
        OBVIOUS
      <4>3. PICK b : b = Len(g[h]) + 1
        OBVIOUS
      <4>4. proc' = [proc EXCEPT ![k] = [p EXCEPT !.left = Tail(l),
                        !.pipe = [f EXCEPT ![h] = Append(f[h], b)],
                        !.said = [g EXCEPT ![h] = Append(g[h], b)]]]
        BY <1>3, <1>4, <2>1, <4>1, <4>2, <4>3 DEF ProcStep, Says
      <4>5. [f EXCEPT ![h] = Append(f[h], b)] = f /\ [g EXCEPT ![h] = Append(g[h], b)] = g
        BY <4>1, <4>2
      <4>6. PICK l1 \in Steps : l1 = Tail(l)
        BY <3>1
      <4>7. PICK q : q = [p EXCEPT !.left = l1, !.pipe = f, !.said = g]
        OBVIOUS
      <4>8. proc' = [proc EXCEPT ![k] = q]
        BY <4>4, <4>5, <4>6, <4>7
      <4>9. q = [status |-> "running", left |-> l1, stdin |-> n, code |-> c, pipe |-> f, said |-> g]
        BY <1>5, <4>7
      <4>10. q \in SubProc
        BY ONLY <4>9, l1 \in Steps, n \in Int, c \in Int,
                f \in [Stream -> Seq(Nat)], g \in [Stream -> Seq(Nat)] DEF SubProc
      <4>11. q.status = p.status /\ q.code = p.code /\ q.pipe = p.pipe /\ q.said = p.said
             /\ q.status # "none"
        BY <1>5, <4>9
      <4>12. \A r : r = q /\ r = proc'[k] => Moves(k)
        BY <1>2, <1>3, <4>11, Unmoved
      <4> QED BY <4>8, <4>10, <4>11, <4>12
    <3>4. CASE Head(l) \in Stream
      <4>1. Head(l) # "in"
        BY <3>4 DEF Stream
      <4>2. PICK h \in Stream : h = Head(l)
        BY <3>4
      <4>3. PICK b \in Nat : b = Len(g[h]) + 1
        BY LenProperties
      <4>4. PICK f1 \in [Stream -> Seq(Nat)] : f1 = [f EXCEPT ![h] = Append(f[h], b)]
        BY AppendProperties
      <4>5. PICK g1 \in [Stream -> Seq(Nat)] : g1 = [g EXCEPT ![h] = Append(g[h], b)]
        BY AppendProperties
      <4>6. PICK l1 \in Steps : l1 = Tail(l)
        BY <3>1
      <4>7. PICK q : q = [p EXCEPT !.left = l1, !.pipe = f1, !.said = g1]
        OBVIOUS
      <4>8. proc' = [proc EXCEPT ![k] = q]
        <5>1. proc' = [proc EXCEPT ![k] = IF Head(proc[k].left) = "in"
                  THEN Reads(k) ELSE Says(k, Head(proc[k].left))]
          BY <2>1 DEF ProcStep
        <5>2. Head(proc[k].left) = h /\ h # "in" /\ p = proc[k]
          BY <1>3, <1>4, <4>1, <4>2
        <5>3. Says(k, h) = q
          BY <1>4, <4>3, <4>4, <4>5, <4>6, <4>7, <5>2 DEF Says
        <5> QED BY <5>1, <5>2, <5>3
      <4>9. q = [status |-> "running", left |-> l1, stdin |-> n, code |-> c, pipe |-> f1, said |-> g1]
        BY <1>5, <4>7
      <4>10. q \in SubProc
        BY ONLY <4>9, l1 \in Steps, n \in Int, c \in Int,
                f1 \in [Stream -> Seq(Nat)], g1 \in [Stream -> Seq(Nat)] DEF SubProc
      <4>11. q.status = "running" /\ q.pipe = f1 /\ q.said = g1 /\ q.status # "none"
        BY <4>9
      <4>12. \A r : r = q /\ r = proc'[k] => Moves(k)
        <5> SUFFICES ASSUME q = proc'[k] PROVE Moves(k)
          OBVIOUS
        <5>1. /\ proc'[k].status = "running"
              /\ proc'[k].pipe = [proc[k].pipe EXCEPT ![h] = Append(@, b)]
              /\ proc'[k].said = [proc[k].said EXCEPT ![h] = Append(@, b)]
              /\ record'[k] = record[k]
          BY <1>2, <1>3, <1>4, <4>4, <4>5, <4>11
        <5>2. SubInv /\ Runs(k)
          BY <1>2
        <5> QED BY <5>1, <5>2, SaysKept, Zenon
      <4> QED BY <4>8, <4>10, <4>11, <4>12
    <3> QED BY <3>1, <3>2, <3>3, <3>4
  <2>2. CASE Exits(k)
    <3>1. PICK q : q = [p EXCEPT !.status = "zombie"]
      OBVIOUS
    <3>2. proc' = [proc EXCEPT ![k] = q]
      BY <1>3, <2>2, <3>1 DEF Exits
    <3>3. q = [status |-> "zombie", left |-> l, stdin |-> n, code |-> c, pipe |-> f, said |-> g]
      BY <1>5, <3>1
    <3>4. q \in SubProc
      BY ONLY <3>3, l \in Steps, n \in Int, c \in Int,
              f \in [Stream -> Seq(Nat)], g \in [Stream -> Seq(Nat)] DEF SubProc
    <3>5. q.status = "zombie" /\ q.pipe = p.pipe /\ q.said = p.said /\ q.status # "none"
      BY <1>5, <3>3
    <3>6. \A r : r = q /\ r = proc'[k] => Moves(k)
      BY <1>2, <1>3, <3>5, Ended
    <3> QED BY <3>2, <3>4, <3>5, <3>6
  <2> QED BY <2>1, <2>2 DEF ProcSteps
<1>7. PICK q \in SubProc : proc' = [proc EXCEPT ![k] = q] /\ q.status # "none"
        /\ \A r : r = q /\ r = proc'[k] => Moves(k)
  BY <1>6
<1>8. /\ proc' \in [Kid -> SubProc] /\ proc'[k] = q
      /\ \A j \in Kid : j # k => proc'[j] = proc[j]
  BY <1>1, <1>7, ChangedKid
<1>9. \A j \in Kid : /\ Moves(j) /\ (record[j] # None => record'[j] # None)
                     /\ proc[j].status = "none" => proc'[j].status = "none"
  <2> TAKE j \in Kid
  <2>1. CASE j = k
    BY <1>2, <1>7, <1>8, <2>1 DEF Runs
  <2>2. CASE j # k
    BY <1>2, <1>8, <2>2, Unmoved
  <2> QED BY <2>1, <2>2
<1>10. /\ record' \in [Kid -> {None} \cup Record] /\ OwnerBusy'
       /\ at' \in [doing : {"idle", "write", "tick"}, kid : Names]
  BY <1>1, <1>2 DEF SubTypes, OwnerBusy
<1> QED BY <1>2, <1>8, <1>9, <1>10, QuietInv
-----------------------------------------------------------------------------
LEMMA SubInitInv == SubprocessInit => SubInv
<1> SUFFICES ASSUME SubprocessInit PROVE SubInv
  OBVIOUS
<1>1. PICK z \in [Stream -> Seq(Nat)] : z = [s \in Stream |-> <<>>] /\ \A s \in Stream : z[s] = <<>>
  <2>1. [s \in Stream |-> <<>>] \in [Stream -> Seq(Nat)]
    BY EmptySeq
  <2> QED BY <2>1
<1>2. z \in [Stream -> Seq(Int)]
  <2>1. \A s \in Stream : z[s] \in Seq(Int)
    BY <1>1, EmptySeq
  <2> QED BY <2>1
<1>3. /\ mail = <<>> /\ replies = <<>> /\ named = None /\ starting = <<>> /\ at = Idle
      /\ \A k \in Kid : record[k] = None
      /\ \A k \in Kid : child[k].ready = "new" /\ child[k].exits = 0 /\ child[k].pushed = z
      /\ \A w \in Wait : wait[w].pc = "none"
      /\ child = [k \in Kid |-> [ready |-> "new", exits |-> 0, code |-> 0, pushed |-> z]]
      /\ record = [k \in Kid |-> None]
  BY <1>1 DEF SubprocessInit, Nobody
<1>4. proc \in [Kid -> SubProc] /\ \A k \in Kid : proc[k].status = "none" /\ proc[k].said = z
  <2>1. proc \in [Kid -> {[status |-> "none", left |-> p, stdin |-> 0, code |-> 0, pipe |-> z,
                           said |-> z] : p \in Program}]
    BY <1>1 DEF SubprocessInit
  <2>2. ASSUME NEW p \in Program, NEW q, q = [status |-> "none", left |-> p, stdin |-> 0,
                                              code |-> 0, pipe |-> z, said |-> z]
        PROVE  q \in SubProc /\ q.status = "none" /\ q.said = z
    <3>1. p \in Steps
      BY SubprocessAssumption DEF Steps
    <3>2. q \in SubProc
      BY ONLY <2>2, <3>1, z \in [Stream -> Seq(Nat)] DEF SubProc
    <3> QED BY <2>2, <3>2
  <2>3. ASSUME NEW k \in Kid PROVE proc[k] \in SubProc /\ proc[k].status = "none" /\ proc[k].said = z
    <3>1. PICK p \in Program : proc[k] = [status |-> "none", left |-> p, stdin |-> 0,
                                          code |-> 0, pipe |-> z, said |-> z]
      BY <2>1
    <3> QED BY <2>2, <3>1
  <2> QED BY <2>1, <2>3
<1>5. SubTypes
  <2>1. child \in [Kid -> SubChild]
    <3>1. [ready |-> "new", exits |-> 0, code |-> 0, pushed |-> z] \in SubChild
      BY <1>2 DEF SubChild
    <3> QED BY <1>3, <3>1
  <2>2. wait \in [Wait -> SubWait]
    <3>1. Nobody = [pc |-> "none", kid |-> None, pid |-> None, stops |-> FALSE, code |-> 0, body |-> z]
      BY <1>1 DEF Nobody
    <3>2. Nobody \in SubWait
      BY <3>1 DEF SubWait, Names
    <3> QED BY <3>2 DEF SubprocessInit
  <2>3. record \in [Kid -> {None} \cup Record] /\ named \in Names
        /\ at \in [doing : {"idle", "write", "tick"}, kid : Names]
    BY <1>3 DEF Names, Idle
  <2>4. mail \in Seq(SubMail) /\ replies \in Seq(SubReply) /\ starting \in Seq(Kid)
    BY <1>3, EmptySeq
  <2> QED BY <1>4, <2>1, <2>2, <2>3, <2>4 DEF SubTypes
<1>6. RecordsKept /\ Unborn /\ Waiters /\ Children /\ OwnerBusy
  BY <1>1, <1>3, <1>4 DEF RecordsKept, Unborn, Waiters, Children, OwnerBusy, Idle
<1>7. SpawnsAwaited /\ SpawnsOnce(mail, replies) /\ Mailings
  <2>1. DOMAIN mail = {} /\ DOMAIN replies = {}
    BY <1>3
  <2> QED BY <2>1 DEF SpawnsAwaited, SpawnsOnce, Mailings
<1> QED BY <1>5, <1>6, <1>7 DEF SubInv
LEMMA UserSubprocessInv == SubInv /\ UserSubprocess => SubInv'
BY UserSpawnInv, UserSendsInv, UserWaitInv, UserExecInv, UserStopInv DEF UserSubprocess
LEMMA SubIdleInv == SubInv /\ UNCHANGED subprocessVars => SubInv'
<1> SUFFICES ASSUME SubInv, UNCHANGED subprocessVars PROVE SubInv'
  OBVIOUS
<1>1. UNCHANGED <<clientVars, mail, replies>> /\ UNCHANGED <<record, proc, at>>
  BY DEF subprocessVars, clientVars
<1>2. SubTypes /\ OwnerBusy
  BY DEF SubInv
<1>3. /\ proc' \in [Kid -> SubProc] /\ record' \in [Kid -> {None} \cup Record]
      /\ at' \in [doing : {"idle", "write", "tick"}, kid : Names] /\ OwnerBusy'
  BY <1>1, <1>2 DEF SubTypes, OwnerBusy
<1>4. \A k \in Kid : /\ Moves(k) /\ (record[k] # None => record'[k] # None)
                     /\ proc[k].status = "none" => proc'[k].status = "none"
  BY <1>1, Unmoved
<1> QED BY <1>1, <1>3, <1>4, QuietInv
LEMMA SubNextInv == SubInv /\ [SubprocessNext]_subprocessVars => SubInv'
<1>1. SubInv /\ Mail => SubInv'
  BY HandleInv, BlocksInv DEF Mail
<1>2. SubInv /\ (\E w \in Wait : Wake(w)) => SubInv'
  BY WakeInv
<1>3. SubInv /\ (\E k \in Kid : Tick(k) \/ ProcSteps(k)) => SubInv'
  BY TickInv, ProcStepsInv
<1> QED BY <1>1, <1>2, <1>3, UserSubprocessInv, NamedInv, OnReplyInv, SubIdleInv DEF SubprocessNext
LEMMA SubAlways == SubprocessSpec => []SubInv
<1>1. SubprocessInit => SubInv
  BY SubInitInv
<1>2. SubInv /\ [SubprocessNext]_subprocessVars => SubInv'
  BY SubNextInv
<1> QED BY <1>1, <1>2, PTL DEF SubprocessSpec
\* What was pushed before the first end is what there was to tell.
LEMMA HeardIsTold ==
    ASSUME SubTypes, NEW k \in Kid, NEW s \in Stream, ToldOf(k, s)
    PROVE  Tells(k, s, Heard(k, s))
<1>1. PICK p \in Seq(Int) : p = child[k].pushed[s]
  BY KidFields
<1>2. PICK n \in 1 .. Len(p) :
          p[n] = End /\ SubSeq(p, 1, n - 1) \in Seq(Nat) /\ Tells(k, s, SubSeq(p, 1, n - 1))
  BY <1>1 DEF ToldOf
<1>3. Len(p) \in Nat /\ n \in Nat
  BY LenProperties
<1>4. \A i \in 1 .. n - 1 : p[i] # End
  <2> SUFFICES ASSUME NEW i \in 1 .. n - 1 PROVE p[i] # End
    OBVIOUS
  <2>1. PICK b : b = SubSeq(p, 1, n - 1)
    OBVIOUS
  <2>2. PICK m : m = n - 1
    OBVIOUS
  <2>3. /\ 1 \in 1 .. Len(p) /\ m \in 1 .. Len(p) /\ i \in 1 .. m /\ m - 1 + 1 = m
    BY <1>3, <2>2
  <2>4. Len(b) = m /\ b[i] = p[i] /\ b \in Seq(Nat)
    BY <1>2, <2>1, <2>2, <2>3, SubSeqProperties
  <2>5. b[i] \in Nat
    BY <2>3, <2>4, ElementOfSeq
  <2> QED BY <2>4, <2>5 DEF End
<1>5. SelectInSeq(p, LAMBDA b : b = End) = n
  <2> DEFINE I == {i \in 1 .. Len(p) : p[i] = End}
  <2>1. n \in I /\ \A i \in I : n <= i
    BY <1>2, <1>3, <1>4
  <2>2. I \subseteq Nat
    BY <1>3
  <2> HIDE DEF I
  <2>3. PICK m : m = CHOOSE x \in I : \A y \in I : x =< y
    OBVIOUS
  <2>4. m \in I /\ \A y \in I : m =< y
    BY <2>1, <2>3
  <2>5. m = n
    BY <1>3, <2>1, <2>2, <2>4
  <2>6. Min(I) = n
    BY <2>3, <2>5 DEF Min
  <2>7. I # {}
    BY <2>1
  <2> QED BY <2>6, <2>7 DEF SelectInSeq, I
<1>6. Heard(k, s) = SubSeq(p, 1, n - 1)
  BY <1>1, <1>5 DEF Heard
<1> QED BY <1>2, <1>6
LEMMA SubWhole == SubInv => OutputWhole
<1> SUFFICES ASSUME SubInv, NEW k \in Kid
             PROVE  /\ child[k].exits > 0 =>
                       /\ child[k].code = proc[k].code
                       /\ \A s \in Stream :
                             IF Fits(k) THEN Heard(k, s) = proc[k].said[s]
                                        ELSE IsPrefix(Heard(k, s), proc[k].said[s])
                    /\ child[k].ready = "up" /\ child[k].exits = 0 => record[k] # None
  BY DEF OutputWhole
<1>1. SubTypes /\ Children
  BY DEF SubInv
<1>2. child[k].exits > 0 => \A s \in Stream : Tells(k, s, Heard(k, s))
  BY <1>1, HeardIsTold DEF Children
<1> QED BY <1>1, <1>2 DEF Children, Tells
\* However the caller, the owner and the processes interleave, when exit is
\* emitted both streams of the object gave every byte its process wrote (a
\* beginning of them over the limit) and the code is the one it ended with, and
\* the record of a process whose end nobody heard of is still there.
THEOREM OutputIsWhole == SubprocessSpec => []OutputWhole
<1>1. SubInv => OutputWhole
  BY SubWhole
<1> QED BY <1>1, SubAlways, PTL
-----------------------------------------------------------------------------
(* OneModule.                                                              *)

Frame == [id : Id, todo : Seq(Step), callback : BOOLEAN]
Caughts == {s \in Step : s.caught}
Types ==
    /\ script \in [Disk -> Seq(Step)] /\ cache \in [Disk -> 0 .. MaxModule]
    /\ made \in 0 .. MaxModule
    /\ module \in [Id -> [file : Disk \cup {NotFound}, state : {"none", "runs", "loaded", "dead"},
                          got : SUBSET [id : Id, whole : BOOLEAN]]]
    /\ stack \in Seq(Frame) /\ thrown \in BOOLEAN
ModulesMade ==
    \A id \in Id :
        /\ id > made => module[id].state = "none" /\ module[id].got = {}
        /\ module[id].state # "none" => module[id].file \in Disk
Frames ==
    /\ \A i \in 1 .. Len(stack) : stack[i].id <= made
    /\ \A i, j \in 1 .. Len(stack) : i < j => stack[i].id < stack[j].id
    /\ \A i \in 1 .. Len(stack) : stack[i].callback => stack[i].todo \in Seq(Caughts)
    /\ \A i \in 1 .. Len(stack) : ~stack[i].callback => module[stack[i].id].state = "runs"
    /\ \A i \in 1 .. Len(stack) : (i < Len(stack) \/ thrown) => stack[i].todo # <<>>
    /\ thrown => stack # <<>>
Running ==
    \A id \in Id : module[id].state = "runs" =>
        \E i \in 1 .. Len(stack) : ~stack[i].callback /\ stack[i].id = id
LoaderInv == Types /\ ModulesMade /\ Frames /\ Running /\ OneModule
-----------------------------------------------------------------------------
\* The frame at the top does its step, and is otherwise as it was.
LEMMA AdvancedFrame ==
    ASSUME NEW s \in Seq(Frame), s # <<>>, s[Len(s)].todo # <<>>
    PROVE  /\ Advanced(s) \in Seq(Frame) /\ Len(Advanced(s)) = Len(s)
           /\ \A i \in 1 .. Len(s) :
                /\ Advanced(s)[i].id = s[i].id /\ Advanced(s)[i].callback = s[i].callback
                /\ i < Len(s) => Advanced(s)[i] = s[i]
           /\ Advanced(s)[Len(s)].todo = Tail(s[Len(s)].todo)
<1> DEFINE n == Len(s)
           top == [s[n] EXCEPT !.todo = Tail(@)]
           e(i) == IF i = n THEN top ELSE s[i]
<1>1. n \in Nat /\ n > 0 /\ s[n] \in Frame /\ \A i \in 1 .. n : s[i] \in Frame
  OBVIOUS
<1>2. Tail(s[n].todo) \in Seq(Step)
  BY <1>1 DEF Frame
<1>3. /\ top \in Frame /\ top.id = s[n].id /\ top.callback = s[n].callback
      /\ top.todo = Tail(s[n].todo)
  BY <1>1, <1>2 DEF Frame
<1>4. \A i \in 1 .. n : e(i) \in Frame
  BY <1>1, <1>3
<1>5. Advanced(s) = [i \in 1 .. n |-> e(i)]
  BY DEF Advanced
<1> HIDE DEF top
<1>6. Advanced(s) \in Seq(Frame) /\ Len(Advanced(s)) = n
  BY <1>1, <1>4, <1>5
<1>7. \A i \in 1 .. n : Advanced(s)[i] = e(i)
  BY <1>5
<1> HIDE DEF n
<1>8. ASSUME NEW i \in 1 .. n
      PROVE  /\ Advanced(s)[i].id = s[i].id /\ Advanced(s)[i].callback = s[i].callback
             /\ i < n => Advanced(s)[i] = s[i]
  <2>1. CASE i = n
    BY <1>1, <1>3, <1>7, <2>1
  <2>2. CASE i # n
    BY <1>7, <2>2
  <2> QED BY <2>1, <2>2
<1>9. Advanced(s)[n].todo = Tail(s[n].todo)
  BY <1>1, <1>3, <1>7
<1> QED BY <1>6, <1>8, <1>9 DEF n

\* The frames below the top.
LEMMA BelowFrames ==
    ASSUME stack \in Seq(Frame), stack # <<>>
    PROVE  /\ Below \in Seq(Frame) /\ Len(Below) = Len(stack) - 1
           /\ \A i \in 1 .. Len(stack) - 1 : Below[i] = stack[i]
BY DEF Below

LEMMA InitLoader == ASSUME LoaderInit PROVE LoaderInv
<1>1. /\ MaxModule \in Nat /\ script \in [Disk -> Seq(Step)] /\ stack = <<>>
      /\ thrown = FALSE /\ made = 0 /\ cache = [f \in Disk |-> 0]
      /\ module = [id \in Id |-> [file |-> NotFound, state |-> "none", got |-> {}]]
  BY LoaderAssumption DEF LoaderInit
<1>2. Types
  <2>1. module \in [Id -> [file : Disk \cup {NotFound}, state : {"none", "runs", "loaded", "dead"},
                            got : SUBSET [id : Id, whole : BOOLEAN]]]
    BY <1>1
  <2>2. cache \in [Disk -> 0 .. MaxModule] /\ stack \in Seq(Frame) /\ made \in 0 .. MaxModule
    BY <1>1
  <2> QED BY <1>1, <2>1, <2>2 DEF Types
<1>3. ModulesMade /\ Running
  BY <1>1 DEF ModulesMade, Running
<1>4. Frames
  BY <1>1 DEF Frames
<1>5. OneModule
  BY <1>1 DEF OneModule, Alive
<1> QED BY <1>2, <1>3, <1>4, <1>5 DEF LoaderInv

\* A new module is the only one of its file, which had none in the cache.
LEMMA BeginsKeeps ==
    ASSUME LoaderInv, NEW f \in Disk, cache[f] = 0, Begins(f, stack), UNCHANGED <<script, thrown>>,
           ~thrown, stack # <<>> => Top.todo # <<>>
    PROVE  LoaderInv'
<1> DEFINE n == Len(stack)
           new == made + 1
           fr == [id |-> new, todo |-> script[f], callback |-> FALSE]
<1>1. Types /\ ModulesMade /\ Frames /\ Running /\ OneModule /\ MaxModule \in Nat
  BY LoaderAssumption DEF LoaderInv
<1>2. new \in Id /\ made' = new /\ new \in 0 .. MaxModule /\ made \in Nat
  BY <1>1 DEF Begins, Types, Id
<1>3. fr \in Frame
  BY <1>1, <1>2 DEF Types, Frame
<1>4. /\ stack' = Append(stack, fr) /\ stack' \in Seq(Frame) /\ Len(stack') = n + 1 /\ n \in Nat
      /\ stack'[n + 1] = fr /\ \A i \in 1 .. n : stack'[i] = stack[i] /\ stack[i] \in Frame
  BY <1>1, <1>3 DEF Begins, Types
<1>5. /\ cache' = [cache EXCEPT ![f] = new]
      /\ module' = [module EXCEPT ![new] = [file |-> f, state |-> "runs", got |-> {}]]
  BY DEF Begins
<1>6. Types'
  BY <1>1, <1>2, <1>4, <1>5 DEF Types
<1>7. /\ module'[new].file = f /\ module'[new].state = "runs" /\ module'[new].got = {}
      /\ module[new].state = "none"
      /\ \A id \in Id : id # new => module'[id] = module[id]
  BY <1>1, <1>2, <1>5 DEF Types, ModulesMade
<1>8. cache'[f] = new /\ \A g \in Disk : g # f => cache'[g] = cache[g]
  BY <1>1, <1>5 DEF Types
<1>9. ModulesMade'
  BY <1>1, <1>2, <1>7 DEF ModulesMade, Id
<1> HIDE DEF n
<1>10. Frames'
  <2>1. ASSUME NEW i \in 1 .. n + 1
        PROVE  /\ stack'[i].id <= new /\ (i <= n => stack'[i].id < new)
               /\ stack'[i].callback => stack'[i].todo \in Seq(Caughts)
               /\ ~stack'[i].callback => module'[stack'[i].id].state = "runs"
               /\ (i < n + 1 => stack'[i].todo # <<>>)
    <3>1. CASE i = n + 1
      BY <1>2, <1>4, <1>7, <3>1
    <3>2. CASE i # n + 1
      <4>1. i \in 1 .. n /\ stack'[i] = stack[i] /\ stack[i] \in Frame
        BY <1>4, <3>2
      <4>2. stack[i].id <= made /\ stack[i].id \in Id /\ stack[i].id # new
        BY <1>1, <1>2, <4>1 DEF Frames, Frame, Id, n
      <4>3. stack[i].todo # <<>>
        BY <1>1, <4>1 DEF Frames, Top, n
      <4> QED BY <1>1, <1>2, <1>7, <4>1, <4>2, <4>3 DEF Frames, Id, n
    <3> QED BY <3>1, <3>2
  <2>2. ASSUME NEW i \in 1 .. n + 1, NEW j \in 1 .. n + 1, i < j
        PROVE  stack'[i].id < stack'[j].id
    <3>1. CASE j = n + 1
      BY <1>4, <2>1, <2>2, <3>1
    <3>2. CASE j # n + 1
      <4>1. i \in 1 .. n /\ j \in 1 .. n
        BY <1>4, <2>2, <3>2
      <4>2. stack[i].id < stack[j].id
        BY <1>1, <2>2, <4>1 DEF Frames, n
      <4> QED BY <1>4, <4>1, <4>2
    <3> QED BY <3>1, <3>2
  <2> QED BY <1>2, <1>4, <2>1, <2>2 DEF Frames
<1>11. Running'
  <2>1. ASSUME NEW id \in Id, module'[id].state = "runs"
        PROVE  \E i \in 1 .. n + 1 : ~stack'[i].callback /\ stack'[i].id = id
    <3>1. CASE id = new
      BY <1>4, <3>1
    <3>2. CASE id # new
      BY <1>1, <1>4, <1>7, <2>1, <3>2 DEF Running, n
    <3> QED BY <3>1, <3>2
  <2> QED BY <1>4, <2>1 DEF Running
<1>12. OneModule'
  <2>1. ASSUME NEW id \in Id, Alive(id)' PROVE cache'[module'[id].file] = id
    <3>1. CASE id = new
      BY <1>7, <1>8, <3>1
    <3>2. CASE id # new
      <4>1. Alive(id) /\ module'[id] = module[id]
        BY <1>7, <2>1, <3>2 DEF Alive
      <4>2. cache[module[id].file] = id
        BY <1>1, <4>1 DEF OneModule
      <4>3. module[id].file \in Disk /\ id # 0
        BY <1>1, <4>1 DEF ModulesMade, Alive, Id
      <4> QED BY <1>8, <4>1, <4>2, <4>3
    <3> QED BY <3>1, <3>2
  <2>2. ASSUME NEW g \in Disk, cache'[g] # 0
        PROVE  /\ module'[cache'[g]].state \in {"runs", "loaded"}
               /\ module'[cache'[g]].file = g
    <3>1. CASE g = f
      BY <1>7, <1>8, <3>1
    <3>2. CASE g # f
      <4>1. cache'[g] = cache[g] /\ cache[g] \in Id
        BY <1>1, <1>8, <2>2, <3>2 DEF Types, Id
      <4>2. Alive(cache[g]) /\ module[cache[g]].file = g
        BY <1>1, <2>2, <4>1 DEF OneModule
      <4>3. cache[g] # new
        BY <1>7, <4>2 DEF Alive
      <4> QED BY <1>7, <4>1, <4>2, <4>3 DEF Alive
    <3> QED BY <3>1, <3>2
  <2>3. ASSUME NEW id \in Id, NEW g \in module'[id].got
        PROVE  (g.whole => module'[g.id].state = "loaded") /\ (~g.whole => g.id <= id)
    <3>1. id # new /\ g \in module[id].got
      BY <1>7, <2>3
    <3>2. g.id \in Id
      BY <1>1, <3>1 DEF Types
    <3>3. (g.whole => module[g.id].state = "loaded") /\ (~g.whole => g.id <= id)
      BY <1>1, <3>1 DEF OneModule
    <3> QED BY <1>7, <3>2, <3>3
  <2> QED BY <2>1, <2>2, <2>3 DEF OneModule, Alive
<1> QED BY <1>6, <1>9, <1>10, <1>11, <1>12 DEF LoaderInv

\* Frames that finish their require, or are the same, with no other module made.
LEMMA FramesKept ==
    ASSUME LoaderInv, NEW k \in 0 .. Len(stack), stack' \in Seq(Frame), Len(stack') = k,
           made' = made,
           \A i \in 1 .. k : /\ stack'[i].id = stack[i].id
                             /\ stack'[i].callback = stack[i].callback
                             /\ i < k => stack'[i] = stack[i],
           k > 0 => stack'[k].todo \in {stack[k].todo, Tail(stack[k].todo)},
           k > 0 => stack[k].todo # <<>> \/ stack'[k].todo = stack[k].todo,
           k > 0 /\ thrown' => stack'[k].todo # <<>>,
           thrown' => k > 0,
           \A i \in 1 .. k : ~stack[i].callback => module'[stack[i].id].state = "runs"
    PROVE  Frames'
<1>1. Frames /\ stack \in Seq(Frame) /\ Len(stack) \in Nat /\ 1 .. k \subseteq 1 .. Len(stack)
  BY DEF LoaderInv, Types
<1>2. \A i \in 1 .. k : stack'[i].id <= made
  BY <1>1 DEF Frames
<1>3. \A i, j \in 1 .. k : i < j => stack'[i].id < stack'[j].id
  BY <1>1 DEF Frames
<1>4. ASSUME NEW i \in 1 .. k, stack'[i].callback PROVE stack'[i].todo \in Seq(Caughts)
  <2>1. stack[i].callback /\ stack[i].todo \in Seq(Caughts)
    BY <1>1, <1>4 DEF Frames
  <2>2. CASE i < k
    BY <2>1, <2>2
  <2>3. CASE i = k
    <3>1. k > 0 /\ stack[k].todo \in Seq(Caughts)
      BY <2>1, <2>3
    <3>2. CASE stack'[k].todo = stack[k].todo
      BY <2>3, <3>1, <3>2
    <3>3. CASE stack'[k].todo # stack[k].todo
      <4>1. stack[k].todo # <<>> /\ stack'[k].todo = Tail(stack[k].todo)
        BY <3>1, <3>3
      <4>2. Tail(stack[k].todo) \in Seq(Caughts)
        BY <3>1, <4>1
      <4> QED BY <2>3, <4>1, <4>2
    <3> QED BY <3>2, <3>3
  <2> QED BY <2>2, <2>3
<1>5. \A i \in 1 .. k : ~stack'[i].callback => module'[stack'[i].id].state = "runs"
  OBVIOUS
<1>6. ASSUME NEW i \in 1 .. k, i < k \/ thrown' PROVE stack'[i].todo # <<>>
  <2>1. CASE i < k
    BY <1>1, <2>1 DEF Frames
  <2>2. CASE i = k
    BY <1>6, <2>2
  <2> QED BY <2>1, <2>2
<1>7. thrown' => stack' # <<>>
  OBVIOUS
<1> QED BY <1>2, <1>3, <1>4, <1>5, <1>6, <1>7 DEF Frames

\* What a module keeps of another: whole if that is loaded, and otherwise it is
\* one that runs below it.
LEMMA GivenKeeps ==
    ASSUME LoaderInv, NEW id \in Id, NEW g \in Id, NEW whole \in BOOLEAN, id <= made,
           whole => module[g].state = "loaded", ~whole => g <= id,
           module' = [module EXCEPT ![id] = Given(id, g, whole)],
           UNCHANGED <<cache, made>>
    PROVE  /\ OneModule' /\ ModulesMade' /\ \A i \in Id : module'[i].state = module[i].state
           /\ module' \in [Id -> [file : Disk \cup {NotFound},
                                  state : {"none", "runs", "loaded", "dead"},
                                  got : SUBSET [id : Id, whole : BOOLEAN]]]
<1> DEFINE new == [id |-> g, whole |-> whole]
<1>1. Types /\ ModulesMade /\ OneModule
  BY DEF LoaderInv
<1>2. new \in [id : Id, whole : BOOLEAN]
  OBVIOUS
<1>3. /\ Given(id, g, whole).file = module[id].file
      /\ Given(id, g, whole).state = module[id].state
      /\ Given(id, g, whole).got = module[id].got \cup {new}
      /\ Given(id, g, whole) \in [file : Disk \cup {NotFound},
                                  state : {"none", "runs", "loaded", "dead"},
                                  got : SUBSET [id : Id, whole : BOOLEAN]]
  BY SMTT(20), <1>1, <1>2 DEF Given, Types
<1>4. \A i \in Id : module'[i] = IF i = id THEN Given(id, g, whole) ELSE module[i]
  BY <1>1 DEF Types
<1>5. \A i \in Id : module'[i].state = module[i].state /\ module'[i].file = module[i].file
  BY <1>3, <1>4
<1>6. module' \in [Id -> [file : Disk \cup {NotFound},
                          state : {"none", "runs", "loaded", "dead"},
                          got : SUBSET [id : Id, whole : BOOLEAN]]]
  BY <1>1, <1>3 DEF Types
<1>7. ModulesMade'
  BY <1>1, <1>4, <1>5 DEF ModulesMade, Types, Id
<1>8. \A i \in Id : Alive(i)' => cache'[module'[i].file] = i
  BY <1>1, <1>5 DEF OneModule, Alive
<1>9. ASSUME NEW f \in Disk, cache'[f] # 0
      PROVE  module'[cache'[f]].state \in {"runs", "loaded"} /\ module'[cache'[f]].file = f
  <2>1. cache'[f] = cache[f] /\ cache[f] \in Id
    BY <1>1, <1>9 DEF Types, Id
  <2> QED BY <1>1, <1>5, <1>9, <2>1 DEF OneModule, Alive
<1>10. ASSUME NEW i \in Id, NEW h \in module'[i].got
       PROVE  (h.whole => module'[h.id].state = "loaded") /\ (~h.whole => h.id <= i)
  <2>1. CASE h \in module[i].got
    <3>1. h.id \in Id
      BY <1>1, <2>1 DEF Types
    <3> QED BY <1>1, <1>5, <2>1, <3>1 DEF OneModule
  <2>2. CASE h \notin module[i].got
    <3>1. i = id /\ h = new
      BY <1>3, <1>4, <1>10, <2>2
    <3> QED BY <1>5, <3>1
  <2> QED BY <2>1, <2>2
<1>11. OneModule'
  BY <1>8, <1>9, <1>10 DEF OneModule, Alive
<1> QED BY <1>5, <1>6, <1>7, <1>11
-----------------------------------------------------------------------------
\* The frame at the top is of a module there is, and has a step to do where
\* something was thrown.
LEMMA TopFrame ==
    ASSUME LoaderInv, stack # <<>>
    PROVE  /\ Len(stack) \in Nat \ {0} /\ Top \in Frame /\ Top.id \in Id /\ Top.id <= made
           /\ thrown => Top.todo # <<>>
<1>1. Len(stack) \in Nat \ {0} /\ Top \in Frame
  BY DEF LoaderInv, Types, Top
<1> QED BY <1>1 DEF LoaderInv, Frames, Frame, Top

LEMMA FindsKeeps ==
    ASSUME LoaderInv, NEW f, HasStep, Finds(f), UNCHANGED script
    PROVE  LoaderInv'
<1> DEFINE n == Len(stack)
           whole == module[cache[f]].state = "loaded"
<1>1. /\ Types /\ Frames /\ Running /\ OneModule
      /\ stack # <<>> /\ ~thrown /\ Top.todo # <<>> /\ f \in Disk /\ cache[f] # 0
  BY DEF LoaderInv, HasStep, Executes, Finds
<1>2. n \in Nat \ {0} /\ stack \in Seq(Frame) /\ Top.id \in Id /\ Top.id <= made
  BY <1>1, TopFrame DEF Types
<1>3. cache[f] \in Id /\ Alive(cache[f])
  BY <1>1 DEF Types, OneModule, Id
<1>4. ~whole => cache[f] <= Top.id
  <2>1. SUFFICES ASSUME ~whole PROVE cache[f] <= Top.id
    OBVIOUS
  <2>2. PICK i \in 1 .. n : stack[i].id = cache[f]
    BY <1>1, <1>3, <2>1 DEF Running, Alive
  <2>3. CASE i = n
    BY <1>2, <1>3, <2>2, <2>3 DEF Top, Id
  <2>4. CASE i # n
    <3>1. i < n /\ n \in 1 .. n
      BY <1>2, <2>4
    <3>2. stack[i].id < Top.id
      BY <1>1, <3>1 DEF Frames, Top
    <3> QED BY <1>2, <1>3, <2>2, <3>2 DEF Id
  <2> QED BY <2>3, <2>4
<1>5. /\ module' = [module EXCEPT ![Top.id] = Given(Top.id, cache[f], whole)]
      /\ stack' = Advanced(stack) /\ UNCHANGED <<cache, made, thrown>>
  BY DEF Finds
<1>6. /\ OneModule' /\ ModulesMade' /\ \A i \in Id : module'[i].state = module[i].state
      /\ module' \in [Id -> [file : Disk \cup {NotFound},
                             state : {"none", "runs", "loaded", "dead"},
                             got : SUBSET [id : Id, whole : BOOLEAN]]]
  <2> HIDE DEF whole
  <2>1. whole \in BOOLEAN
    BY DEF whole
  <2>2. whole => module[cache[f]].state = "loaded"
    BY DEF whole
  <2> QED BY <1>2, <1>3, <1>4, <1>5, <2>1, <2>2, GivenKeeps
<1>7. /\ stack' \in Seq(Frame) /\ Len(stack') = n
      /\ \A i \in 1 .. n : /\ stack'[i].id = stack[i].id /\ stack'[i].callback = stack[i].callback
                           /\ i < n => stack'[i] = stack[i]
      /\ stack'[n].todo = Tail(stack[n].todo)
  BY <1>1, <1>2, <1>5, AdvancedFrame DEF Top
<1>8. \A i \in 1 .. n : stack[i].id \in Id
  <2>1. \A i \in 1 .. n : stack[i] \in Frame
    BY <1>2
  <2> QED BY <2>1 DEF Frame
<1>9. Frames'
  <2>1. \A i \in 1 .. n : ~stack[i].callback => module'[stack[i].id].state = "runs"
    BY <1>1, <1>6, <1>8 DEF Frames
  <2>2. /\ n \in 0 .. n /\ made' = made /\ ~thrown' /\ n > 0 /\ stack[n].todo # <<>>
        /\ stack'[n].todo \in {stack[n].todo, Tail(stack[n].todo)}
    BY <1>1, <1>2, <1>5, <1>7 DEF Top
  <2> QED BY <1>7, <2>1, <2>2, FramesKept
<1>10. Running'
  <2>1. ASSUME NEW i \in Id, module'[i].state = "runs"
        PROVE  \E j \in 1 .. Len(stack') : ~stack'[j].callback /\ stack'[j].id = i
    <3>1. PICK j \in 1 .. Len(stack) : ~stack[j].callback /\ stack[j].id = i
      BY <1>1, <1>6, <2>1 DEF Running
    <3>2. j \in 1 .. n
      BY <1>2
    <3> QED BY <1>7, <3>1, <3>2
  <2> QED BY <2>1 DEF Running
<1>11. Types'
  BY <1>1, <1>5, <1>6, <1>7 DEF Types
<1> QED BY <1>6, <1>9, <1>10, <1>11 DEF LoaderInv

\* There is no such file, or the source throws.
LEMMA ThrownKeeps ==
    ASSUME LoaderInv, HasStep, thrown' = TRUE, UNCHANGED <<script, cache, made, module, stack>>
    PROVE  LoaderInv'
<1>1. Types /\ Frames /\ stack # <<>> /\ Top.todo # <<>> /\ Len(stack) \in Nat \ {0}
  BY TopFrame DEF LoaderInv, HasStep, Executes
<1>2. Types' /\ ModulesMade' /\ Running' /\ OneModule'
  BY DEF LoaderInv, Types, ModulesMade, Running, OneModule, Alive
<1>3. Frames'
  BY <1>1 DEF Frames, Top
<1> QED BY <1>2, <1>3 DEF LoaderInv

LEMMA CaughtKeeps == ASSUME LoaderInv, Caught PROVE LoaderInv'
<1> DEFINE n == Len(stack)
<1>1. /\ Types /\ Frames /\ Running /\ stack # <<>> /\ Top.todo # <<>> /\ stack' = Advanced(stack)
      /\ thrown' = FALSE /\ UNCHANGED <<script, cache, made, module>>
      /\ n \in Nat \ {0} /\ stack \in Seq(Frame)
  BY TopFrame DEF LoaderInv, Caught, Types
<1>2. /\ stack' \in Seq(Frame) /\ Len(stack') = n
      /\ \A i \in 1 .. n : /\ stack'[i].id = stack[i].id /\ stack'[i].callback = stack[i].callback
                           /\ i < n => stack'[i] = stack[i]
      /\ stack'[n].todo = Tail(stack[n].todo)
  BY <1>1, AdvancedFrame DEF Top
<1>3. Frames'
  <2>1. \A i \in 1 .. n : ~stack[i].callback => module'[stack[i].id].state = "runs"
    BY <1>1 DEF Frames
  <2>2. /\ n \in 0 .. n /\ made' = made /\ ~thrown' /\ n > 0 /\ stack[n].todo # <<>>
        /\ stack'[n].todo \in {stack[n].todo, Tail(stack[n].todo)}
    BY <1>1, <1>2 DEF Top
  <2> QED BY <1>2, <2>1, <2>2, FramesKept
<1>4. Types'
  BY <1>1, <1>2 DEF Types
<1>5. Running'
  BY <1>1, <1>2 DEF Running
<1>6. ModulesMade' /\ OneModule'
  BY <1>1 DEF LoaderInv, ModulesMade, OneModule, Alive
<1> QED BY <1>3, <1>4, <1>5, <1>6 DEF LoaderInv

LEMMA ReturnsKeeps == ASSUME LoaderInv, Returns PROVE LoaderInv'
<1> DEFINE n == Len(stack)
<1>1. /\ Types /\ Frames /\ Running /\ stack # <<>> /\ stack' = Below /\ ~thrown /\ Top.callback
      /\ UNCHANGED <<script, cache, made, module, thrown>>
      /\ n \in Nat \ {0} /\ stack \in Seq(Frame)
  BY TopFrame DEF LoaderInv, Returns, Executes, Types
<1>2. /\ stack' \in Seq(Frame) /\ Len(stack') = n - 1
      /\ \A i \in 1 .. n - 1 : stack'[i] = stack[i]
  BY <1>1, BelowFrames
<1>3. Frames'
  <2>1. \A i \in 1 .. n - 1 : ~stack[i].callback => module'[stack[i].id].state = "runs"
    BY <1>1 DEF Frames
  <2> QED BY <1>1, <1>2, <2>1, FramesKept DEF Top
<1>4. Running'
  BY <1>1, <1>2 DEF Running, Top
<1>5. Types' /\ ModulesMade' /\ OneModule'
  BY <1>1, <1>2 DEF LoaderInv, Types, ModulesMade, OneModule, Alive
<1> QED BY <1>3, <1>4, <1>5 DEF LoaderInv

\* The source of a module ends: every other module is as it was, but for what the
\* module below it is given.
LEMMA LoadedKeeps == ASSUME LoaderInv, Loaded PROVE LoaderInv'
<1> DEFINE n == Len(stack)
           t == Top.id
           done == [module EXCEPT ![t].state = "loaded"]
           p == Below[Len(Below)].id
           new == [id |-> t, whole |-> TRUE]
<1>1. /\ Types /\ ModulesMade /\ Frames /\ Running /\ OneModule /\ stack # <<>> /\ ~thrown /\ ~Top.callback
      /\ stack' = Advanced(Below) /\ UNCHANGED <<script, cache, made, thrown>>
      /\ n \in Nat \ {0} /\ stack \in Seq(Frame) /\ t \in Id /\ t <= made
      /\ module[t].state = "runs"
  <2>1. stack # <<>> /\ ~Top.callback
    BY DEF Loaded, Executes
  <2>2. Len(stack) \in Nat \ {0} /\ t \in Id /\ t <= made
    BY <2>1, TopFrame
  <2>3. module[t].state = "runs"
    BY <2>1, <2>2 DEF LoaderInv, Frames, Top
  <2> QED BY <2>1, <2>2, <2>3 DEF LoaderInv, Loaded, Executes, Types
<1>2. /\ Below \in Seq(Frame) /\ Len(Below) = n - 1
      /\ \A i \in 1 .. n - 1 : Below[i] = stack[i] /\ stack[i].todo # <<>> /\ stack[i].id \in Id
                               /\ stack[i].id < t
  <2>1. Below \in Seq(Frame) /\ Len(Below) = n - 1 /\ \A i \in 1 .. n - 1 : Below[i] = stack[i]
    BY <1>1, BelowFrames
  <2>2. \A i \in 1 .. n : stack[i] \in Frame
    BY <1>1
  <2>3. \A i \in 1 .. n - 1 : stack[i].todo # <<>> /\ stack[i].id < t
    BY <1>1 DEF Frames, Top
  <2> QED BY <1>1, <2>1, <2>2, <2>3 DEF Frame
<1>3. /\ stack' \in Seq(Frame) /\ Len(stack') = n - 1
      /\ \A i \in 1 .. n - 1 :
            /\ stack'[i].id = stack[i].id /\ stack'[i].callback = stack[i].callback
            /\ i < n - 1 => stack'[i] = stack[i]
      /\ n - 1 > 0 => stack'[n - 1].todo = Tail(stack[n - 1].todo)
  <2>1. CASE n = 1
    <3>1. Len(Below) = 0
      BY <1>2, <2>1
    <3>2. Advanced(Below) = <<>>
      BY <3>1 DEF Advanced
    <3> QED BY <1>1, <2>1, <3>2
  <2>2. CASE n # 1
    <3>1. Below # <<>> /\ Below[Len(Below)].todo # <<>> /\ n - 1 \in 1 .. n - 1
      BY <1>1, <1>2, <2>2
    <3> HIDE DEF n
    <3>2. /\ Advanced(Below) \in Seq(Frame) /\ Len(Advanced(Below)) = n - 1
          /\ \A i \in 1 .. n - 1 :
                /\ Advanced(Below)[i].id = Below[i].id
                /\ Advanced(Below)[i].callback = Below[i].callback
                /\ i < n - 1 => Advanced(Below)[i] = Below[i]
          /\ Advanced(Below)[n - 1].todo = Tail(Below[n - 1].todo)
      BY <1>2, <3>1, AdvancedFrame
    <3> QED BY <1>1, <1>2, <3>1, <3>2
  <2> QED BY <2>1, <2>2
<1>4. module' = IF Below = <<>> THEN done ELSE [done EXCEPT ![p] = Given(p, t, TRUE)]
  BY DEF Loaded
<1>5. Below # <<>> => p \in Id /\ p < t
  BY <1>1, <1>2
<1>6. /\ done \in [Id -> [file : Disk \cup {NotFound}, state : {"none", "runs", "loaded", "dead"},
                          got : SUBSET [id : Id, whole : BOOLEAN]]]
      /\ done[t].state = "loaded" /\ done[t].file = module[t].file /\ done[t].got = module[t].got
      /\ \A i \in Id : i # t => done[i] = module[i]
  BY <1>1 DEF Types
<1> HIDE DEF done, t, p, n
<1>7. Below # <<>> =>
        /\ Given(p, t, TRUE) \in [file : Disk \cup {NotFound},
                                  state : {"none", "runs", "loaded", "dead"},
                                  got : SUBSET [id : Id, whole : BOOLEAN]]
        /\ Given(p, t, TRUE).state = module[p].state /\ Given(p, t, TRUE).file = module[p].file
        /\ Given(p, t, TRUE).got = module[p].got \cup {new}
  <2>1. SUFFICES ASSUME Below # <<>>
                 PROVE  /\ Given(p, t, TRUE) \in [file : Disk \cup {NotFound},
                                                  state : {"none", "runs", "loaded", "dead"},
                                                  got : SUBSET [id : Id, whole : BOOLEAN]]
                        /\ Given(p, t, TRUE).state = module[p].state
                        /\ Given(p, t, TRUE).file = module[p].file
                        /\ Given(p, t, TRUE).got = module[p].got \cup {new}
    OBVIOUS
  <2>2. new \in [id : Id, whole : BOOLEAN] /\ p \in Id
    BY <1>1, <1>5, <2>1
  <2>3. module[p] \in [file : Disk \cup {NotFound}, state : {"none", "runs", "loaded", "dead"},
                       got : SUBSET [id : Id, whole : BOOLEAN]]
    BY <1>1, <2>2 DEF Types
  <2>4. Given(p, t, TRUE) = [module[p] EXCEPT !.got = module[p].got \cup {new}]
    BY DEF Given
  <2>5. module[p].got \cup {new} \in SUBSET [id : Id, whole : BOOLEAN]
    BY <2>2, <2>3
  <2> HIDE DEF new
  <2> QED BY <2>3, <2>4, <2>5
<1>8. /\ module' \in [Id -> [file : Disk \cup {NotFound}, state : {"none", "runs", "loaded", "dead"},
                             got : SUBSET [id : Id, whole : BOOLEAN]]]
      /\ module'[t].state = "loaded"
      /\ \A i \in Id : /\ module'[i].file = module[i].file
                       /\ i # t => module'[i].state = module[i].state
                       /\ module'[i].got \in {module[i].got, module[i].got \cup {new}}
                       /\ i > made => module'[i].got = module[i].got
  <2>1. CASE Below = <<>>
    BY <1>1, <1>4, <1>6, <2>1
  <2>2. CASE Below # <<>>
    <3>1. module' = [done EXCEPT ![p] = Given(p, t, TRUE)] /\ p \in Id /\ p # t /\ p < t
      BY <1>1, <1>4, <1>5, <2>2 DEF Id
    <3>2. \A i \in Id : module'[i] = IF i = p THEN Given(p, t, TRUE) ELSE done[i]
      BY <1>6, <3>1
    <3>3. p <= made
      BY <1>1, <3>1 DEF Types, Id
    <3>4. \A i \in Id : i > made => i # p
      BY <1>1, <3>1, <3>3 DEF Types, Id
    <3>5. module' \in [Id -> [file : Disk \cup {NotFound}, state : {"none", "runs", "loaded", "dead"},
                             got : SUBSET [id : Id, whole : BOOLEAN]]]
      BY <1>6, <1>7, <2>2, <3>1
    <3> QED BY <1>1, <1>6, <1>7, <2>2, <3>1, <3>2, <3>4, <3>5
  <2> QED BY <2>1, <2>2
<1>9. Types'
  BY <1>1, <1>3, <1>8 DEF Types
<1>10. ModulesMade'
  BY <1>1, <1>8 DEF ModulesMade, Types, Id
<1>11. Frames'
  <2>1. \A i \in 1 .. n - 1 : ~stack[i].callback => module'[stack[i].id].state = "runs"
    <3>1. \A i \in 1 .. n - 1 : stack[i].id # t
      BY <1>1, <1>2 DEF Id
    <3> QED BY <1>1, <1>2, <1>8, <3>1 DEF Frames, n
  <2>2. /\ n - 1 \in 0 .. Len(stack) /\ made' = made /\ ~thrown'
        /\ n - 1 > 0 => /\ stack[n - 1].todo # <<>>
                        /\ stack'[n - 1].todo \in {stack[n - 1].todo, Tail(stack[n - 1].todo)}
    BY <1>1, <1>2, <1>3 DEF n
  <2> QED BY <1>3, <2>1, <2>2, FramesKept
<1>12. Running'
  <2>1. ASSUME NEW id \in Id, module'[id].state = "runs"
        PROVE  \E i \in 1 .. n - 1 : ~stack'[i].callback /\ stack'[i].id = id
    <3>1. id # t /\ module[id].state = "runs"
      BY <1>8, <2>1
    <3>2. PICK i \in 1 .. n : ~stack[i].callback /\ stack[i].id = id
      BY <1>1, <3>1 DEF Running, n
    <3>3. i # n
      BY <3>1, <3>2 DEF Top, t, n
    <3> QED BY <1>1, <1>3, <3>2, <3>3
  <2> QED BY <1>3, <2>1 DEF Running
<1>13. OneModule'
  <2>1. ASSUME NEW id \in Id, module'[id].state \in {"runs", "loaded"}
        PROVE  cache'[module'[id].file] = id
    <3>1. Alive(id)
      BY <1>1, <1>8, <2>1 DEF Alive
    <3> QED BY <1>1, <1>8, <3>1 DEF OneModule
  <2>2. ASSUME NEW f \in Disk, cache'[f] # 0
        PROVE  /\ module'[cache'[f]].state \in {"runs", "loaded"}
               /\ module'[cache'[f]].file = f
    <3>1. cache'[f] = cache[f] /\ cache[f] \in Id
      BY <1>1, <2>2 DEF Types, Id
    <3> QED BY <1>1, <1>8, <2>2, <3>1 DEF OneModule, Alive
  <2>3. ASSUME NEW id \in Id, NEW g \in module'[id].got
        PROVE  (g.whole => module'[g.id].state = "loaded") /\ (~g.whole => g.id <= id)
    <3>1. CASE g \in module[id].got
      <4>1. g.id \in Id
        BY <1>1, <3>1 DEF Types
      <4> QED BY <1>1, <1>8, <3>1, <4>1 DEF OneModule
    <3>2. CASE g \notin module[id].got
      <4>1. g = new
        BY <1>8, <2>3, <3>2
      <4> QED BY <1>8, <4>1
    <3> QED BY <3>1, <3>2
  <2> QED BY <2>1, <2>2, <2>3 DEF OneModule, Alive
<1> QED BY <1>9, <1>10, <1>11, <1>12, <1>13 DEF LoaderInv

\* A module that throws runs until then, so that nobody was given it loaded.
LEMMA FailsKeeps == ASSUME LoaderInv, Fails PROVE LoaderInv'
<1> DEFINE n == Len(stack)
           t == Top.id
           f == module[t].file
<1>1. /\ Types /\ ModulesMade /\ Frames /\ Running /\ OneModule /\ stack # <<>> /\ thrown
      /\ n \in Nat \ {0} /\ stack \in Seq(Frame) /\ t \in Id /\ t <= made
      /\ Top \in Frame /\ Top.todo # <<>>
  BY TopFrame DEF LoaderInv, Fails, Types
<1>2. /\ cache' = [cache EXCEPT ![f] = 0] /\ module' = [module EXCEPT ![t].state = "dead"]
      /\ stack' = Below /\ thrown' = (Below # <<>>) /\ UNCHANGED <<script, made>>
      /\ ~Head(Top.todo).caught
  BY DEF Fails, Forgets
<1>3. ~Top.callback /\ module[t].state = "runs"
  <2>1. SUFFICES ASSUME Top.callback PROVE FALSE
    BY <1>1 DEF Frames, Top
  <2>2. Top.todo \in Seq(Caughts)
    BY <1>1, <2>1 DEF Frames, Top
  <2>3. Head(Top.todo) \in Caughts
    BY <1>1, <2>2
  <2> QED BY <1>2, <2>3 DEF Caughts
<1>4. /\ Below \in Seq(Frame) /\ Len(Below) = n - 1
      /\ \A i \in 1 .. n - 1 : Below[i] = stack[i] /\ stack[i].todo # <<>> /\ stack[i].id \in Id
                               /\ stack[i].id < t
  <2>1. Below \in Seq(Frame) /\ Len(Below) = n - 1 /\ \A i \in 1 .. n - 1 : Below[i] = stack[i]
    BY <1>1, BelowFrames
  <2>2. \A i \in 1 .. n : stack[i] \in Frame
    BY <1>1
  <2>3. \A i \in 1 .. n - 1 : stack[i].todo # <<>> /\ stack[i].id < t
    BY <1>1 DEF Frames, Top
  <2>4. \A i \in 1 .. n - 1 : stack[i].id \in Id
    BY <1>1, <2>2 DEF Frame
  <2> QED BY <2>1, <2>3, <2>4
<1>5. f \in Disk /\ cache[f] = t
  BY <1>1, <1>3 DEF ModulesMade, OneModule, Alive
<1> HIDE DEF t, n, f
<1>6. /\ module' \in [Id -> [file : Disk \cup {NotFound}, state : {"none", "runs", "loaded", "dead"},
                             got : SUBSET [id : Id, whole : BOOLEAN]]]
      /\ module'[t].state = "dead"
      /\ \A i \in Id : /\ module'[i].file = module[i].file /\ module'[i].got = module[i].got
                       /\ i # t => module'[i].state = module[i].state
  BY <1>1, <1>2 DEF Types
<1>7. /\ cache' \in [Disk -> 0 .. MaxModule] /\ cache'[f] = 0
      /\ \A g \in Disk : g # f => cache'[g] = cache[g]
  <2>1. MaxModule \in Nat
    BY LoaderAssumption
  <2> QED BY <1>1, <1>2, <1>5, <2>1 DEF Types
<1>8. Types'
  BY <1>1, <1>2, <1>4, <1>6, <1>7 DEF Types
<1>9. ModulesMade'
  <2>1. \A i \in Id : i > made => i # t
    BY <1>1 DEF Types, Id
  <2>2. \A i \in Id : module'[i].state # "none" => module[i].state # "none"
    BY <1>3, <1>6 DEF t
  <2> QED BY <1>1, <1>2, <1>6, <2>1, <2>2 DEF ModulesMade
<1>10. Frames'
  <2>1. \A i \in 1 .. n - 1 : ~stack[i].callback => module'[stack[i].id].state = "runs"
    <3>1. \A i \in 1 .. n - 1 : stack[i].id # t
      BY <1>1, <1>4 DEF Id
    <3> QED BY <1>1, <1>4, <1>6, <3>1, SMTT(40) DEF Frames, n
  <2>2. /\ n - 1 \in 0 .. Len(stack) /\ made' = made
        /\ thrown' => n - 1 > 0
        /\ n - 1 > 0 => stack'[n - 1].todo = stack[n - 1].todo /\ stack[n - 1].todo # <<>>
    <3>1. n - 1 \in 0 .. Len(stack)
      BY <1>1 DEF n
    <3>2. thrown' => n - 1 > 0
      <4>1. SUFFICES ASSUME Below # <<>> PROVE n - 1 > 0
        BY <1>2
      <4>2. n - 1 # 0
        BY <1>4, <4>1
      <4> QED BY <1>1, <4>2
    <3>3. n - 1 > 0 => stack'[n - 1].todo = stack[n - 1].todo /\ stack[n - 1].todo # <<>>
      <4>1. n - 1 > 0 => n - 1 \in 1 .. n - 1
        BY <1>1
      <4> QED BY <1>2, <1>4, <4>1
    <3> QED BY <1>2, <3>1, <3>2, <3>3
  <2>3. /\ stack' \in Seq(Frame) /\ Len(stack') = n - 1
        /\ \A i \in 1 .. n - 1 : stack'[i] = stack[i]
    BY <1>2, <1>4
  <2>4. n - 1 > 0 => /\ stack'[n - 1].todo \in {stack[n - 1].todo, Tail(stack[n - 1].todo)}
                      /\ stack'[n - 1].todo # <<>>
    BY <2>2
  <2>5. \A i \in 1 .. n - 1 : /\ stack'[i].id = stack[i].id
                             /\ stack'[i].callback = stack[i].callback
                             /\ i < n - 1 => stack'[i] = stack[i]
    BY <2>3
  <2>6. n - 1 > 0 => \/ stack[n - 1].todo # <<>>
                     \/ stack'[n - 1].todo = stack[n - 1].todo
    BY <2>2
  <2> QED BY <2>1, <2>2, <2>3, <2>4, <2>5, <2>6, FramesKept
<1>11. Running'
  <2>1. ASSUME NEW id \in Id, module'[id].state = "runs"
        PROVE  \E i \in 1 .. n - 1 : ~stack'[i].callback /\ stack'[i].id = id
    <3>1. id # t /\ module[id].state = "runs"
      BY <1>6, <2>1
    <3>2. PICK i \in 1 .. n : ~stack[i].callback /\ stack[i].id = id
      BY <1>1, <3>1 DEF Running, n
    <3>3. i # n
      BY <3>1, <3>2 DEF Top, t, n
    <3>4. i \in 1 .. n - 1
      BY <1>1, <3>3
    <3>5. stack'[i] = stack[i]
      BY <1>2, <1>4, <3>4
    <3> QED BY <3>2, <3>4, <3>5
  <2> QED BY <1>2, <1>4, <2>1 DEF Running
<1>12. OneModule'
  <2>1. ASSUME NEW id \in Id, module'[id].state \in {"runs", "loaded"}
        PROVE  cache'[module'[id].file] = id
    <3>1. Alive(id) /\ id # t
      BY <1>6, <2>1 DEF Alive
    <3>2. cache[module[id].file] = id /\ module[id].file \in Disk
      BY <1>1, <3>1 DEF OneModule, ModulesMade, Alive
    <3> QED BY <1>5, <1>6, <1>7, <3>1, <3>2
  <2>2. ASSUME NEW g \in Disk, cache'[g] # 0
        PROVE  /\ module'[cache'[g]].state \in {"runs", "loaded"}
               /\ module'[cache'[g]].file = g
    <3>1. g # f /\ cache'[g] = cache[g] /\ cache[g] \in Id
      BY <1>1, <1>7, <2>2 DEF Types, Id
    <3>2. Alive(cache[g]) /\ module[cache[g]].file = g
      BY <1>1, <2>2, <3>1 DEF OneModule
    <3> QED BY <1>6, <3>1, <3>2 DEF Alive, f
  <2>3. ASSUME NEW id \in Id, NEW g \in module'[id].got
        PROVE  (g.whole => module'[g.id].state = "loaded") /\ (~g.whole => g.id <= id)
    <3>1. g \in module[id].got /\ g.id \in Id
      BY <1>1, <1>6, <2>3 DEF Types
    <3> QED BY <1>1, <1>3, <1>6, <3>1 DEF OneModule
  <2> QED BY <2>1, <2>2, <2>3 DEF OneModule, Alive
<1> QED BY <1>8, <1>9, <1>10, <1>11, <1>12 DEF LoaderInv

LEMMA CallbackKeeps ==
    ASSUME LoaderInv, NEW id \in 1 .. made, NEW r \in Late, Callback(id, r) PROVE LoaderInv'
<1> DEFINE fr == [id |-> id, todo |-> <<[request |-> r, caught |-> TRUE]>>, callback |-> TRUE]
<1>1. /\ Types /\ ModulesMade /\ Frames /\ Running /\ OneModule /\ stack = <<>> /\ stack' = <<fr>>
      /\ UNCHANGED <<script, cache, made, module, thrown>>
  BY DEF LoaderInv, Callback
<1>2. id \in Id /\ id <= made /\ r \in Requests
  BY <1>1, LoaderAssumption DEF Types, Id
<1>3. [request |-> r, caught |-> TRUE] \in Caughts
  BY <1>2 DEF Step, Caughts
<1>4. fr.todo \in Seq(Caughts) /\ fr.todo \in Seq(Step) /\ fr.todo # <<>>
  BY <1>3 DEF Caughts
<1> HIDE DEF fr
<1>5. fr \in Frame /\ fr.id = id /\ fr.callback
  BY <1>2, <1>4 DEF Frame, fr
<1>6. stack' \in Seq(Frame) /\ Len(stack') = 1 /\ stack'[1] = fr
  BY <1>1, <1>5
<1>7. Types'
  BY <1>1, <1>6 DEF Types
<1>8. Frames'
  <2>1. ~thrown'
    BY <1>1 DEF Frames
  <2> QED BY <1>1, <1>2, <1>4, <1>5, <1>6, <2>1 DEF Frames, Types
<1>9. Running'
  BY <1>1 DEF Running
<1>10. ModulesMade' /\ OneModule'
  BY <1>1 DEF ModulesMade, OneModule, Alive
<1> QED BY <1>7, <1>8, <1>9, <1>10 DEF LoaderInv
-----------------------------------------------------------------------------
LEMMA LoaderStep == LoaderInv /\ [LoaderNext]_loaderVars => LoaderInv'
<1> SUFFICES ASSUME LoaderInv, [LoaderNext]_loaderVars PROVE LoaderInv'
  OBVIOUS
<1>1. CASE RunMain
  <2>1. stack = <<>>
    <3>1. SUFFICES ASSUME stack # <<>> PROVE FALSE
      OBVIOUS
    <3>2. Top.id \in Id /\ Top.id <= made
      BY <3>1, TopFrame
    <3> QED BY <1>1, <3>2 DEF RunMain, Id
  <2>2. ~thrown /\ Main \in Disk
    BY <2>1, LoaderAssumption DEF LoaderInv, Frames
  <2>3. cache[Main] = 0
    <3>1. SUFFICES ASSUME cache[Main] # 0 PROVE FALSE
      OBVIOUS
    <3>2. cache[Main] \in Id /\ Alive(cache[Main])
      BY <2>2, <3>1 DEF LoaderInv, Types, OneModule, Id
    <3> QED BY <1>1, <3>2 DEF LoaderInv, ModulesMade, Alive, RunMain, Id
  <2> QED BY <1>1, <2>1, <2>2, <2>3, BeginsKeeps DEF RunMain
<1>2. CASE Require
  <2> DEFINE f == ResolveFilename(Head(Top.todo).request, module[Top.id].file)
  <2>1. Load(f) /\ HasStep /\ UNCHANGED script
    BY <1>2 DEF Require
  <2> HIDE DEF f
  <2>2. CASE Finds(f)
    BY <2>1, <2>2, FindsKeeps
  <2>3. CASE Makes(f)
    BY <2>1, <2>3, BeginsKeeps DEF Makes, HasStep, Executes
  <2>4. CASE Misses(f)
    BY <2>1, <2>4, ThrownKeeps DEF Misses
  <2> QED BY <2>1, <2>2, <2>3, <2>4 DEF Load
<1>3. CASE Throw
  BY <1>3, ThrownKeeps DEF Throw
<1>4. CASE Loaded
  BY <1>4, LoadedKeeps
<1>5. CASE Returns
  BY <1>5, ReturnsKeeps
<1>6. CASE Caught
  BY <1>6, CaughtKeeps
<1>7. CASE Fails
  BY <1>7, FailsKeeps
<1>8. ASSUME NEW id \in 1 .. made, NEW r \in Late, Callback(id, r) PROVE LoaderInv'
  BY <1>8, CallbackKeeps
<1>9. CASE UNCHANGED loaderVars
  BY <1>9 DEF loaderVars, LoaderInv, Types, ModulesMade, Frames, Running, OneModule, Alive
<1> QED BY <1>1, <1>2, <1>3, <1>4, <1>5, <1>6, <1>7, <1>8, <1>9 DEF LoaderNext

\* Whatever files there are, whatever their sources require, catch and throw, and
\* in whatever order callbacks require them again: a file has one module.
THEOREM LoaderHasOneModule == LoaderSpec => []OneModule
<1>1. LoaderInit => LoaderInv
  BY InitLoader
<1>2. LoaderInv => OneModule
  BY DEF LoaderInv
<1> QED BY <1>1, <1>2, LoaderStep, PTL DEF LoaderSpec
=============================================================================

----------------------------- MODULE HttpProofs -----------------------------
(* The HTTP client, for any number of requests, sockets and pooled          *)
(* connections: what a connection carries is an account of what one server  *)
(* answered to one request, after what was left of the answers before it,   *)
(* in which no head is; a connection has one owner; a request is on at most *)
(* two connections, the second of them new.                                 *)
EXTENDS HttpProperties, FiniteSetTheorems, WellFoundedInduction, TLAPS

Pc == {"idle", "connecting", "handshake", "head", "body", "stream", "done", "failed", "closed"}
Mode == {"length", "chunked", "close", "none"}
HeadToken == [k : {"head"}, q : Nat, fd : Nat, mode : Mode, n : 0 .. MaxParts, keep : BOOLEAN]
WrongHead == [k : {"wrong"}, q : Nat, fd : Nat, mode : Mode, n : 0 .. MaxParts, keep : BOOLEAN]
\* A head that was read may have been merged with one before it.
HeadRead == [k : {"head"}, q : Nat, fd : Nat, mode : Mode \cup {"invalid"}, n : 0 .. MaxParts,
             keep : BOOLEAN]
Token ==
    HeadToken \cup WrongHead \cup [k : {"part"}, q : Task, fd : Fd, i : Nat]
        \cup [k : {"last", "broken"}, q : Task, fd : Fd] \cup [k : {"tls", "bad"}]
Message == [type : {"CONNECT", "DATA", "CLOSE", "ERROR"}, fd : Fd, data : Seq(Token)]
Request == [pc : Pc, kind : {"none", "request", "head", "stream"}, key : DefaultPort \cup {"none"},
            fd : 0 .. MaxFd, fromPool : BOOLEAN, before : HeadToken, head : HeadRead,
            body : Seq(Token)]
Conn == [fd : Fd, expired : BOOLEAN]
NetTypes ==
    /\ sock \in [Fd -> {"none", "opening", "open", "shut", "gone"}]
    /\ handler \in [Fd -> {"none", "connecting", "reader"}]
    /\ buf \in [Fd -> Seq(Token)] /\ rclosed \in [Fd -> BOOLEAN]
    /\ tls \in [Fd -> {"plain", "shaking", "on"}]
    /\ mail \in Seq(Message) /\ wire \in [Fd -> Seq(Token)] /\ eof \in [Fd -> BOOLEAN]
    /\ inbox \in [Fd -> Seq(0 .. MaxTask)]
HttpTypes ==
    /\ NetTypes
    /\ task \in [Task -> Request] /\ pool \in [Key -> Seq(Conn)] /\ cleanup \in BOOLEAN
    /\ served \in [Task -> Seq(Fd)]
    /\ \A q \in Task : task[q].pc \in Active => task[q].fd \in Fd /\ task[q].key \in Key
                                                /\ task[q].kind # "none"
-----------------------------------------------------------------------------
(* Owners.                                                                  *)
Holds(q, fd) == task[q].pc \in Active /\ task[q].fd = fd
InPool(fd) == \E key \in Key : \E i \in DOMAIN pool[key] : pool[key][i].fd = fd
Held(fd) == InPool(fd) \/ \E q \in Task : Holds(q, fd)
Alone ==
    /\ \A p, q \in Task, fd \in Fd : Holds(p, fd) /\ Holds(q, fd) => p = q
    /\ \A q \in Task, fd \in Fd : Holds(q, fd) => ~InPool(fd)
PoolOnce ==
    /\ \A k1, k2 \in Key : \A i1 \in DOMAIN pool[k1], i2 \in DOMAIN pool[k2] :
          pool[k1][i1].fd = pool[k2][i2].fd => k1 = k2 /\ i1 = i2
    /\ \A key \in Key : Len(pool[key]) <= MaxPerHost
Owned == \A fd \in Fd : sock[fd] \in {"opening", "open"} => Held(fd) \/ tls[fd] = "shaking"
-----------------------------------------------------------------------------
(* Sockets and their events.                                                *)
IsData(x, fd) == x.type = "DATA" /\ x.fd = fd
IsEnd(x, fd) == x.type \in {"CLOSE", "ERROR"} /\ x.fd = fd
SilentIn(m, fd) == \A i \in DOMAIN m : ~IsData(m[i], fd)
Calm(fd) == inbox[fd] = <<>> /\ buf[fd] = <<>> /\ wire[fd] = <<>> /\ SilentIn(mail, fd)
NotServed(fd) == \A q \in Task : fd \notin Range(served[q])
SocketOf(fd) ==
    /\ sock[fd] = "none" => Calm(fd) /\ tls[fd] = "plain" /\ ~rclosed[fd] /\ NotServed(fd)
    /\ Held(fd) => sock[fd] \notin {"none", "gone"}
    /\ handler[fd] = "connecting" => Calm(fd) /\ tls[fd] = "plain"
    /\ sock[fd] \in {"opening", "open"} => handler[fd] # "none"
    /\ sock[fd] # "gone" /\ handler[fd] = "none" => SilentIn(mail, fd)
    /\ rclosed[fd] => sock[fd] \in {"shut", "gone"}
    /\ Len(inbox[fd]) <= 1
    /\ tls[fd] = "shaking" /\ ~Held(fd) => Calm(fd)
EndsLast(fd) ==
    \A i \in DOMAIN mail : IsEnd(mail[i], fd) =>
        /\ sock[fd] \in {"shut", "gone"}
        /\ \A j \in DOMAIN mail : i <= j => ~IsData(mail[j], fd)
Sockets == \A fd \in Fd : SocketOf(fd) /\ EndsLast(fd)
-----------------------------------------------------------------------------
(* What a connection carries.                                               *)
\* The tokens after the first c of R are those in the reader, b, those of the
\* events in the mailbox, m, and those on the wire, w, as far as they go: the
\* first i events bring them to e[i].
FlowBy(e, fd, R, c, b, m, w) ==
    /\ e \in [0 .. Len(m) -> 0 .. Len(R)]
    /\ \A i, j \in 0 .. Len(m) : i <= j => e[i] <= e[j]
    /\ e[0] = c + Len(b) /\ \A k \in DOMAIN b : b[k] = R[c + k]
    /\ \A i \in DOMAIN m : ~IsData(m[i], fd) => e[i] = e[i - 1]
    /\ \A i \in DOMAIN m : IsData(m[i], fd) =>
          /\ e[i] = e[i - 1] + Len(m[i].data) /\ m[i].data # <<>>
          /\ \A k \in DOMAIN m[i].data : m[i].data[k] = R[e[i - 1] + k]
    /\ e[Len(m)] + Len(w) <= Len(R)
    /\ \A k \in DOMAIN w : w[k] = R[e[Len(m)] + k]
Flow(fd, R, c, b, m, w) ==
    \E e \in [0 .. Len(m) -> 0 .. Len(R)] : FlowBy(e, fd, R, c, b, m, w)
Coming(fd, R, c) == Flow(fd, R, c, buf[fd], mail, wire[fd])
\* What is left of the answers before: no head.
Left(L) == L \in Seq(Token) /\ \A i \in DOMAIN L : L[i].k \notin Ending
Rest(fd) == \E L : Left(L) /\ Coming(fd, L, 0)
\* R comes, after such a rest.
After(fd, R) == \E L : Left(L) /\ Coming(fd, L \o R, 0)
\* WriteResponse, of the kind of the request.
Response(kind, q, fd, s) ==
    <<HeadOf(q, fd, s)>>
        \o (IF kind = "head" \/ s.mode = "none" THEN <<>>
            ELSE Parts(q, fd, s.n) \o (IF s.mode = "chunked" THEN <<LastChunk(q, fd)>> ELSE <<>>))
\* A response, or one whose last chunk size is no number.
AnswersTo(kind, q, fd, s) ==
    {Response(kind, q, fd, s)}
        \cup (IF kind # "head" /\ s.mode = "chunked" THEN BrokenBody(q, fd, s) ELSE {})
Records == {<<[k |-> "tls"]>>, <<[k |-> "bad"]>>}
Nonsense == {<<head>> : head \in WrongHead}
\* What the peer was asked and has not answered.
Asked(fd, x) ==
    inbox[fd] = <<x>> /\ buf[fd] = <<>> /\ wire[fd] = <<>> /\ SilentIn(mail, fd)
Wanted(fd, x) == inbox[fd] = <<x>> /\ Rest(fd)
\* How far the request t has read the response R.
Taken(t) == IF t.pc = "head" THEN 0 ELSE 1 + Len(t.body)
HasRead(t, R, s) ==
    t.pc # "head" =>
        /\ t.head = Merged(t.before, R[1]) /\ t.kind # "head" /\ Taken(t) <= Len(R)
        /\ \A k \in DOMAIN t.body : t.body[k] = R[k + 1] /\ R[k + 1].k = "part"
        /\ (t.pc = "body" /\ s.mode # "chunked" => t.body = <<>>) /\ (t.pc = "stream" => t.kind = "stream")
Answering(q, fd) ==
    \E s \in Shape : \E R \in AnswersTo(task[q].kind, q, fd, s) :
        /\ IF task[q].pc = "head" THEN After(fd, R) ELSE Coming(fd, R, Taken(task[q]))
        /\ HasRead(task[q], R, s) /\ fd \in Range(served[q])
CarriesOf(q, fd) ==
    /\ task[q].pc = "connecting" <=> handler[fd] = "connecting"
    /\ task[q].pc = "handshake" <=> tls[fd] = "shaking"
    /\ task[q].pc \in {"connecting", "handshake", "head"} => task[q].body = <<>>
    /\ task[q].pc = "handshake" =>
          Asked(fd, Hello) \/ (inbox[fd] = <<>> /\ \E R \in Records : Coming(fd, R, 0))
    /\ task[q].pc = "head" =>
          \/ Wanted(fd, q)
          \/ inbox[fd] = <<>> /\ ((\E R \in Nonsense : After(fd, R)) \/ Answering(q, fd))
    /\ task[q].pc \in {"body", "stream"} => inbox[fd] = <<>> /\ Answering(q, fd)
Carried(fd, others) == \E p \in others : fd \in Range(served[p])
PoolOf(fd) ==
    /\ inbox[fd] = <<>> /\ Rest(fd)
    /\ handler[fd] # "connecting" /\ tls[fd] # "shaking" /\ Carried(fd, Task)
Carries ==
    /\ \A q \in Task, fd \in Fd : Holds(q, fd) => CarriesOf(q, fd)
    /\ \A fd \in Fd : InPool(fd) => PoolOf(fd)
-----------------------------------------------------------------------------
(* Where a request was sent, and what it was answered.                      *)
Waits(q, fd) == q \in Range(inbox[fd])
On(q, fd) == fd \in Range(served[q]) \/ Waits(q, fd)
SentOf(q) ==
    /\ task[q].pc = "idle" => task[q].body = <<>> /\ \A fd \in Fd : ~On(q, fd)
    /\ task[q].pc = "idle" \/ task[q].fromPool \/ task[q].kind = "stream" => task[q].before = NoHead
    /\ \A fd \in Fd : ~(fd \in Range(served[q]) /\ Waits(q, fd))
    /\ \A i, j \in DOMAIN served[q] : served[q][i] = served[q][j] => i = j
    /\ task[q].pc \in {"connecting", "handshake"} => ~On(q, task[q].fd) /\ ~task[q].fromPool
    /\ task[q].fromPool => Carried(task[q].fd, Task \ {q}) /\ task[q].kind # "stream"
    /\ \A fd \in Fd : On(q, fd) /\ fd # task[q].fd =>
          /\ ~task[q].fromPool /\ Carried(fd, Task \ {q}) /\ task[q].kind # "stream"
          /\ \A g \in Fd : On(q, g) /\ g # task[q].fd => g = fd
Sent == \A q \in Task : SentOf(q)
\* OwnAnswer, of the request q when it stands at t.
AnswerOf(q, t) ==
    t.pc = "done" =>
        /\ t.head.q = q /\ t.head.fd = t.fd
        /\ \A i \in DOMAIN t.body : t.body[i].q = q /\ t.body[i].fd = t.fd
        /\ t.kind # "head" /\ t.head.mode \in {"length", "chunked"} /\ t.before = NoHead =>
              \/ t.body = Parts(q, t.head.fd, t.head.n)
                          \o (IF t.head.mode = "chunked" THEN <<LastChunk(q, t.head.fd)>> ELSE <<>>)
              \/ t.kind = "stream" /\ BrokenChunk(q, t.head.fd) \in Range(t.body)
Answers == \A q \in Task : AnswerOf(q, task[q])
HttpInv ==
    HttpTypes /\ Alone /\ PoolOnce /\ Owned /\ Sockets /\ Carries /\ Sent /\ Answers
-----------------------------------------------------------------------------
(* Lemmas about what is on its way.                                         *)

LEMMA Limits ==
    /\ MaxTask \in Nat /\ MaxParts \in Nat /\ MaxPerHost \in Nat \ {0}
    /\ Key \subseteq {"http", "https"}
<1>1. MaxTask \in Nat /\ MaxParts \in Nat
  BY HttpAssumption, ZenonT(40)
<1>2. MaxPerHost \in Nat \ {0}
  BY HttpAssumption, ZenonT(40)
<1>3. Key \subseteq {"http", "https"}
  BY HttpAssumption, ZenonT(40)
<1> QED BY <1>1, <1>2, <1>3
LEMMA FlowOf ==
    ASSUME NEW fd, NEW R, NEW c, NEW b, NEW m, NEW w, NEW e, FlowBy(e, fd, R, c, b, m, w)
    PROVE  Flow(fd, R, c, b, m, w)
BY DEF Flow, FlowBy
\* One more event that brings no data to fd.
LEMMA FlowPosts ==
    ASSUME NEW fd, NEW R \in Seq(Token), NEW c \in Nat, NEW b \in Seq(Token),
           NEW m \in Seq(Message), NEW w \in Seq(Token), NEW x \in Message, ~IsData(x, fd),
           Flow(fd, R, c, b, m, w)
    PROVE  Flow(fd, R, c, b, Append(m, x), w)
<1> DEFINE n == Len(m)
           m2 == Append(m, x)
<1>1. PICK e \in [0 .. n -> 0 .. Len(R)] : FlowBy(e, fd, R, c, b, m, w)
  BY DEF Flow
<1>2. /\ n \in Nat /\ Len(m2) = n + 1 /\ m2[n + 1] = x /\ DOMAIN m = 1 .. n
      /\ DOMAIN m2 = 1 .. n + 1 /\ \A i \in 1 .. n : m2[i] = m[i]
  OBVIOUS
<1> DEFINE e2 == [i \in 0 .. n + 1 |-> IF i = n + 1 THEN e[n] ELSE e[i]]
<1> HIDE DEF n, m2
<1>3. /\ e2 \in [0 .. n + 1 -> 0 .. Len(R)] /\ e2[n + 1] = e[n]
      /\ \A i \in 0 .. n : e2[i] = e[i]
  BY <1>2
<1> HIDE DEF e2
<1>4. \A i, j \in 0 .. n : i <= j => e[i] <= e[j]
  BY <1>1 DEF FlowBy, n
<1>5. \A i, j \in 0 .. n + 1 : i <= j => e2[i] <= e2[j]
  <2>1. \A i \in 0 .. n : e[i] <= e[n]
    BY <1>2, <1>4
  <2>2. \A i \in 0 .. n + 1 : i \in 0 .. n \/ i = n + 1
    BY <1>2
  <2>3. e[n] <= e[n]
    BY <1>2, <1>4
  <2>4. \A i, j \in 0 .. n + 1 : i <= j /\ i = n + 1 => j = n + 1
    BY <1>2
  <2> QED BY <1>3, <1>4, <2>1, <2>2, <2>3, <2>4
<1>6. \A i \in 1 .. n : i - 1 \in 0 .. n /\ i \in 0 .. n /\ e2[i] = e[i] /\ e2[i - 1] = e[i - 1]
  BY <1>2, <1>3
<1>7. \A i \in 1 .. n : ~IsData(m[i], fd) => e[i] = e[i - 1]
  BY <1>1, <1>2 DEF FlowBy
<1>8. \A i \in 1 .. n : IsData(m[i], fd) =>
          /\ e[i] = e[i - 1] + Len(m[i].data) /\ m[i].data # <<>>
          /\ \A k \in DOMAIN m[i].data : m[i].data[k] = R[e[i - 1] + k]
  BY <1>1, <1>2 DEF FlowBy
<1>9. \A i \in 1 .. n + 1 : ~IsData(m2[i], fd) => e2[i] = e2[i - 1]
  <2>1. e2[n + 1] = e2[(n + 1) - 1]
    BY <1>2, <1>3
  <2>2. \A i \in 1 .. n + 1 : i \in 1 .. n \/ i = n + 1
    BY <1>2
  <2> QED BY <1>2, <1>6, <1>7, <2>1, <2>2
<1>10. \A i \in 1 .. n + 1 : IsData(m2[i], fd) =>
          /\ e2[i] = e2[i - 1] + Len(m2[i].data) /\ m2[i].data # <<>>
          /\ \A k \in DOMAIN m2[i].data : m2[i].data[k] = R[e2[i - 1] + k]
  <2> SUFFICES ASSUME NEW i \in 1 .. n + 1, IsData(m2[i], fd)
               PROVE  /\ e2[i] = e2[i - 1] + Len(m2[i].data) /\ m2[i].data # <<>>
                      /\ \A k \in DOMAIN m2[i].data : m2[i].data[k] = R[e2[i - 1] + k]
    OBVIOUS
  <2>1. i \in 1 .. n /\ m2[i] = m[i] /\ IsData(m[i], fd)
    BY <1>2
  <2> QED BY <1>6, <1>8, <2>1
<1>11. e2[0] = c + Len(b) /\ \A k \in DOMAIN b : b[k] = R[c + k]
  BY <1>1, <1>2, <1>3 DEF FlowBy
<1>12. e2[n + 1] + Len(w) <= Len(R) /\ \A k \in DOMAIN w : w[k] = R[e2[n + 1] + k]
  BY <1>1, <1>3 DEF FlowBy, n
<1>13. FlowBy(e2, fd, R, c, b, m2, w)
  BY <1>2, <1>3, <1>5, <1>9, <1>10, <1>11, <1>12 DEF FlowBy
<1> QED BY <1>13, FlowOf DEF m2
\* The first k tokens of the wire are posted.
LEMMA FlowDelivers ==
    ASSUME NEW fd, NEW R \in Seq(Token), NEW c \in Nat, NEW b \in Seq(Token),
           NEW m \in Seq(Message), NEW w \in Seq(Token), NEW x \in Message, IsData(x, fd),
           NEW k \in 1 .. Len(w), x.data = SubSeq(w, 1, k), Flow(fd, R, c, b, m, w)
    PROVE  Flow(fd, R, c, b, Append(m, x), SubSeq(w, k + 1, Len(w)))
<1> DEFINE n == Len(m)
           m2 == Append(m, x)
           w2 == SubSeq(w, k + 1, Len(w))
<1>1. PICK e \in [0 .. n -> 0 .. Len(R)] : FlowBy(e, fd, R, c, b, m, w)
  BY DEF Flow
<1>2. /\ n \in Nat /\ Len(m2) = n + 1 /\ m2[n + 1] = x /\ DOMAIN m = 1 .. n
      /\ DOMAIN m2 = 1 .. n + 1 /\ \A i \in 1 .. n : m2[i] = m[i]
  OBVIOUS
<1>a. /\ k \in Nat /\ Len(w) \in Nat /\ Len(R) \in Nat /\ k <= Len(w) /\ k > 0
      /\ w2 \in Seq(Token) /\ Len(w2) = Len(w) - k /\ DOMAIN w2 = 1 .. Len(w) - k
      /\ \A i \in DOMAIN w2 : w2[i] = w[k + i] /\ k + i \in DOMAIN w
  <2>1. k \in Nat /\ Len(w) \in Nat /\ Len(R) \in Nat /\ k <= Len(w) /\ k > 0
    OBVIOUS
  <2>2. w2 \in Seq(Token) /\ Len(w2) = Len(w) - k
    BY <2>1
  <2>3. \A i \in 1 .. Len(w) - k : w2[i] = w[k + i] /\ k + i \in DOMAIN w
    BY <2>1
  <2> QED BY <2>1, <2>2, <2>3
<1>d. /\ Len(x.data) = k /\ x.data # <<>>
      /\ \A i \in DOMAIN x.data : x.data[i] = w[i] /\ i \in DOMAIN w
  <2> DEFINE d == SubSeq(w, 1, k)
  <2>1. d \in Seq(Token) /\ Len(d) = k /\ \A i \in 1 .. k : d[i] = w[i] /\ i \in DOMAIN w
    BY <1>a
  <2>2. x.data = d
    OBVIOUS
  <2> HIDE DEF d
  <2>3. DOMAIN d = 1 .. k /\ d # <<>>
    BY <1>a, <2>1
  <2> QED BY <2>1, <2>2, <2>3
<1> DEFINE e2 == [i \in 0 .. n + 1 |-> IF i = n + 1 THEN e[n] + k ELSE e[i]]
<1> HIDE DEF n, m2, w2
<1>b. e[n] + Len(w) <= Len(R) /\ \A i \in DOMAIN w : w[i] = R[e[n] + i]
  BY <1>1 DEF FlowBy, n
<1>c. e[n] \in Nat /\ e[n] + k \in 0 .. Len(R)
  BY <1>2, <1>a, <1>b
<1>3. /\ e2 \in [0 .. n + 1 -> 0 .. Len(R)] /\ e2[n + 1] = e[n] + k
      /\ \A i \in 0 .. n : e2[i] = e[i]
  BY <1>2, <1>c
<1> HIDE DEF e2
<1>4. \A i, j \in 0 .. n : i <= j => e[i] <= e[j]
  BY <1>1 DEF FlowBy, n
<1>5. \A i, j \in 0 .. n + 1 : i <= j => e2[i] <= e2[j]
  <2>0. n \in 0 .. n /\ \A i \in 0 .. n : i <= n /\ e[i] \in 0 .. Len(R)
    BY <1>2
  <2>1. \A i \in 0 .. n : e[i] <= e[n] /\ e[i] \in Nat
    BY <1>4, <1>a, <2>0
  <2>2. \A i \in 0 .. n + 1 : i \in 0 .. n \/ i = n + 1
    BY <1>2
  <2>3. \A i \in 0 .. n : e2[i] <= e[n] + k
    BY <1>3, <1>a, <1>c, <2>1, SMTT(40)
  <2>4. \A i, j \in 0 .. n + 1 : i <= j /\ i = n + 1 => j = n + 1
    BY <1>2
  <2>5. e2[n + 1] <= e2[n + 1]
    BY <1>3, <1>c
  <2> QED BY <1>3, <1>4, <2>2, <2>3, <2>4, <2>5
<1>6. \A i \in 1 .. n : i - 1 \in 0 .. n /\ i \in 0 .. n /\ e2[i] = e[i] /\ e2[i - 1] = e[i - 1]
  BY <1>2, <1>3
<1>7. \A i \in 1 .. n : ~IsData(m[i], fd) => e[i] = e[i - 1]
  BY <1>1, <1>2 DEF FlowBy
<1>8. \A i \in 1 .. n : IsData(m[i], fd) =>
          /\ e[i] = e[i - 1] + Len(m[i].data) /\ m[i].data # <<>>
          /\ \A j \in DOMAIN m[i].data : m[i].data[j] = R[e[i - 1] + j]
  BY <1>1, <1>2 DEF FlowBy
<1>9. \A i \in 1 .. n + 1 : ~IsData(m2[i], fd) => e2[i] = e2[i - 1]
  <2>1. \A i \in 1 .. n + 1 : ~IsData(m2[i], fd) => i \in 1 .. n
    BY <1>2
  <2> QED BY <1>2, <1>6, <1>7, <2>1
<1>10. \A i \in 1 .. n + 1 : IsData(m2[i], fd) =>
          /\ e2[i] = e2[i - 1] + Len(m2[i].data) /\ m2[i].data # <<>>
          /\ \A j \in DOMAIN m2[i].data : m2[i].data[j] = R[e2[i - 1] + j]
  <2>1. \A i \in 1 .. n + 1 : i \in 1 .. n \/ i = n + 1
    BY <1>2
  <2>2. e2[(n + 1) - 1] = e[n]
    BY <1>2, <1>3
  <2>3. e2[n + 1] = e2[(n + 1) - 1] + Len(m2[n + 1].data)
    BY <1>2, <1>3, <1>d, <2>2
  <2>4. m2[n + 1].data # <<>>
        /\ \A j \in DOMAIN m2[n + 1].data : m2[n + 1].data[j] = R[e2[(n + 1) - 1] + j]
    BY <1>2, <1>b, <1>d, <2>2
  <2>5. \A i \in 1 .. n : IsData(m2[i], fd) =>
            /\ e2[i] = e2[i - 1] + Len(m2[i].data) /\ m2[i].data # <<>>
            /\ \A j \in DOMAIN m2[i].data : m2[i].data[j] = R[e2[i - 1] + j]
    <3> SUFFICES ASSUME NEW i \in 1 .. n, IsData(m2[i], fd)
                 PROVE  /\ e2[i] = e2[i - 1] + Len(m2[i].data) /\ m2[i].data # <<>>
                        /\ \A j \in DOMAIN m2[i].data : m2[i].data[j] = R[e2[i - 1] + j]
      OBVIOUS
    <3>1. m2[i] = m[i] /\ IsData(m[i], fd)
      BY <1>2
    <3> QED BY <1>6, <1>8, <3>1
  <2> QED BY <2>1, <2>3, <2>4, <2>5
<1>11. e2[0] = c + Len(b) /\ \A j \in DOMAIN b : b[j] = R[c + j]
  <2>1. e[0] = c + Len(b) /\ \A j \in DOMAIN b : b[j] = R[c + j]
    BY <1>1 DEF FlowBy
  <2> QED BY <1>2, <1>3, <2>1
<1>12. e2[n + 1] + Len(w2) <= Len(R) /\ \A j \in DOMAIN w2 : w2[j] = R[e2[n + 1] + j]
  <2>1. e2[n + 1] + Len(w2) <= Len(R)
    BY <1>3, <1>a, <1>b, <1>c
  <2>2. ASSUME NEW j \in DOMAIN w2 PROVE w2[j] = R[e2[n + 1] + j]
    <3>1. w2[j] = R[e[n] + (k + j)]
      BY <1>a, <1>b
    <3>2. e[n] + (k + j) = e2[n + 1] + j
      BY <1>3, <1>a, <1>c
    <3> QED BY <3>1, <3>2
  <2> QED BY <2>1, <2>2
<1>13. FlowBy(e2, fd, R, c, b, m2, w2)
  BY <1>2, <1>3, <1>5, <1>9, <1>10, <1>11, <1>12 DEF FlowBy
<1> QED BY <1>13, FlowOf DEF m2, w2
\* The event at the head of the mailbox is handled: another's, or its data are
\* fed to the reader.
LEMMA FlowShifts ==
    ASSUME NEW fd, NEW R \in Seq(Token), NEW c \in Nat, NEW b \in Seq(Token),
           NEW m \in Seq(Message), m # <<>>, NEW w \in Seq(Token), NEW b2 \in Seq(Token),
           NEW e, FlowBy(e, fd, R, c, b, m, w), e[1] = c + Len(b2),
           \A k \in DOMAIN b2 : b2[k] = R[c + k]
    PROVE  Flow(fd, R, c, b2, Tail(m), w)
<1> DEFINE n == Len(m) - 1
           m2 == Tail(m)
           e2 == [i \in 0 .. n |-> e[i + 1]]
<1>1. /\ n \in Nat /\ Len(m) = n + 1 /\ DOMAIN m = 1 .. n + 1
      /\ m2 \in Seq(Message) /\ Len(m2) = n /\ DOMAIN m2 = 1 .. n
      /\ \A i \in 1 .. n : m2[i] = m[i + 1] /\ i + 1 \in 1 .. n + 1
  OBVIOUS
<1>2. /\ e \in [0 .. n + 1 -> 0 .. Len(R)]
      /\ \A i, j \in 0 .. n + 1 : i <= j => e[i] <= e[j]
  BY <1>1 DEF FlowBy
<1>3. e2 \in [0 .. n -> 0 .. Len(R)] /\ \A i \in 0 .. n : e2[i] = e[i + 1] /\ i + 1 \in 0 .. n + 1
  BY <1>1, <1>2
<1>4. \A i \in 1 .. n + 1 : ~IsData(m[i], fd) => e[i] = e[i - 1]
  BY <1>1 DEF FlowBy
<1>5. \A i \in 1 .. n + 1 : IsData(m[i], fd) =>
          /\ e[i] = e[i - 1] + Len(m[i].data) /\ m[i].data # <<>>
          /\ \A k \in DOMAIN m[i].data : m[i].data[k] = R[e[i - 1] + k]
  BY <1>1 DEF FlowBy
<1>6. e[n + 1] + Len(w) <= Len(R) /\ \A k \in DOMAIN w : w[k] = R[e[n + 1] + k]
  BY <1>1 DEF FlowBy
<1> HIDE DEF n, m2, e2
<1>7. \A i, j \in 0 .. n : i <= j => e2[i] <= e2[j]
  <2> SUFFICES ASSUME NEW i \in 0 .. n, NEW j \in 0 .. n, i <= j PROVE e2[i] <= e2[j]
    OBVIOUS
  <2>1. i + 1 \in 0 .. n + 1 /\ j + 1 \in 0 .. n + 1 /\ i + 1 <= j + 1
    BY <1>1
  <2> QED BY <1>2, <1>3, <2>1
<1>8. e2[0] = c + Len(b2) /\ e2[n] = e[n + 1]
  <2>1. 0 \in 0 .. n /\ n \in 0 .. n /\ 0 + 1 = 1
    BY <1>1
  <2> QED BY <1>3, <2>1
<1>9. \A i \in 1 .. n : /\ i \in 0 .. n /\ i - 1 \in 0 .. n /\ e2[i] = e[i + 1] /\ e2[i - 1] = e[i]
                        /\ (i + 1) - 1 = i
  <2> SUFFICES ASSUME NEW i \in 1 .. n
               PROVE  /\ i \in 0 .. n /\ i - 1 \in 0 .. n /\ e2[i] = e[i + 1] /\ e2[i - 1] = e[i]
                      /\ (i + 1) - 1 = i
    OBVIOUS
  <2>1. i \in 0 .. n /\ i - 1 \in 0 .. n /\ (i + 1) - 1 = i /\ (i - 1) + 1 = i
    BY <1>1
  <2> QED BY <1>3, <2>1
<1>10. \A i \in 1 .. n : ~IsData(m2[i], fd) => e2[i] = e2[i - 1]
  <2> SUFFICES ASSUME NEW i \in 1 .. n, ~IsData(m2[i], fd) PROVE e2[i] = e2[i - 1]
    OBVIOUS
  <2>1. i + 1 \in 1 .. n + 1 /\ ~IsData(m[i + 1], fd) /\ (i + 1) - 1 = i
    BY <1>1, <1>9
  <2> QED BY <1>4, <1>9, <2>1
<1>11. \A i \in 1 .. n : IsData(m2[i], fd) =>
          /\ e2[i] = e2[i - 1] + Len(m2[i].data) /\ m2[i].data # <<>>
          /\ \A k \in DOMAIN m2[i].data : m2[i].data[k] = R[e2[i - 1] + k]
  <2> SUFFICES ASSUME NEW i \in 1 .. n, IsData(m2[i], fd)
               PROVE  /\ e2[i] = e2[i - 1] + Len(m2[i].data) /\ m2[i].data # <<>>
                      /\ \A k \in DOMAIN m2[i].data : m2[i].data[k] = R[e2[i - 1] + k]
    OBVIOUS
  <2>1. i + 1 \in 1 .. n + 1 /\ m2[i] = m[i + 1] /\ (i + 1) - 1 = i
    BY <1>1, <1>9
  <2>2. /\ e[i + 1] = e[i] + Len(m[i + 1].data) /\ m[i + 1].data # <<>>
        /\ \A k \in DOMAIN m[i + 1].data : m[i + 1].data[k] = R[e[i] + k]
    BY <1>5, <2>1
  <2> QED BY <1>9, <2>1, <2>2
<1>12. FlowBy(e2, fd, R, c, b2, m2, w)
  BY <1>1, <1>3, <1>6, <1>7, <1>8, <1>10, <1>11 DEF FlowBy
<1> QED BY <1>12, FlowOf DEF m2
LEMMA FlowPasses ==
    ASSUME NEW fd, NEW R \in Seq(Token), NEW c \in Nat, NEW b \in Seq(Token),
           NEW m \in Seq(Message), m # <<>>, NEW w \in Seq(Token), ~IsData(Head(m), fd),
           Flow(fd, R, c, b, m, w)
    PROVE  Flow(fd, R, c, b, Tail(m), w)
<1>1. PICK e \in [0 .. Len(m) -> 0 .. Len(R)] : FlowBy(e, fd, R, c, b, m, w)
  BY DEF Flow
<1>2. 1 \in DOMAIN m /\ m[1] = Head(m) /\ 1 - 1 = 0
  OBVIOUS
<1>3. e[1] = e[1 - 1] /\ e[0] = c + Len(b) /\ \A k \in DOMAIN b : b[k] = R[c + k]
  BY <1>1, <1>2 DEF FlowBy
<1> QED BY <1>1, <1>2, <1>3, FlowShifts
LEMMA FlowFeeds ==
    ASSUME NEW fd, NEW R \in Seq(Token), NEW c \in Nat, NEW b \in Seq(Token),
           NEW m \in Seq(Message), m # <<>>, NEW w \in Seq(Token), IsData(Head(m), fd),
           Flow(fd, R, c, b, m, w)
    PROVE  /\ Flow(fd, R, c, b \o Head(m).data, Tail(m), w)
           /\ Head(m).data # <<>> /\ c + Len(b) + Len(Head(m).data) <= Len(R)
           /\ \A k \in DOMAIN Head(m).data : Head(m).data[k] = R[c + Len(b) + k]
<1> DEFINE d == Head(m).data
           b2 == b \o d
<1>1. PICK e \in [0 .. Len(m) -> 0 .. Len(R)] : FlowBy(e, fd, R, c, b, m, w)
  BY DEF Flow
<1>2. 1 \in DOMAIN m /\ m[1] = Head(m) /\ 1 - 1 = 0 /\ 1 \in 0 .. Len(m) /\ Head(m) \in Message
  OBVIOUS
<1>3. d \in Seq(Token) /\ Len(d) \in Nat /\ Len(b) \in Nat
  BY <1>2 DEF Message
<1>4. e[0] = c + Len(b) /\ \A k \in DOMAIN b : b[k] = R[c + k]
  BY <1>1 DEF FlowBy
<1>5. e[1] = e[1 - 1] + Len(d) /\ d # <<>> /\ \A k \in DOMAIN d : d[k] = R[e[1 - 1] + k]
  <2>1. \A i \in DOMAIN m : IsData(m[i], fd) =>
          /\ e[i] = e[i - 1] + Len(m[i].data) /\ m[i].data # <<>>
          /\ \A k \in DOMAIN m[i].data : m[i].data[k] = R[e[i - 1] + k]
    BY <1>1 DEF FlowBy
  <2>2. IsData(m[1], fd) /\ m[1].data = d
    BY <1>2
  <2> HIDE DEF d
  <2> QED BY <1>2, <2>1, <2>2
<1>6. e[1] = c + Len(b) + Len(d) /\ \A k \in DOMAIN d : d[k] = R[c + Len(b) + k]
  BY <1>2, <1>4, <1>5
<1>7. e[1] <= Len(R)
  BY <1>2
<1>8. b2 \in Seq(Token) /\ Len(b2) = Len(b) + Len(d)
  BY <1>3
<1>9. ASSUME NEW k \in DOMAIN b2 PROVE b2[k] = R[c + k]
  <2>1. CASE k <= Len(b)
    BY <1>3, <1>4, <2>1
  <2>2. CASE k > Len(b)
    <3>0. DOMAIN d = 1 .. Len(d) /\ DOMAIN b2 = 1 .. Len(b) + Len(d) /\ k \in Nat
      BY <1>3, <1>8
    <3>1. k - Len(b) \in DOMAIN d
      BY <1>3, <2>2, <3>0
    <3>3. b2[k] = d[k - Len(b)]
      <4> HIDE DEF d
      <4> QED BY <1>3, <2>2, <3>0
    <3>2. c + Len(b) + (k - Len(b)) = c + k
      BY <1>3
    <3> QED BY <1>6, <3>1, <3>2, <3>3
  <2> QED BY <1>3, <1>8, <2>1, <2>2
<1> HIDE DEF b2, d
<1>10. e[1] = c + Len(b2)
  BY <1>3, <1>6, <1>8
<1>11. Flow(fd, R, c, b2, Tail(m), w)
  BY <1>1, <1>8, <1>9, <1>10, FlowShifts
<1> QED BY <1>3, <1>5, <1>6, <1>7, <1>11 DEF b2, d
\* The reader has given k tokens.
LEMMA FlowTaken ==
    ASSUME NEW fd, NEW R \in Seq(Token), NEW c \in Nat, NEW b \in Seq(Token),
           NEW m \in Seq(Message), NEW w \in Seq(Token), NEW k \in 0 .. Len(b),
           Flow(fd, R, c, b, m, w)
    PROVE  /\ Flow(fd, R, c + k, SubSeq(b, k + 1, Len(b)), m, w)
           /\ c + Len(b) <= Len(R) /\ \A j \in DOMAIN b : b[j] = R[c + j]
<1> DEFINE b2 == SubSeq(b, k + 1, Len(b))
<1>1. PICK e \in [0 .. Len(m) -> 0 .. Len(R)] : FlowBy(e, fd, R, c, b, m, w)
  BY DEF Flow
<1>2. e[0] = c + Len(b) /\ \A j \in DOMAIN b : b[j] = R[c + j]
  BY <1>1 DEF FlowBy
<1>3. k \in Nat /\ Len(b) \in Nat /\ k <= Len(b) /\ 0 \in 0 .. Len(m) /\ Len(R) \in Nat
  OBVIOUS
<1>4. /\ b2 \in Seq(Token) /\ Len(b2) = Len(b) - k /\ DOMAIN b2 = 1 .. Len(b) - k
      /\ \A j \in 1 .. Len(b) - k : b2[j] = b[k + j] /\ k + j \in DOMAIN b
  <2>1. b2 \in Seq(Token) /\ Len(b2) = Len(b) - k
    BY <1>3
  <2>2. \A j \in 1 .. Len(b) - k : b2[j] = b[k + j] /\ k + j \in DOMAIN b
    BY <1>3
  <2> QED BY <2>1, <2>2
<1> HIDE DEF b2
<1>5. e[0] = c + k + Len(b2)
  BY <1>2, <1>3, <1>4
<1>6. ASSUME NEW j \in DOMAIN b2 PROVE b2[j] = R[c + k + j]
  <2>0. j \in 1 .. Len(b) - k
    BY <1>4
  <2>1. j \in Nat /\ b2[j] = b[k + j] /\ k + j \in DOMAIN b
    BY <1>4, <2>0
  <2>2. b[k + j] = R[c + (k + j)]
    BY <1>2, <2>1
  <2>3. c + (k + j) = c + k + j
    BY <1>3, <2>1
  <2> QED BY <2>1, <2>2, <2>3
<1>7. FlowBy(e, fd, R, c + k, b2, m, w)
  BY <1>1, <1>5, <1>6 DEF FlowBy
<1>8. Flow(fd, R, c + k, b2, m, w)
  BY <1>7, FlowOf
<1>9. c + Len(b) <= Len(R)
  BY <1>2, <1>3
<1> QED BY <1>2, <1>8, <1>9 DEF b2
\* The end of what is on the wire is lost.
LEMMA FlowCut ==
    ASSUME NEW fd, NEW R \in Seq(Token), NEW c \in Nat, NEW b \in Seq(Token),
           NEW m \in Seq(Message), NEW w \in Seq(Token), NEW k \in 0 .. Len(w),
           Flow(fd, R, c, b, m, w)
    PROVE  Flow(fd, R, c, b, m, SubSeq(w, 1, k))
<1> DEFINE w2 == SubSeq(w, 1, k)
<1>1. PICK e \in [0 .. Len(m) -> 0 .. Len(R)] : FlowBy(e, fd, R, c, b, m, w)
  BY DEF Flow
<1>2. /\ w2 \in Seq(Token) /\ Len(w2) = k /\ k <= Len(w) /\ k \in Nat /\ Len(w) \in Nat
      /\ \A j \in 1 .. k : w2[j] = w[j] /\ j \in DOMAIN w
  <2>1. k <= Len(w) /\ k \in Nat /\ Len(w) \in Nat
    OBVIOUS
  <2>2. w2 \in Seq(Token) /\ Len(w2) = k
    BY <2>1
  <2>3. \A j \in 1 .. k : w2[j] = w[j] /\ j \in DOMAIN w
    BY <2>1
  <2> QED BY <2>1, <2>2, <2>3
<1>3. e[Len(m)] + Len(w) <= Len(R) /\ \A j \in DOMAIN w : w[j] = R[e[Len(m)] + j]
  BY <1>1 DEF FlowBy
<1>4. e[Len(m)] \in Nat /\ Len(R) \in Nat
  <2>1. Len(m) \in 0 .. Len(m) /\ Len(R) \in Nat
    OBVIOUS
  <2>2. e[Len(m)] \in 0 .. Len(R)
    BY <2>1
  <2> QED BY <2>1, <2>2
<1> HIDE DEF w2
<1>5. e[Len(m)] + Len(w2) <= Len(R)
  BY <1>2, <1>3, <1>4
<1>6. \A j \in DOMAIN w2 : w2[j] = R[e[Len(m)] + j]
  <2>1. DOMAIN w2 = 1 .. k
    BY <1>2
  <2> QED BY <1>2, <1>3, <2>1
<1>7. FlowBy(e, fd, R, c, b, m, w2)
  BY <1>1, <1>5, <1>6 DEF FlowBy
<1>8. Flow(fd, R, c, b, m, w2)
  BY <1>7, FlowOf
<1> QED BY <1>8 DEF w2
\* Nothing is underway but what the wire has.
LEMMA FlowStarts ==
    ASSUME NEW fd, NEW R \in Seq(Token), NEW m \in Seq(Message), NEW w \in Seq(Token),
           SilentIn(m, fd), Len(w) <= Len(R), \A k \in DOMAIN w : w[k] = R[k]
    PROVE  Flow(fd, R, 0, <<>>, m, w)
<1> DEFINE e == [i \in 0 .. Len(m) |-> 0]
<1>1. e \in [0 .. Len(m) -> 0 .. Len(R)]
  OBVIOUS
<1>2. Len(m) \in Nat /\ DOMAIN m = 1 .. Len(m) /\ \A i \in 0 .. Len(m) : e[i] = 0
  OBVIOUS
<1> HIDE DEF e
<1>3. \A i, j \in 0 .. Len(m) : i <= j => e[i] <= e[j]
  BY <1>2
<1> DEFINE none == <<>>
<1>0. none \in Seq(Token) /\ Len(none) = 0 /\ DOMAIN none = {}
  OBVIOUS
<1> HIDE DEF none
<1>4. e[0] = 0 + Len(none) /\ \A k \in DOMAIN none : none[k] = R[0 + k]
  BY <1>2, <1>0
<1>5. \A i \in DOMAIN m : e[i] = e[i - 1] /\ ~IsData(m[i], fd)
  <2>1. \A i \in 1 .. Len(m) : i \in 0 .. Len(m) /\ i - 1 \in 0 .. Len(m)
    BY <1>2
  <2> QED BY <1>2, <2>1 DEF SilentIn
<1>6. Len(m) \in 0 .. Len(m) /\ e[Len(m)] = 0
  BY <1>2
<1>7. e[Len(m)] + Len(w) <= Len(R)
  BY <1>6
<1>8. \A k \in DOMAIN w : w[k] = R[e[Len(m)] + k]
  <2>1. \A k \in DOMAIN w : 0 + k = k
    OBVIOUS
  <2> QED BY <1>6, <2>1
<1>9. FlowBy(e, fd, R, 0, none, m, w)
  BY <1>1, <1>3, <1>4, <1>5, <1>7, <1>8 DEF FlowBy
<1>10. Flow(fd, R, 0, none, m, w)
  BY <1>9, FlowOf
<1> QED BY <1>10 DEF none
\* All of R is read: nothing of fd is left.
LEMMA FlowDone ==
    ASSUME NEW fd, NEW R \in Seq(Token), NEW b \in Seq(Token),
           NEW m \in Seq(Message), NEW w \in Seq(Token), NEW c \in Nat, c = Len(R),
           Flow(fd, R, c, b, m, w)
    PROVE  b = <<>> /\ w = <<>> /\ SilentIn(m, fd)
<1>1. PICK e \in [0 .. Len(m) -> 0 .. Len(R)] : FlowBy(e, fd, R, c, b, m, w)
  BY DEF Flow
<1>2. /\ Len(m) \in Nat /\ DOMAIN m = 1 .. Len(m) /\ Len(R) \in Nat /\ Len(b) \in Nat
      /\ Len(w) \in Nat /\ 0 \in 0 .. Len(m) /\ Len(m) \in 0 .. Len(m)
  OBVIOUS
<1>3. e[0] = c + Len(b) /\ \A i, j \in 0 .. Len(m) : i <= j => e[i] <= e[j]
  BY <1>1 DEF FlowBy
<1>4. Len(b) = 0 /\ e[0] = Len(R)
  <2>1. e[0] \in Nat /\ e[0] <= Len(R)
    BY SMTT(20), <1>2
  <2>2. e[0] = Len(R) + Len(b)
    BY <1>3
  <2> QED BY <1>2, <2>1, <2>2
<1>5. ASSUME NEW i \in 0 .. Len(m) PROVE e[i] = Len(R)
  <2>1. e[i] <= Len(R) /\ e[i] \in Nat
    BY SMTT(20), <1>2
  <2>2. e[0] <= e[i]
    BY <1>2, <1>3
  <2> QED BY <1>2, <1>4, <2>1, <2>2
<1>6. e[Len(m)] + Len(w) <= Len(R)
  BY <1>1 DEF FlowBy
<1>7. Len(w) = 0
  BY <1>2, <1>5, <1>6
<1>8. ASSUME NEW i \in DOMAIN m, IsData(m[i], fd) PROVE FALSE
  <2>1. e[i] = e[i - 1] + Len(m[i].data) /\ m[i].data # <<>>
    BY <1>1, <1>8 DEF FlowBy
  <2>2. i \in 0 .. Len(m) /\ i - 1 \in 0 .. Len(m)
    BY <1>2
  <2>3. m[i] \in Message
    OBVIOUS
  <2>4. m[i].data \in Seq(Token) /\ Len(m[i].data) \in Nat
    BY <2>3 DEF Message
  <2>5. Len(m[i].data) > 0
    BY <2>1, <2>4
  <2> QED BY <1>2, <1>5, <2>1, <2>2, <2>4, <2>5
<1> QED BY <1>4, <1>7, <1>8 DEF SilentIn
LEMMA Joined ==
    ASSUME NEW T, NEW a \in Seq(T), NEW b \in Seq(T)
    PROVE  /\ a \o b \in Seq(T) /\ Len(a \o b) = Len(a) + Len(b)
           /\ \A i \in DOMAIN a : (a \o b)[i] = a[i] /\ i \in DOMAIN (a \o b)
           /\ \A i \in DOMAIN b : (a \o b)[Len(a) + i] = b[i] /\ Len(a) + i \in DOMAIN (a \o b)
<1>1. /\ Len(a) \in Nat /\ Len(b) \in Nat /\ DOMAIN a = 1 .. Len(a) /\ DOMAIN b = 1 .. Len(b)
  OBVIOUS
<1>2. a \o b \in Seq(T) /\ Len(a \o b) = Len(a) + Len(b)
  OBVIOUS
<1>3. DOMAIN (a \o b) = 1 .. Len(a) + Len(b)
  BY <1>2
<1>4. ASSUME NEW i \in 1 .. Len(a) PROVE (a \o b)[i] = a[i] /\ i \in 1 .. Len(a) + Len(b)
  BY <1>1
<1>5. ASSUME NEW i \in 1 .. Len(b)
      PROVE  (a \o b)[Len(a) + i] = b[i] /\ Len(a) + i \in 1 .. Len(a) + Len(b)
  <2>1. Len(a) + i \in 1 .. Len(a) + Len(b) /\ Len(a) + i > Len(a) /\ (Len(a) + i) - Len(a) = i
    BY <1>1
  <2> QED BY <1>1, <2>1
<1> QED BY <1>1, <1>2, <1>3, <1>4, <1>5
\* What is left of R after its first c tokens, as a sequence of its own.
LEMMA FlowRest ==
    ASSUME NEW fd, NEW R \in Seq(Token), NEW c \in 0 .. Len(R), NEW b \in Seq(Token),
           NEW m \in Seq(Message), NEW w \in Seq(Token), Flow(fd, R, c, b, m, w)
    PROVE  Flow(fd, SubSeq(R, c + 1, Len(R)), 0, b, m, w)
<1> DEFINE n == Len(m)
           S == SubSeq(R, c + 1, Len(R))
           e2(e) == [i \in 0 .. n |-> e[i] - c]
<1>1. PICK e \in [0 .. n -> 0 .. Len(R)] : FlowBy(e, fd, R, c, b, m, w)
  BY DEF Flow
<1>2. n \in Nat /\ DOMAIN m = 1 .. n /\ c \in Nat /\ Len(R) \in Nat /\ c <= Len(R)
  OBVIOUS
<1>3. /\ S \in Seq(Token) /\ Len(S) = Len(R) - c /\ \A j \in 1 .. Len(R) - c : S[j] = R[c + j]
  <2>1. S \in Seq(Token) /\ Len(S) = Len(R) - c
    BY <1>2
  <2>2. \A j \in 1 .. Len(R) - c : S[j] = R[c + j]
    BY <1>2
  <2> QED BY <2>1, <2>2
<1> DEFINE f == e2(e)
<1>4. \A i \in 0 .. n : f[i] = e[i] - c
  OBVIOUS
<1>5. e[0] = c + Len(b) /\ \A k \in DOMAIN b : b[k] = R[c + k]
  BY <1>1 DEF FlowBy
<1>6. \A i, j \in 0 .. n : i <= j => e[i] <= e[j]
  BY <1>1 DEF FlowBy, n
<1>7. ASSUME NEW i \in 0 .. n PROVE e[i] \in Nat /\ e[i] >= c /\ e[i] <= Len(R)
  <2>1. e[0] <= e[i] /\ e[i] \in 0 .. Len(R) /\ Len(b) \in Nat
    BY <1>2, <1>6
  <2> QED BY <1>2, <1>5, <2>1
<1>8. f \in [0 .. n -> 0 .. Len(S)]
  <2>1. \A i \in 0 .. n : e[i] - c \in 0 .. Len(S)
    BY <1>2, <1>3, <1>7
  <2> QED BY <2>1
<1>9. \A i \in 1 .. n : ~IsData(m[i], fd) => e[i] = e[i - 1]
  BY <1>1, <1>2 DEF FlowBy
<1>10. \A i \in 1 .. n : IsData(m[i], fd) =>
          /\ e[i] = e[i - 1] + Len(m[i].data) /\ m[i].data # <<>>
          /\ \A k \in DOMAIN m[i].data : m[i].data[k] = R[e[i - 1] + k]
  BY <1>1, <1>2 DEF FlowBy
<1>11. e[n] + Len(w) <= Len(R) /\ \A k \in DOMAIN w : w[k] = R[e[n] + k]
  BY <1>1 DEF FlowBy, n
<1> HIDE DEF f, S, n
<1>12. \A i, j \in 0 .. n : i <= j => f[i] <= f[j]
  <2> SUFFICES ASSUME NEW i \in 0 .. n, NEW j \in 0 .. n, i <= j PROVE f[i] <= f[j]
    OBVIOUS
  <2>1. e[i] <= e[j] /\ e[i] \in Nat /\ e[j] \in Nat
    BY <1>6, <1>7
  <2> QED BY <1>2, <1>4, <2>1
<1>13. f[0] = 0 + Len(b) /\ \A k \in DOMAIN b : b[k] = S[0 + k]
  <2>0. 0 \in 0 .. n /\ Len(b) \in Nat /\ DOMAIN b = 1 .. Len(b)
    BY <1>2
  <2>1. f[0] = Len(b) /\ c + Len(b) <= Len(R)
    BY <1>2, <1>4, <1>5, <1>7, <2>0
  <2>2. ASSUME NEW k \in DOMAIN b PROVE b[k] = S[0 + k]
    <3>1. k \in 1 .. Len(R) - c /\ 0 + k = k
      BY <1>2, <2>0, <2>1
    <3> QED BY <1>3, <1>5, <3>1
  <2>3. f[0] = 0 + Len(b)
    BY <2>0, <2>1
  <2> QED BY <2>2, <2>3
<1>14. ASSUME NEW i \in 1 .. n
       PROVE  i \in 0 .. n /\ i - 1 \in 0 .. n /\ f[i] = e[i] - c /\ f[i - 1] = e[i - 1] - c
  <2>1. i \in 0 .. n /\ i - 1 \in 0 .. n
    BY <1>2
  <2> QED BY <1>4, <2>1
<1>15. \A i \in 1 .. n : ~IsData(m[i], fd) => f[i] = f[i - 1]
  BY <1>9, <1>14
<1>16. \A i \in 1 .. n : IsData(m[i], fd) =>
          /\ f[i] = f[i - 1] + Len(m[i].data) /\ m[i].data # <<>>
          /\ \A k \in DOMAIN m[i].data : m[i].data[k] = S[f[i - 1] + k]
  <2> SUFFICES ASSUME NEW i \in 1 .. n, IsData(m[i], fd)
               PROVE  /\ f[i] = f[i - 1] + Len(m[i].data) /\ m[i].data # <<>>
                      /\ \A k \in DOMAIN m[i].data : m[i].data[k] = S[f[i - 1] + k]
    OBVIOUS
  <2>1. PICK d : d = m[i].data
    OBVIOUS
  <2>2. m[i] \in Message
    BY <1>2
  <2>3. d \in Seq(Token) /\ Len(d) \in Nat /\ DOMAIN d = 1 .. Len(d)
    BY <2>1, <2>2 DEF Message
  <2>4. e[i] = e[i - 1] + Len(d) /\ d # <<>> /\ \A k \in DOMAIN d : d[k] = R[e[i - 1] + k]
    BY <1>10, <2>1
  <2>5. /\ e[i] \in Nat /\ e[i] >= c /\ e[i] <= Len(R) /\ e[i - 1] \in Nat /\ e[i - 1] >= c
    BY <1>7, <1>14
  <2>a. PICK x, y : x = e[i] /\ y = e[i - 1]
    OBVIOUS
  <2>b. /\ x \in Nat /\ x >= c /\ x <= Len(R) /\ y \in Nat /\ y >= c /\ x = y + Len(d)
        /\ f[i] = x - c /\ f[i - 1] = y - c
    BY <1>14, <2>4, <2>5, <2>a
  <2>6. f[i] = f[i - 1] + Len(d)
    BY <1>2, <2>3, <2>b
  <2>7. ASSUME NEW k \in DOMAIN d PROVE d[k] = S[f[i - 1] + k]
    <3>1. k \in Nat /\ k >= 1 /\ k <= Len(d)
      BY <2>3
    <3>a. PICK l, r : l = Len(d) /\ r = Len(R)
      OBVIOUS
    <3>b. /\ l \in Nat /\ r \in Nat /\ y \in Nat /\ y >= c /\ y + l <= r /\ c \in Nat /\ k <= l
          /\ k \in Nat /\ k >= 1
      BY <1>2, <2>3, <2>b, <3>1, <3>a
    <3>c. (y - c) + k \in 1 .. r - c /\ c + ((y - c) + k) = y + k
      BY ONLY <3>b
    <3>2. f[i - 1] + k \in 1 .. Len(R) - c /\ c + (f[i - 1] + k) = y + k
      BY <2>b, <3>a, <3>c
    <3>3. c + (f[i - 1] + k) = e[i - 1] + k
      BY <2>a, <3>2
    <3> QED BY <1>3, <2>4, <3>2, <3>3
  <2> QED BY <2>1, <2>4, <2>6, <2>7
<1>17. f[n] + Len(w) <= Len(S) /\ \A k \in DOMAIN w : w[k] = S[f[n] + k]
  <2>0. n \in 0 .. n /\ Len(w) \in Nat /\ DOMAIN w = 1 .. Len(w)
    BY <1>2
  <2>1. f[n] = e[n] - c /\ e[n] \in Nat /\ e[n] >= c
    BY <1>4, <1>7, <2>0
  <2>2. f[n] + Len(w) <= Len(S)
    BY <1>2, <1>3, <1>11, <2>0, <2>1
  <2>3. ASSUME NEW k \in DOMAIN w PROVE w[k] = S[f[n] + k]
    <3>1. k \in Nat /\ k >= 1 /\ k <= Len(w)
      BY <2>0
    <3>2. f[n] + k \in 1 .. Len(R) - c /\ c + (f[n] + k) = e[n] + k
      BY <1>2, <1>11, <2>0, <2>1, <3>1
    <3> QED BY <1>3, <1>11, <3>2
  <2> QED BY <2>2, <2>3
<1>18. FlowBy(f, fd, S, 0, b, m, w)
  BY <1>2, <1>8, <1>12, <1>13, <1>15, <1>16, <1>17 DEF FlowBy, n
<1> QED BY <1>18, FlowOf DEF S
Begins(w, R) == Len(w) <= Len(R) /\ \A k \in DOMAIN w : w[k] = R[k]
\* The peer adds the first tokens of R to a wire that has the end of L, or as
\* much of it as still comes.
LEMMA FlowJoined ==
    ASSUME NEW fd, NEW L \in Seq(Token), NEW R \in Seq(Token), NEW b \in Seq(Token),
           NEW m \in Seq(Message), NEW w \in Seq(Token), NEW v \in Seq(Token), Begins(v, R),
           Flow(fd, L, 0, b, m, w)
    PROVE  \E k \in 0 .. Len(L) : Flow(fd, SubSeq(L, 1, k) \o R, 0, b, m, w \o v)
<1> DEFINE n == Len(m)
<1>1. PICK e \in [0 .. n -> 0 .. Len(L)] : FlowBy(e, fd, L, 0, b, m, w)
  BY DEF Flow
<1>2. /\ n \in Nat /\ DOMAIN m = 1 .. n /\ Len(L) \in Nat /\ n \in 0 .. n /\ 0 \in 0 .. n
      /\ Len(w) \in Nat /\ DOMAIN w = 1 .. Len(w) /\ Len(v) \in Nat /\ DOMAIN v = 1 .. Len(v)
      /\ Len(b) \in Nat /\ DOMAIN b = 1 .. Len(b) /\ Len(R) \in Nat
  OBVIOUS
<1>3. e[n] + Len(w) <= Len(L) /\ \A j \in DOMAIN w : w[j] = L[e[n] + j]
  BY <1>1 DEF FlowBy, n
<1>4. \A i, j \in 0 .. n : i <= j => e[i] <= e[j]
  BY <1>1 DEF FlowBy, n
<1>5. e[0] = 0 + Len(b) /\ \A j \in DOMAIN b : b[j] = L[0 + j]
  BY <1>1 DEF FlowBy
<1>6. \A i \in 1 .. n : ~IsData(m[i], fd) => e[i] = e[i - 1]
  BY <1>1, <1>2 DEF FlowBy
<1>7. \A i \in 1 .. n : IsData(m[i], fd) =>
          /\ e[i] = e[i - 1] + Len(m[i].data) /\ m[i].data # <<>>
          /\ \A k \in DOMAIN m[i].data : m[i].data[k] = L[e[i - 1] + k]
  BY <1>1, <1>2 DEF FlowBy
<1> DEFINE k == e[n] + Len(w)
           P == SubSeq(L, 1, k)
           S == P \o R
           u == w \o v
<1>8. e[n] \in Nat /\ k \in 0 .. Len(L) /\ k \in Nat
  <2>1. e[n] \in 0 .. Len(L)
    BY <1>2
  <2> QED BY <1>2, <1>3, <2>1
<1> HIDE DEF n, k
<1>9. /\ P \in Seq(Token) /\ Len(P) = k /\ DOMAIN P = 1 .. k
      /\ \A j \in 1 .. k : P[j] = L[j]
  <2>1. P \in Seq(Token) /\ Len(P) = k
    BY <1>8
  <2>2. \A j \in 1 .. k : P[j] = L[j]
    BY <1>8
  <2> QED BY <2>1, <2>2
<1> HIDE DEF P
<1>10. /\ S \in Seq(Token) /\ Len(S) = k + Len(R) /\ \A j \in 1 .. k : S[j] = L[j]
       /\ \A j \in DOMAIN R : S[k + j] = R[j]
  <2>1. /\ S \in Seq(Token) /\ Len(S) = Len(P) + Len(R)
        /\ \A i \in DOMAIN P : S[i] = P[i] /\ i \in DOMAIN S
        /\ \A i \in DOMAIN R : S[Len(P) + i] = R[i] /\ Len(P) + i \in DOMAIN S
    BY <1>9, Joined
  <2> QED BY <1>9, <2>1
<1>11. /\ u \in Seq(Token) /\ Len(u) = Len(w) + Len(v) /\ DOMAIN u = 1 .. Len(w) + Len(v)
       /\ \A j \in DOMAIN w : u[j] = w[j]
       /\ \A j \in DOMAIN v : u[Len(w) + j] = v[j]
  <2>1. /\ u \in Seq(Token) /\ Len(u) = Len(w) + Len(v)
        /\ \A i \in DOMAIN w : u[i] = w[i] /\ i \in DOMAIN u
        /\ \A i \in DOMAIN v : u[Len(w) + i] = v[i] /\ Len(w) + i \in DOMAIN u
    BY Joined
  <2> QED BY <2>1
<1> HIDE DEF S, u
<1>12. ASSUME NEW i \in 0 .. n PROVE e[i] \in Nat /\ e[i] <= e[n] /\ e[i] <= k
  <2>1. e[i] <= e[n] /\ e[i] \in Nat
    <3>1. i <= n /\ e[i] \in 0 .. Len(L)
      BY <1>2 DEF n
    <3> QED BY <1>2, <1>4, <3>1
  <2> QED BY <1>2, <1>8, <2>1 DEF k
<1>13. e \in [0 .. n -> 0 .. Len(S)]
  <2>1. \A i \in 0 .. n : e[i] \in 0 .. Len(S)
    BY <1>2, <1>8, <1>10, <1>12
  <2>2. e \in [0 .. n -> 0 .. Len(L)]
    BY DEF n
  <2> QED BY <2>1, <2>2
<1>14. \A j \in DOMAIN b : b[j] = S[0 + j]
  <2>1. Len(b) <= k
    BY <1>2, <1>5, <1>12
  <2>2. \A j \in 1 .. Len(b) : j \in 1 .. k /\ 0 + j = j
    BY <1>2, <1>8, <2>1
  <2> QED BY <1>2, <1>5, <1>10, <2>2
<1>15. \A i \in 1 .. n : IsData(m[i], fd) =>
          /\ e[i] = e[i - 1] + Len(m[i].data) /\ m[i].data # <<>>
          /\ \A j \in DOMAIN m[i].data : m[i].data[j] = S[e[i - 1] + j]
  <2> SUFFICES ASSUME NEW i \in 1 .. n, IsData(m[i], fd)
               PROVE  /\ e[i] = e[i - 1] + Len(m[i].data) /\ m[i].data # <<>>
                      /\ \A j \in DOMAIN m[i].data : m[i].data[j] = S[e[i - 1] + j]
    OBVIOUS
  <2>1. PICK d : d = m[i].data
    OBVIOUS
  <2>2. m[i] \in Message
    BY <1>2
  <2>3. d \in Seq(Token) /\ Len(d) \in Nat /\ DOMAIN d = 1 .. Len(d)
    BY <2>1, <2>2 DEF Message
  <2>4. e[i] = e[i - 1] + Len(d) /\ d # <<>> /\ \A j \in DOMAIN d : d[j] = L[e[i - 1] + j]
    BY <1>7, <2>1
  <2>5. i \in 0 .. n /\ i - 1 \in 0 .. n
    BY <1>2
  <2>6. e[i] \in Nat /\ e[i] <= k /\ e[i - 1] \in Nat
    BY <1>12, <2>5
  <2>7. ASSUME NEW j \in DOMAIN d PROVE d[j] = S[e[i - 1] + j]
    <3>1. e[i - 1] + j \in 1 .. k
      BY <1>8, <2>3, <2>4, <2>6
    <3> QED BY <1>10, <2>4, <3>1
  <2> QED BY <2>1, <2>4, <2>7
<1>16. e[n] + Len(u) <= Len(S) /\ \A j \in DOMAIN u : u[j] = S[e[n] + j]
  <2>0. Len(v) <= Len(R) /\ \A j \in DOMAIN v : v[j] = R[j] /\ j \in DOMAIN R
    <3>1. Len(v) <= Len(R) /\ \A j \in DOMAIN v : v[j] = R[j]
      BY DEF Begins
    <3> QED BY <1>2, <3>1
  <2>1. e[n] + Len(u) <= Len(S)
    BY <1>2, <1>8, <1>10, <1>11, <2>0 DEF k
  <2>2. ASSUME NEW j \in DOMAIN u, j <= Len(w) PROVE u[j] = S[e[n] + j]
    <3>1. j \in DOMAIN w
      BY <1>2, <1>11, <2>2
    <3>2. e[n] + j \in 1 .. k
      BY <1>2, <1>8, <3>1 DEF k
    <3> QED BY <1>3, <1>10, <1>11, <3>1, <3>2
  <2>3. ASSUME NEW j \in DOMAIN u, j > Len(w) PROVE u[j] = S[e[n] + j]
    <3>1. PICK i : i = j - Len(w)
      OBVIOUS
    <3>2. i \in DOMAIN v /\ Len(w) + i = j /\ k + i = e[n] + j
      BY <1>2, <1>8, <1>11, <2>3, <3>1 DEF k
    <3>3. u[Len(w) + i] = v[i] /\ v[i] = R[i] /\ S[k + i] = R[i]
      BY <1>10, <1>11, <2>0, <3>2
    <3> QED BY <3>2, <3>3
  <2>4. \A j \in DOMAIN u : j <= Len(w) \/ j > Len(w)
    BY <1>2, <1>11
  <2> QED BY <2>1, <2>2, <2>3, <2>4
<1>17. FlowBy(e, fd, S, 0, b, m, u)
  BY <1>2, <1>4, <1>5, <1>6, <1>13, <1>14, <1>15, <1>16 DEF FlowBy, n
<1>18. Flow(fd, S, 0, b, m, u)
  BY <1>17, FlowOf
<1> QED BY <1>8, <1>18 DEF S, P, u
LEMMA LeftPart ==
    ASSUME NEW L, Left(L), NEW k \in 0 .. Len(L)
    PROVE  Left(SubSeq(L, 1, k))
<1> DEFINE P == SubSeq(L, 1, k)
<1>1. L \in Seq(Token) /\ \A i \in DOMAIN L : L[i].k \notin Ending
  BY DEF Left
<1>2. k \in Nat /\ k <= Len(L) /\ Len(L) \in Nat
  BY <1>1
<1>3. P \in Seq(Token) /\ Len(P) = k /\ \A i \in 1 .. k : P[i] = L[i] /\ i \in DOMAIN L
  <2>1. P \in Seq(Token) /\ Len(P) = k
    BY <1>1, <1>2
  <2>2. \A i \in 1 .. k : P[i] = L[i] /\ i \in DOMAIN L
    BY <1>1, <1>2
  <2> QED BY <2>1, <2>2
<1> HIDE DEF P
<1>4. DOMAIN P = 1 .. k
  BY <1>3
<1>5. Left(P)
  BY <1>1, <1>3, <1>4 DEF Left
<1> QED BY <1>5 DEF P
-----------------------------------------------------------------------------
(* Lemmas about the response and about the pool.                            *)

\* Nothing of fd has moved.
LEMMA RestSame ==
    ASSUME NEW fd, buf'[fd] = buf[fd], mail' = mail, wire'[fd] = wire[fd]
    PROVE  (Rest(fd)' <=> Rest(fd)) /\ \A R : After(fd, R)' <=> After(fd, R)
<1>1. \A R, c : Coming(fd, R, c)' <=> Coming(fd, R, c)
  BY DEF Coming
<1>2. \A L : Left(L)' <=> Left(L)
  BY DEF Left
<1>3. Rest(fd)' <=> Rest(fd)
  BY <1>1, <1>2 DEF Rest
<1>4. ASSUME NEW R PROVE After(fd, R)' <=> After(fd, R)
  BY <1>1, <1>2 DEF After
<1> QED BY <1>3, <1>4
LEMMA AnsweringSame ==
    ASSUME NEW fd, buf'[fd] = buf[fd], mail' = mail, wire'[fd] = wire[fd],
           NEW q, task'[q] = task[q], fd \in Range(served'[q]) <=> fd \in Range(served[q])
    PROVE  Answering(q, fd)' <=> Answering(q, fd)
<1>1. \A R, c : Coming(fd, R, c)' <=> Coming(fd, R, c)
  BY DEF Coming
<1>2. \A R : After(fd, R)' <=> After(fd, R)
  BY RestSame
<1>3. \A kind, s : AnswersTo(kind, q, fd, s)' = AnswersTo(kind, q, fd, s)
  BY DEF AnswersTo, Response
<1>5. \A R, s : HasRead(task'[q], R, s) <=> HasRead(task[q], R, s)
  OBVIOUS
<1> QED BY <1>1, <1>2, <1>3, <1>5 DEF Answering
\* The peer begins R, as far as v.
LEMMA RestThen ==
    ASSUME NetTypes, NEW fd \in Fd, Rest(fd), NEW R \in Seq(Token), NEW v \in Seq(Token),
           Begins(v, R), buf'[fd] = buf[fd], mail' = mail, wire'[fd] = wire[fd] \o v
    PROVE  After(fd, R)'
<1>1. PICK L : Left(L) /\ Flow(fd, L, 0, buf[fd], mail, wire[fd])
  BY DEF Rest, Coming
<1>2. L \in Seq(Token) /\ buf[fd] \in Seq(Token) /\ mail \in Seq(Message) /\ wire[fd] \in Seq(Token)
  BY <1>1 DEF NetTypes, Left
<1>3. PICK k \in 0 .. Len(L) : Flow(fd, SubSeq(L, 1, k) \o R, 0, buf[fd], mail, wire[fd] \o v)
  BY <1>1, <1>2, FlowJoined
<1>4. PICK P : P = SubSeq(L, 1, k)
  OBVIOUS
<1>5. Left(P)
  BY <1>1, <1>4, LeftPart
<1>6. Coming(fd, P \o R, 0)'
  BY <1>3, <1>4 DEF Coming
<1> QED BY <1>5, <1>6 DEF After, Left
\* With nothing on its way there is a rest, of no token.
LEMMA RestOfNone ==
    ASSUME NetTypes, NEW fd \in Fd, Calm(fd)
    PROVE  Rest(fd)
<1> DEFINE none == <<>>
<1>1. none \in Seq(Token) /\ Len(none) = 0 /\ DOMAIN none = {}
  OBVIOUS
<1>2. buf[fd] = none /\ wire[fd] = none /\ SilentIn(mail, fd) /\ mail \in Seq(Message)
  BY DEF Calm, NetTypes
<1> HIDE DEF none
<1>3. Left(none)
  BY <1>1 DEF Left
<1>4. Flow(fd, none, 0, none, mail, none)
  <2>1. Len(none) <= Len(none) /\ \A k \in DOMAIN none : none[k] = none[k]
    BY <1>1
  <2> QED BY <1>1, <1>2, <2>1, FlowStarts DEF none
<1> QED BY <1>2, <1>3, <1>4 DEF Rest, Coming
LEMMA Tokens ==
    /\ \A R \in Nonsense : R \in Seq(Token) /\ Len(R) = 1 /\ R[1] \in WrongHead
    /\ \A R \in Records : R \in Seq(Token) /\ Len(R) = 1
    /\ Nonsense # {}
<1>1. ASSUME NEW R \in Nonsense PROVE R \in Seq(Token) /\ Len(R) = 1 /\ R[1] \in WrongHead
  <2>1. PICK head \in WrongHead : R = <<head>>
    BY DEF Nonsense
  <2>2. head \in Token
    BY DEF Token
  <2> QED BY <2>1, <2>2
<1>2. \A R \in Records : R \in Seq(Token) /\ Len(R) = 1
  <2> DEFINE x == [k |-> "tls"]
             y == [k |-> "bad"]
  <2>1. x \in Token /\ y \in Token
    BY DEF Token
  <2>2. Records = {<<x>>, <<y>>}
    BY DEF Records
  <2> HIDE DEF x, y
  <2> QED BY <2>1, <2>2
<1>3. Nonsense # {}
  <2> DEFINE head == [k |-> "wrong", q |-> 0, fd |-> 0, mode |-> "none", n |-> 0, keep |-> TRUE]
  <2>1. head \in WrongHead
    BY Limits DEF WrongHead, Mode
  <2> HIDE DEF head
  <2> QED BY <2>1 DEF Nonsense
<1> QED BY <1>1, <1>2, <1>3
LEMMA SameSeq ==
    ASSUME NEW T, NEW a \in Seq(T), NEW b \in Seq(T), Len(a) = Len(b),
           \A i \in 1 .. Len(a) : a[i] = b[i]
    PROVE  a = b
OBVIOUS
LEMMA ShapeTypes ==
    ASSUME NEW s \in Shape
    PROVE  s.mode \in Mode /\ s.n \in 0 .. MaxParts /\ s.n \in Nat /\ s.keep \in BOOLEAN
<1>1. MaxParts \in Nat
  BY Limits
<1>2. Shape \subseteq [mode : {"length", "chunked", "close", "none"}, n : 0 .. MaxParts, keep : BOOLEAN]
  BY HttpAssumption, ZenonT(40)
<1> QED BY <1>1, <1>2 DEF Mode
LEMMA WholeIs ==
    ASSUME NEW kind, NEW q \in Task, NEW fd \in Fd, NEW s \in Shape
    PROVE  LET R == Response(kind, q, fd, s)
           IN  /\ R \in Seq(Token) /\ Len(R) >= 1 /\ R[1] = HeadOf(q, fd, s)
               /\ kind = "head" \/ s.mode = "none" => Len(R) = 1
               /\ kind # "head" /\ s.mode # "none" =>
                     /\ \A k \in 1 .. s.n : R[k + 1] = Part(q, fd, k)
                     /\ s.mode = "chunked" => Len(R) = 2 + s.n /\ R[s.n + 2] = LastChunk(q, fd)
                     /\ s.mode # "chunked" => Len(R) = 1 + s.n
<1> DEFINE h == HeadOf(q, fd, s)
           P == Parts(q, fd, s.n)
           L == LastChunk(q, fd)
           z == <<L>>
           R == Response(kind, q, fd, s)
<1>1. s.mode \in Mode /\ s.n \in 0 .. MaxParts /\ s.n \in Nat /\ s.keep \in BOOLEAN
  BY ShapeTypes
<1>2. q \in Nat /\ fd \in Nat
  BY DEF Task, Fd
<1>3. h \in HeadToken
  BY <1>1, <1>2 DEF HeadOf, HeadToken
<1>4. h \in Token
  BY <1>3 DEF Token
<1>5. L \in Token
  BY DEF LastChunk, Token
<1>6. \A i \in 1 .. s.n : Part(q, fd, i) \in Token
  BY DEF Part, Token
<1>7. P \in Seq(Token) /\ Len(P) = s.n /\ \A i \in 1 .. s.n : P[i] = Part(q, fd, i)
  <2>1. P = [i \in 1 .. s.n |-> Part(q, fd, i)]
    BY DEF Parts
  <2>2. P \in [1 .. s.n -> Token]
    BY <1>6, <2>1
  <2> HIDE DEF P
  <2> QED BY <1>1, <2>1, <2>2
<1>8. z \in Seq(Token) /\ Len(z) = 1 /\ z[1] = L
  <2> HIDE DEF L
  <2> QED BY <1>5
<1> DEFINE one == <<h>>
           none == <<>>
<1>9. one \in Seq(Token) /\ Len(one) = 1 /\ one[1] = h
  <2> HIDE DEF h
  <2> QED BY <1>4
<1>10. none \in Seq(Token) /\ Len(none) = 0
  OBVIOUS
<1>11. /\ kind = "head" \/ s.mode = "none" => R = one \o none
       /\ kind # "head" /\ s.mode # "none" /\ s.mode = "chunked" => R = one \o (P \o z)
       /\ kind # "head" /\ s.mode # "none" /\ s.mode # "chunked" => R = one \o (P \o none)
  BY DEF Response
<1> HIDE DEF h, P, L, z, one, none, R
<1>12. CASE kind = "head" \/ s.mode = "none"
  <2>1. R = one \o none
    BY <1>11, <1>12
  <2>2. R \in Seq(Token) /\ Len(R) = 1 /\ R[1] = h
    BY <1>9, <1>10, <2>1
  <2> QED BY <1>12, <2>2 DEF R, h
<1>13. CASE kind # "head" /\ s.mode # "none" /\ s.mode = "chunked"
  <2> DEFINE y == P \o z
  <2>1. y \in Seq(Token) /\ Len(y) = s.n + 1 /\ y[s.n + 1] = L
    <3>1. 1 \in DOMAIN z
      BY <1>8
    <3> QED BY SMTT(20), <1>7, <1>8, <3>1, Joined
  <2>2. \A i \in 1 .. s.n : y[i] = Part(q, fd, i) /\ i \in DOMAIN y
    BY <1>1, <1>7, <1>8
  <2>3. R = one \o y
    BY <1>11, <1>13
  <2> HIDE DEF y
  <2>0. /\ one \o y \in Seq(Token) /\ Len(one \o y) = Len(one) + Len(y)
        /\ \A i \in DOMAIN one : (one \o y)[i] = one[i]
        /\ \A i \in DOMAIN y : (one \o y)[Len(one) + i] = y[i]
    <3>1. one \in Seq(Token) /\ y \in Seq(Token)
      BY <1>9, <2>1
    <3> QED BY <3>1, Joined
  <2>4. R \in Seq(Token) /\ Len(R) = s.n + 2 /\ R[1] = h
    <3>1. 1 \in DOMAIN one
      BY <1>9
    <3> QED BY <1>1, <1>9, <2>0, <2>1, <2>3, <3>1
  <2>5. \A i \in 1 .. s.n + 1 : R[i + 1] = y[i]
    <3>1. \A i \in DOMAIN y : R[1 + i] = y[i]
      BY <1>9, <2>0, <2>3
    <3>2. \A i \in 1 .. s.n + 1 : i \in DOMAIN y /\ 1 + i = i + 1
      BY <1>1, <2>1
    <3> QED BY <3>1, <3>2
  <2>6. R[(s.n + 1) + 1] = L /\ (s.n + 1) + 1 = s.n + 2
    BY <1>1, <2>1, <2>5
  <2>7. \A i \in 1 .. s.n : R[i + 1] = Part(q, fd, i)
    BY <1>1, <2>2, <2>5
  <2>8. R[s.n + 2] = L /\ Len(R) = 2 + s.n /\ Len(R) >= 1
    BY <1>1, <2>4, <2>6
  <2> QED BY <1>13, <2>4, <2>7, <2>8 DEF R, h, L
<1>14. CASE kind # "head" /\ s.mode # "none" /\ s.mode # "chunked"
  <2> DEFINE y == P \o none
  <2>1. y \in Seq(Token) /\ Len(y) = s.n
    BY <1>1, <1>7, <1>10
  <2>2. \A i \in 1 .. s.n : y[i] = Part(q, fd, i) /\ i \in DOMAIN y
    BY <1>1, <1>7, <1>10
  <2>3. R = one \o y
    BY <1>11, <1>14
  <2> HIDE DEF y
  <2>0. /\ one \o y \in Seq(Token) /\ Len(one \o y) = Len(one) + Len(y)
        /\ \A i \in DOMAIN one : (one \o y)[i] = one[i]
        /\ \A i \in DOMAIN y : (one \o y)[Len(one) + i] = y[i]
    <3>1. one \in Seq(Token) /\ y \in Seq(Token)
      BY <1>9, <2>1
    <3> QED BY <3>1, Joined
  <2>4. R \in Seq(Token) /\ Len(R) = s.n + 1 /\ R[1] = h
    <3>1. 1 \in DOMAIN one
      BY <1>9
    <3> QED BY <1>1, <1>9, <2>0, <2>1, <2>3, <3>1
  <2>5. \A i \in 1 .. s.n : R[i + 1] = y[i]
    <3>1. \A i \in DOMAIN y : R[1 + i] = y[i]
      BY <1>9, <2>0, <2>3
    <3>2. \A i \in 1 .. s.n : i \in DOMAIN y /\ 1 + i = i + 1
      BY <1>1, <2>1
    <3> QED BY <3>1, <3>2
  <2>7. \A i \in 1 .. s.n : R[i + 1] = Part(q, fd, i)
    BY <1>1, <2>2, <2>5
  <2>8. Len(R) = 1 + s.n /\ Len(R) >= 1
    BY <1>1, <2>4
  <2> QED BY <1>14, <2>4, <2>7, <2>8 DEF R, h
<1> QED BY <1>12, <1>13, <1>14
IsBody(R, q, fd, s, m) ==
    /\ \A k \in 1 .. m : R[k + 1] = Part(q, fd, k)
    /\ s.mode = "chunked" =>
          Len(R) = 2 + m /\ (R[m + 2] = BrokenChunk(q, fd) \/ (R[m + 2] = LastChunk(q, fd) /\ m = s.n))
    /\ s.mode # "chunked" => Len(R) = 1 + m /\ m = s.n
LEMMA BrokenIs ==
    ASSUME NEW q \in Task, NEW fd \in Fd, NEW s \in Shape, s.mode = "chunked",
           NEW R \in BrokenBody(q, fd, s)
    PROVE  /\ R \in Seq(Token) /\ Len(R) >= 1 /\ R[1] = HeadOf(q, fd, s)
           /\ \E m \in 0 .. s.n : IsBody(R, q, fd, s, m)
<1>1. PICK m \in 0 .. s.n : R = <<HeadOf(q, fd, s)>> \o Parts(q, fd, m) \o <<BrokenChunk(q, fd)>>
  BY DEF BrokenBody
<1>2. s.mode \in Mode /\ s.n \in 0 .. MaxParts /\ s.n \in Nat /\ s.keep \in BOOLEAN /\ m \in Nat
  BY ShapeTypes
<1> DEFINE h == HeadOf(q, fd, s)
           P == Parts(q, fd, m)
           z == BrokenChunk(q, fd)
           one == <<h>>
           end == <<z>>
           y == one \o P
<1>3. h \in Token
  <2>1. q \in Nat /\ fd \in Nat
    BY DEF Task, Fd
  <2> QED BY <1>2, <2>1 DEF HeadOf, HeadToken, Token
<1>4. z \in Token
  BY DEF BrokenChunk, Token
<1>5. P \in Seq(Token) /\ Len(P) = m /\ \A i \in 1 .. m : P[i] = Part(q, fd, i)
  <2>1. \A i \in 1 .. m : Part(q, fd, i) \in Token
    BY DEF Part, Token
  <2>2. P = [i \in 1 .. m |-> Part(q, fd, i)]
    BY DEF Parts
  <2>3. P \in [1 .. m -> Token]
    BY <2>1, <2>2
  <2> HIDE DEF P
  <2> QED BY <1>2, <2>2, <2>3
<1>6. one \in Seq(Token) /\ Len(one) = 1 /\ one[1] = h /\ DOMAIN one = {1}
  <2> HIDE DEF h
  <2> QED BY <1>3
<1>7. end \in Seq(Token) /\ Len(end) = 1 /\ end[1] = z /\ DOMAIN end = {1}
  <2> HIDE DEF z
  <2> QED BY <1>4
<1>8. R = y \o end
  BY <1>1
<1> HIDE DEF h, P, z, one, end
<1>9. /\ y \in Seq(Token) /\ Len(y) = 1 + m /\ y[1] = h /\ \A i \in 1 .. m : y[1 + i] = Part(q, fd, i)
  <2>1. /\ y \in Seq(Token) /\ Len(y) = Len(one) + Len(P)
        /\ \A i \in DOMAIN one : y[i] = one[i] /\ i \in DOMAIN y
        /\ \A i \in DOMAIN P : y[Len(one) + i] = P[i] /\ Len(one) + i \in DOMAIN y
    BY <1>5, <1>6, Joined
  <2>2. DOMAIN P = 1 .. m
    BY <1>5
  <2> QED BY <1>5, <1>6, <2>1, <2>2
<1> HIDE DEF y
<1>10. /\ R \in Seq(Token) /\ Len(R) = 2 + m /\ R[2 + m] = z
       /\ \A i \in 1 .. 1 + m : R[i] = y[i]
  <2>1. /\ y \o end \in Seq(Token) /\ Len(y \o end) = Len(y) + Len(end)
        /\ \A i \in DOMAIN y : (y \o end)[i] = y[i] /\ i \in DOMAIN (y \o end)
        /\ \A i \in DOMAIN end : (y \o end)[Len(y) + i] = end[i] /\ Len(y) + i \in DOMAIN (y \o end)
    BY <1>7, <1>9, Joined
  <2>2. DOMAIN y = 1 .. 1 + m
    BY <1>9
  <2>3. (1 + m) + 1 = 2 + m
    BY <1>2
  <2> QED BY <1>2, <1>7, <1>8, <1>9, <2>1, <2>2, <2>3
<1>11. R[1] = h /\ \A i \in 1 .. m : R[i + 1] = Part(q, fd, i)
  <2>1. 1 \in 1 .. 1 + m /\ \A i \in 1 .. m : i + 1 \in 1 .. 1 + m /\ i + 1 = 1 + i
    BY <1>2
  <2> QED BY <1>9, <1>10, <2>1
<1>12. IsBody(R, q, fd, s, m)
  <2>1. m + 2 = 2 + m
    BY <1>2
  <2> QED BY <1>10, <1>11, <2>1 DEF IsBody, z
<1>13. Len(R) >= 1
  BY <1>2, <1>10
<1> QED BY <1>10, <1>11, <1>12, <1>13 DEF h
LEMMA ResponseIs ==
    ASSUME NEW kind, NEW q \in Task, NEW fd \in Fd, NEW s \in Shape, NEW R \in AnswersTo(kind, q, fd, s)
    PROVE  /\ R \in Seq(Token) /\ Len(R) >= 1 /\ R[1] = HeadOf(q, fd, s) /\ R[1] \in HeadToken
           /\ kind = "head" \/ s.mode = "none" => Len(R) = 1
           /\ kind # "head" /\ s.mode # "none" => \E m \in 0 .. s.n : IsBody(R, q, fd, s, m)
           /\ \A k \in 1 .. Len(R) : k > 1 =>
                 R[k].q = q /\ R[k].fd = fd /\ R[k].k \in {"part", "last", "broken"}
<1>0. s.mode \in Mode /\ s.n \in 0 .. MaxParts /\ s.n \in Nat /\ s.keep \in BOOLEAN
  BY ShapeTypes
<1>1. ASSUME R = Response(kind, q, fd, s)
      PROVE  /\ R \in Seq(Token) /\ Len(R) >= 1 /\ R[1] = HeadOf(q, fd, s)
             /\ kind = "head" \/ s.mode = "none" => Len(R) = 1
             /\ kind # "head" /\ s.mode # "none" => \E m \in 0 .. s.n : IsBody(R, q, fd, s, m)
  <2>1. /\ R \in Seq(Token) /\ Len(R) >= 1 /\ R[1] = HeadOf(q, fd, s)
        /\ kind = "head" \/ s.mode = "none" => Len(R) = 1
        /\ kind # "head" /\ s.mode # "none" =>
              /\ \A k \in 1 .. s.n : R[k + 1] = Part(q, fd, k)
              /\ s.mode = "chunked" => Len(R) = 2 + s.n /\ R[s.n + 2] = LastChunk(q, fd)
              /\ s.mode # "chunked" => Len(R) = 1 + s.n
    BY <1>1, WholeIs
  <2>2. s.n \in 0 .. s.n
    BY <1>0
  <2>3. kind # "head" /\ s.mode # "none" => IsBody(R, q, fd, s, s.n)
    BY <2>1 DEF IsBody
  <2> QED BY <2>1, <2>2, <2>3
<1>2. ASSUME kind # "head" /\ s.mode = "chunked" /\ R \in BrokenBody(q, fd, s)
      PROVE  /\ R \in Seq(Token) /\ Len(R) >= 1 /\ R[1] = HeadOf(q, fd, s)
             /\ kind = "head" \/ s.mode = "none" => Len(R) = 1
             /\ kind # "head" /\ s.mode # "none" => \E m \in 0 .. s.n : IsBody(R, q, fd, s, m)
  <2>1. /\ R \in Seq(Token) /\ Len(R) >= 1 /\ R[1] = HeadOf(q, fd, s)
        /\ \E m \in 0 .. s.n : IsBody(R, q, fd, s, m)
    BY <1>2, BrokenIs
  <2> QED BY <1>2, <2>1
<1>3. /\ R \in Seq(Token) /\ Len(R) >= 1 /\ R[1] = HeadOf(q, fd, s)
      /\ kind = "head" \/ s.mode = "none" => Len(R) = 1
      /\ kind # "head" /\ s.mode # "none" => \E m \in 0 .. s.n : IsBody(R, q, fd, s, m)
  <2>1. R = Response(kind, q, fd, s) \/ (kind # "head" /\ s.mode = "chunked" /\ R \in BrokenBody(q, fd, s))
    BY DEF AnswersTo
  <2>2. CASE R = Response(kind, q, fd, s)
    BY <1>1, <2>2
  <2>3. CASE kind # "head" /\ s.mode = "chunked" /\ R \in BrokenBody(q, fd, s)
    BY <1>2, <2>3
  <2> QED BY <2>1, <2>2, <2>3
<1>4. ASSUME NEW k \in 1 .. Len(R), k > 1
      PROVE  R[k].q = q /\ R[k].fd = fd /\ R[k].k \in {"part", "last", "broken"}
  <2>1. kind # "head" /\ s.mode # "none" /\ k \in Nat /\ k <= Len(R) /\ Len(R) \in Nat
    BY <1>3, <1>4
  <2>2. PICK m \in 0 .. s.n : IsBody(R, q, fd, s, m)
    BY <1>3, <2>1
  <2>3. m \in Nat /\ k - 1 \in Nat /\ (k - 1) + 1 = k
    BY <1>0, <1>4, <2>1
  <2>4. CASE k - 1 \in 1 .. m
    <3>1. R[k] = Part(q, fd, k - 1)
      BY <2>2, <2>3, <2>4 DEF IsBody
    <3> QED BY <3>1 DEF Part
  <2>5. CASE k - 1 \notin 1 .. m
    <3>1. k - 1 > m
      BY <1>4, <2>1, <2>3, <2>5
    <3>2. s.mode = "chunked" /\ Len(R) = 2 + m
      BY <2>1, <2>2, <2>3, <3>1 DEF IsBody
    <3>3. k = m + 2
      BY <2>1, <2>3, <3>1, <3>2
    <3>4. R[k] = BrokenChunk(q, fd) \/ R[k] = LastChunk(q, fd)
      BY <2>2, <3>2, <3>3 DEF IsBody
    <3> QED BY <3>4 DEF BrokenChunk, LastChunk
  <2> QED BY <2>4, <2>5
<1>5. HeadOf(q, fd, s) \in HeadToken
  <2>1. q \in Nat /\ fd \in Nat
    BY DEF Task, Fd
  <2> QED BY <1>0, <2>1 DEF HeadOf, HeadToken
<1> QED BY <1>3, <1>4, <1>5
LEMMA MergedIs ==
    ASSUME NEW before \in HeadToken, NEW head \in HeadToken
    PROVE  /\ Merged(before, head) \in HeadRead
           /\ Merged(before, head).q = head.q /\ Merged(before, head).fd = head.fd
           /\ Merged(before, head).mode = "chunked" <=> head.mode = "chunked" /\ before.mode # "chunked"
           /\ before = NoHead => Merged(before, head) = head
<1> DEFINE mode == CASE before.mode \in {"none", "close"} -> head.mode
                     [] before.mode = "chunked" -> IF head.mode = "chunked" THEN "close" ELSE "invalid"
                     [] before.mode = "length"  -> IF head.mode = "chunked" THEN "chunked" ELSE "length"
           keep == before.keep = head.keep
           n == IF before.mode = "length" /\ mode = "length" THEN before.n ELSE head.n
           h == [head EXCEPT !.mode = mode, !.keep = keep, !.n = n]
<1>1. /\ before.mode \in Mode /\ before.n \in 0 .. MaxParts /\ before.keep \in BOOLEAN
      /\ head.mode \in Mode /\ head.n \in 0 .. MaxParts /\ head.keep \in BOOLEAN /\ head.q \in Nat
      /\ head.fd \in Nat /\ head.k = "head"
      /\ head = [k |-> head.k, q |-> head.q, fd |-> head.fd, mode |-> head.mode, n |-> head.n,
                 keep |-> head.keep]
  BY DEF HeadToken
<1>2. Merged(before, head) = h
  BY DEF Merged
<1>3. mode \in Mode \cup {"invalid"} /\ (mode = "chunked" <=> head.mode = "chunked" /\ before.mode # "chunked")
  BY <1>1 DEF Mode
<1>4. n \in 0 .. MaxParts
  BY <1>1
<1>5. keep \in BOOLEAN
  OBVIOUS
<1>6. before = NoHead => mode = head.mode /\ n = head.n /\ (keep = head.keep)
  <2>1. before = NoHead => before.mode = "none" /\ before.keep = TRUE
    BY DEF NoHead
  <2>2. before.keep = TRUE => (keep = head.keep)
    <3>1. head.keep = TRUE \/ head.keep = FALSE
      BY <1>1
    <3> QED BY <3>1
  <2> QED BY <2>1, <2>2
<1> HIDE DEF mode, keep, n
<1>7. PICK mo \in Mode \cup {"invalid"}, ke \in BOOLEAN, nn \in 0 .. MaxParts :
              mo = mode /\ (ke = keep) /\ nn = n
  BY <1>3, <1>4, <1>5
<1>a. Merged(before, head) = [head EXCEPT !.mode = mo, !.keep = ke, !.n = nn]
  BY <1>2, <1>7
<1>c. PICK h2 : h2 = [head EXCEPT !.mode = mo, !.keep = ke, !.n = nn]
  OBVIOUS
<1>d. /\ h2 \in HeadRead /\ h2.q = head.q /\ h2.fd = head.fd /\ h2.mode = mo
      /\ (mo = head.mode /\ nn = head.n /\ (ke = head.keep) => h2 = head)
  <2>1. mo \in Mode \cup {"invalid"} /\ ke \in BOOLEAN /\ nn \in 0 .. MaxParts /\ head \in HeadToken
    BY <1>7
  <2> QED BY ONLY <1>c, <2>1 DEF HeadToken, HeadRead
<1>e. Merged(before, head) = h2
  BY <1>a, <1>c
<1>f. before = NoHead => mo = head.mode /\ nn = head.n /\ (ke = head.keep)
  BY <1>6, <1>7, Zenon
<1>g. mo = "chunked" <=> head.mode = "chunked" /\ before.mode # "chunked"
  BY <1>3, <1>7
<1> QED BY <1>d, <1>e, <1>f, <1>g
\* What of a response is not read is such a rest, once its head was.
LEMMA RestOfRead ==
    ASSUME NEW kind, NEW q \in Task, NEW fd \in Fd, NEW s \in Shape, NEW R \in AnswersTo(kind, q, fd, s),
           NEW c \in 1 .. Len(R), NEW b \in Seq(Token), NEW m \in Seq(Message), NEW w \in Seq(Token),
           Flow(fd, R, c, b, m, w)
    PROVE  \E L : Left(L) /\ Flow(fd, L, 0, b, m, w)
<1> DEFINE L == SubSeq(R, c + 1, Len(R))
<1>1. /\ R \in Seq(Token) /\ \A k \in 1 .. Len(R) : k > 1 => R[k].k \in {"part", "last", "broken"}
  BY ResponseIs
<1>2. c \in Nat /\ c >= 1 /\ c <= Len(R) /\ Len(R) \in Nat /\ c \in 0 .. Len(R)
  BY <1>1
<1>3. L \in Seq(Token) /\ Len(L) = Len(R) - c /\ \A j \in 1 .. Len(R) - c : L[j] = R[c + j]
  <2>1. L \in Seq(Token) /\ Len(L) = Len(R) - c
    BY <1>1, <1>2
  <2>2. \A j \in 1 .. Len(R) - c : L[j] = R[c + j]
    BY <1>1, <1>2
  <2> QED BY <2>1, <2>2
<1>4. Flow(fd, L, 0, b, m, w)
  BY <1>1, <1>2, FlowRest
<1> HIDE DEF L
<1>5. ASSUME NEW j \in DOMAIN L PROVE L[j].k \notin Ending
  <2>1. j \in 1 .. Len(R) - c
    BY <1>2, <1>3
  <2>2. c + j \in 1 .. Len(R) /\ c + j > 1 /\ L[j] = R[c + j]
    BY <1>2, <1>3, <2>1
  <2>3. L[j].k \in {"part", "last", "broken"}
    BY <1>1, <2>2
  <2> QED BY <2>3 DEF Ending
<1> QED BY <1>3, <1>4, <1>5 DEF Left
LEMMA LeastExists ==
    ASSUME NEW S, S \subseteq Nat, S # {}
    PROVE  \E m \in S : \A k \in S : m <= k
<1> DEFINE R == {x \in Nat \X Nat : x[1] < x[2]}
<1>1. IsWellFoundedOn(R, Nat)
  BY NatLessThanWellFounded DEF OpToRel
<1>2. \A k, m \in Nat : k < m => <<k, m>> \in R
  OBVIOUS
<1> HIDE DEF R
<1>3. \E m \in S : \A k \in S : <<k, m>> \notin R
  BY <1>1, WFMin
<1>4. \A k, m \in S : ~(k < m) => m <= k
  OBVIOUS
<1> QED BY <1>2, <1>3, <1>4
\* The recursion of Among has a solution up to any n.
Chosen(some, s, S, i) ==
    IF i = 0 THEN <<>> ELSE IF s[i] \in S THEN Append(some[i - 1], s[i]) ELSE some[i - 1]
Chooses(f, s, S, n) == f = [i \in 0 .. n |-> Chosen(f, s, S, i)]
LEMMA AmongExists ==
    ASSUME NEW s, NEW S, NEW n \in Nat
    PROVE  \E f : Chooses(f, s, S, n)
<1> DEFINE Lacks == {m \in Nat : ~\E f : Chooses(f, s, S, m)}
<1> SUFFICES Lacks = {}
  OBVIOUS
<1>1. SUFFICES ASSUME Lacks # {} PROVE FALSE
  OBVIOUS
<1>2. Lacks \subseteq Nat
  OBVIOUS
<1>3. PICK m \in Lacks : \A k \in Lacks : m <= k
  <2> HIDE DEF Lacks
  <2> QED BY <1>1, <1>2, LeastExists
<1>4. m \in Nat /\ ~\E f : Chooses(f, s, S, m)
  BY <1>3
<1>5. m # 0
  <2>1. SUFFICES ASSUME m = 0 PROVE Chooses([i \in 0 .. 0 |-> <<>>], s, S, 0)
    BY <1>4
  <2> DEFINE f == [i \in 0 .. 0 |-> <<>>]
  <2>2. \A i \in 0 .. 0 : Chosen(f, s, S, i) = <<>>
    BY DEF Chosen
  <2>3. f = [i \in 0 .. 0 |-> Chosen(f, s, S, i)]
    BY <2>2
  <2> QED BY <2>3 DEF Chooses
<1>6. m - 1 \in Nat /\ m - 1 \notin Lacks
  BY <1>3, <1>4, <1>5
<1>7. PICK f : Chooses(f, s, S, m - 1)
  BY <1>6
<1> DEFINE last == Chosen(f, s, S, m)
           g == [i \in 0 .. m |-> IF i = m THEN last ELSE f[i]]
<1>8. \A i \in 0 .. m - 1 : f[i] = Chosen(f, s, S, i)
  BY <1>7 DEF Chooses
<1>9. \A i \in 0 .. m : i = m \/ i \in 0 .. m - 1
  BY <1>4
<1>10. \A i \in 0 .. m : i # 0 => i - 1 \in 0 .. m /\ i - 1 # m
  BY <1>4
<1> HIDE DEF last
<1>11. \A i \in 0 .. m : g[i] = IF i = m THEN last ELSE f[i]
  OBVIOUS
<1> DEFINE h == [i \in 0 .. m |-> Chosen(g, s, S, i)]
<1>12. ASSUME NEW i \in 0 .. m PROVE Chosen(g, s, S, i) = Chosen(f, s, S, i)
  <2>1. i # 0 => g[i - 1] = f[i - 1]
    BY <1>10, <1>11
  <2> QED BY <2>1 DEF Chosen
<1>13. \A i \in 0 .. m : g[i] = Chosen(g, s, S, i)
  BY <1>8, <1>9, <1>11, <1>12 DEF last
<1>14. g = h
  BY <1>13
<1>15. Chooses(g, s, S, m)
  BY <1>14 DEF Chooses
<1> QED BY <1>4, <1>15
\* Of the members of s, those in S, each where it was among the others.
LEMMA AmongIs ==
    ASSUME NEW T, NEW s \in Seq(T), NEW S, \A i, j \in DOMAIN s : s[i] = s[j] => i = j
    PROVE  /\ Among(s, S) \in Seq(T) /\ Len(Among(s, S)) <= Len(s)
           /\ \A j \in DOMAIN Among(s, S) :
                 Among(s, S)[j] \in S /\ \E i \in DOMAIN s : Among(s, S)[j] = s[i]
           /\ \A i \in DOMAIN s : s[i] \in S => \E j \in DOMAIN Among(s, S) : Among(s, S)[j] = s[i]
           /\ \A i, j \in DOMAIN Among(s, S) : Among(s, S)[i] = Among(s, S)[j] => i = j
<1> DEFINE n == Len(s)
           some == CHOOSE f : Chooses(f, s, S, n)
<1>1. Among(s, S) = some[n]
  BY DEF Among, Chooses, Chosen
<1>2. n \in Nat /\ DOMAIN s = 1 .. n /\ \A i \in 1 .. n : s[i] \in T
  OBVIOUS
<1>3. Chooses(some, s, S, n)
  <2> HIDE DEF n
  <2> QED BY <1>2, AmongExists
<1> HIDE DEF n, some
<1>4. \A i \in 0 .. n : some[i] = Chosen(some, s, S, i)
  BY <1>3 DEF Chooses
<1> DEFINE Good(i) ==
              /\ some[i] \in Seq(T) /\ Len(some[i]) <= i
              /\ \A j \in DOMAIN some[i] : some[i][j] \in S /\ \E a \in 1 .. i : some[i][j] = s[a]
              /\ \A a \in 1 .. i : s[a] \in S => \E j \in DOMAIN some[i] : some[i][j] = s[a]
              /\ \A j, k \in DOMAIN some[i] : some[i][j] = some[i][k] => j = k
           Bad == {i \in 0 .. n : ~Good(i)}
<1>5. SUFFICES ASSUME Bad # {} PROVE FALSE
  <2>1. Good(n)
    BY <1>2, <1>5
  <2> QED BY <1>1, <1>2, <2>1
<1>6. Bad \subseteq Nat
  OBVIOUS
<1>7. PICK m \in Bad : \A k \in Bad : m <= k
  <2> HIDE DEF Bad
  <2> QED BY <1>5, <1>6, LeastExists
<1>8. m \in 0 .. n /\ ~Good(m)
  BY <1>7
<1>9. m # 0
  <2>1. SUFFICES ASSUME m = 0 PROVE FALSE
    OBVIOUS
  <2>2. some[0] = <<>>
    BY <1>4, <1>8, <2>1 DEF Chosen
  <2>3. Good(0)
    BY <2>2
  <2> QED BY <1>8, <2>1, <2>3
<1>10. m - 1 \in 0 .. n /\ m - 1 < m /\ m \in Nat /\ m \in 1 .. n
  BY <1>2, <1>8, <1>9
<1>11. Good(m - 1)
  <2>1. m - 1 \notin Bad
    <3> HIDE DEF Bad
    <3>1. m \in Nat
      BY <1>10
    <3> QED BY <1>7, <1>10, <3>1
  <2> QED BY <1>10, <2>1
<1>12. some[m] = IF s[m] \in S THEN Append(some[m - 1], s[m]) ELSE some[m - 1]
  BY <1>4, <1>8, <1>9 DEF Chosen
<1>13. \A a \in 1 .. m : a \in 1 .. m - 1 \/ a = m
  BY <1>10
<1>14. \A a \in 1 .. m - 1 : a \in 1 .. m /\ a # m /\ a \in DOMAIN s
  BY <1>2, <1>10
<1> DEFINE p == some[m - 1]
<1>15. /\ p \in Seq(T) /\ Len(p) <= m - 1
       /\ \A j \in DOMAIN p : p[j] \in S /\ \E a \in 1 .. m - 1 : p[j] = s[a]
       /\ \A a \in 1 .. m - 1 : s[a] \in S => \E j \in DOMAIN p : p[j] = s[a]
       /\ \A j, k \in DOMAIN p : p[j] = p[k] => j = k
  BY <1>11
<1> DEFINE t == some[m]
<1>16. SUFFICES /\ t \in Seq(T) /\ Len(t) <= m
                /\ \A j \in DOMAIN t : t[j] \in S /\ \E a \in 1 .. m : t[j] = s[a]
                /\ \A a \in 1 .. m : s[a] \in S => \E j \in DOMAIN t : t[j] = s[a]
                /\ \A j, k \in DOMAIN t : t[j] = t[k] => j = k
  BY <1>8
<1>17. t = IF s[m] \in S THEN Append(p, s[m]) ELSE p
  BY <1>12
<1> HIDE DEF Good, Bad, p, t
<1>18. CASE s[m] \notin S
  <2>1. t = p
    BY <1>17, <1>18
  <2> QED BY <1>10, <1>13, <1>14, <1>15, <1>18, <2>1
<1>19. CASE s[m] \in S
  <2>1. t = Append(p, s[m]) /\ s[m] \in T
    BY <1>2, <1>10, <1>17, <1>19
  <2>2. /\ t \in Seq(T) /\ Len(t) = Len(p) + 1 /\ Len(p) \in Nat /\ DOMAIN p = 1 .. Len(p)
        /\ DOMAIN t = 1 .. Len(p) + 1 /\ t[Len(p) + 1] = s[m]
        /\ \A j \in 1 .. Len(p) : t[j] = p[j]
    BY <1>15, <2>1
  <2>3. \A j \in DOMAIN t : j \in DOMAIN p \/ j = Len(p) + 1
    BY <2>2
  <2>4. \A j \in DOMAIN p : j \in DOMAIN t /\ t[j] = p[j] /\ j # Len(p) + 1
    BY <2>2
  <2>5. Len(p) + 1 \in DOMAIN t
    BY <2>2
  <2>6. Len(t) <= m
    BY <1>10, <1>15, <2>2
  <2>7. \A j \in DOMAIN t : t[j] \in S /\ \E a \in 1 .. m : t[j] = s[a]
    <3>1. \A j \in DOMAIN p : p[j] \in S /\ \E a \in 1 .. m : p[j] = s[a]
      BY <1>14, <1>15
    <3>2. m \in 1 .. m
      BY <1>10
    <3> QED BY <1>19, <2>2, <2>3, <2>4, <3>1, <3>2
  <2>8. \A a \in 1 .. m : s[a] \in S => \E j \in DOMAIN t : t[j] = s[a]
    BY <1>13, <1>15, <2>2, <2>4, <2>5
  <2>9. \A j \in DOMAIN p : p[j] # s[m]
    BY <1>2, <1>10, <1>14, <1>15
  <2>10. \A j, k \in DOMAIN t : t[j] = t[k] => j = k
    BY <1>15, <2>2, <2>3, <2>4, <2>9
  <2> QED BY <2>2, <2>6, <2>7, <2>8, <2>10
<1> QED BY <1>18, <1>19
-----------------------------------------------------------------------------
(* The steps of the client: those of one request, or of none.  They close   *)
(* X, which is the request's or the pool's, and may open N.                 *)
Mine(q, fd) == InPool(fd) \/ (q \in Task /\ Holds(q, fd))
Touched(fd) == buf'[fd] # buf[fd] \/ inbox'[fd] # inbox[fd]
MovesSockets(q, X, N) ==
    /\ X \subseteq Fd /\ N \subseteq Unused
    /\ sock' = [fd \in Fd |-> IF fd \in N THEN "opening" ELSE IF fd \in X THEN "gone" ELSE sock[fd]]
    /\ handler' = [fd \in Fd |-> IF fd \in N THEN "connecting"
                                 ELSE IF fd \in X THEN "none" ELSE handler[fd]]
    /\ UNCHANGED <<rclosed, tls, mail, wire, eof, served>>
    /\ buf' \in [Fd -> Seq(Token)] /\ inbox' \in [Fd -> Seq(0 .. MaxTask)]
    /\ \A fd \in Fd : Touched(fd) =>
          Mine(q, fd) /\ handler[fd] # "connecting" /\ Len(inbox'[fd]) <= 1
    /\ \A p \in Task \ {q}, fd \in Fd : Waits(p, fd)' => Waits(p, fd)
MovesOwners(q, X, N) ==
    /\ \A fd \in X : Mine(q, fd)
    /\ \A fd \in Fd : InPool(fd)' => Mine(q, fd) /\ fd \notin X
    /\ \A fd \in Fd : Mine(q, fd) /\ sock[fd] \in {"opening", "open"} => Mine(q, fd)' \/ fd \in X
    /\ \A fd \in N : Mine(q, fd)'
    /\ q \in Task => \A fd \in Fd : Holds(q, fd)' =>
                        fd \notin X /\ ~InPool(fd)' /\ (Mine(q, fd) \/ fd \in N)
MovesTask(q) ==
    /\ task' \in [Task -> Request] /\ \A p \in Task \ {q} : task'[p] = task[p]
    /\ q \in Task => /\ task[q].pc # "handshake"
                     /\ task'[q].pc \in Active => task'[q].fd \in Fd /\ task'[q].key \in Key
                                                 /\ task'[q].kind # "none"
                     /\ \A fd \in Fd : Holds(q, fd)' => CarriesOf(q, fd)'
                     /\ SentOf(q)' /\ AnswerOf(q, task'[q])
MovesPool ==
    /\ pool' \in [Key -> Seq(Conn)] /\ cleanup' \in BOOLEAN /\ PoolOnce'
    /\ \A fd \in Fd : InPool(fd)' => PoolOf(fd)' \/ (InPool(fd) /\ ~Touched(fd))
ClientMoves(q, X, N) ==
    MovesSockets(q, X, N) /\ MovesOwners(q, X, N) /\ MovesTask(q) /\ MovesPool

LEMMA ClientKeepsTypes ==
    ASSUME HttpInv, NEW q, NEW X, NEW N, ClientMoves(q, X, N)
    PROVE  HttpTypes'
<1> USE DEF ClientMoves
<1>1. NetTypes'
  BY DEF HttpInv, HttpTypes, NetTypes, MovesSockets, Unused
<1>2. task' \in [Task -> Request] /\ pool' \in [Key -> Seq(Conn)] /\ cleanup' \in BOOLEAN
  BY DEF MovesTask, MovesPool
<1>3. served' \in [Task -> Seq(Fd)]
  BY DEF HttpInv, HttpTypes, MovesSockets
<1>4. \A p \in Task : task'[p].pc \in Active => task'[p].fd \in Fd /\ task'[p].key \in Key
                                                /\ task'[p].kind # "none"
  BY DEF HttpInv, HttpTypes, MovesTask
<1> QED BY <1>1, <1>2, <1>3, <1>4 DEF HttpTypes
\* Whose socket it is: the request's or the pool's, another's, or nobody's.
LEMMA Distinct ==
    ASSUME HttpInv, NEW q, NEW fd \in Fd
    PROVE  /\ Mine(q, fd) => Held(fd) /\ \A p \in Task \ {q} : ~Holds(p, fd)
           /\ Held(fd) => Mine(q, fd) \/ \E p \in Task \ {q} : Holds(p, fd)
           /\ Mine(q, fd) /\ (q \in Task => task[q].pc # "handshake") => tls[fd] # "shaking"
           /\ Held(fd) => sock[fd] # "none" /\ fd \notin Unused
<1>1. Mine(q, fd) => Held(fd) /\ \A p \in Task \ {q} : ~Holds(p, fd)
  BY DEF HttpInv, Alone, Mine, Held
<1>2. Held(fd) => Mine(q, fd) \/ \E p \in Task \ {q} : Holds(p, fd)
  BY DEF Mine, Held
<1>3. Mine(q, fd) /\ (q \in Task => task[q].pc # "handshake") => tls[fd] # "shaking"
  BY DEF HttpInv, Mine, Carries, CarriesOf, PoolOf
<1>4. Held(fd) => sock[fd] # "none"
  BY DEF HttpInv, Sockets, SocketOf
<1> QED BY <1>1, <1>2, <1>3, <1>4 DEF Unused
LEMMA ClientKeepsOwners ==
    ASSUME HttpInv, NEW q, NEW X, NEW N, ClientMoves(q, X, N)
    PROVE  Alone' /\ PoolOnce' /\ Owned'
<1> USE DEF ClientMoves
<1>1. \A p \in Task \ {q}, fd \in Fd : Holds(p, fd)' <=> Holds(p, fd)
  BY DEF MovesTask, Holds
<1>2. \A fd \in Fd : InPool(fd)' => Mine(q, fd)
  BY DEF MovesOwners
<1>3. ASSUME NEW p \in Task, NEW p2 \in Task, NEW fd \in Fd, Holds(p, fd)', Holds(p2, fd)'
      PROVE  p = p2
  <2>1. CASE p # q /\ p2 # q
    BY <1>1, <1>3, <2>1 DEF HttpInv, Alone
  <2>2. \A r \in Task \ {q} : Holds(r, fd)' /\ q \in Task => ~Holds(q, fd)'
    <3> SUFFICES ASSUME NEW r \in Task \ {q}, Holds(r, fd), q \in Task, Holds(q, fd)' PROVE FALSE
      BY <1>1
    <3>1. Mine(q, fd) \/ fd \in Unused
      BY DEF MovesOwners, MovesSockets
    <3>2. Held(fd)
      BY DEF Held
    <3> QED BY <3>1, <3>2, Distinct
  <2> QED BY <1>3, <2>1, <2>2
<1>4. ASSUME NEW p \in Task, NEW fd \in Fd, Holds(p, fd)', InPool(fd)'
      PROVE  FALSE
  <2>1. CASE p # q
    BY <1>1, <1>2, <1>4, <2>1, Distinct
  <2>2. CASE p = q
    BY <1>4, <2>2 DEF MovesOwners
  <2> QED BY <2>1, <2>2
<1>5. Alone'
  BY <1>3, <1>4 DEF Alone
<1>6. ASSUME NEW fd \in Fd, sock'[fd] \in {"opening", "open"} PROVE Held(fd)' \/ tls'[fd] = "shaking"
  <2>1. CASE fd \in N
    BY <2>1 DEF MovesOwners, Mine, Held
  <2>2. CASE fd \notin N
    <3>1. fd \notin X /\ sock[fd] \in {"opening", "open"}
      BY <1>6, <2>2 DEF MovesSockets
    <3>2. Held(fd) \/ tls[fd] = "shaking"
      BY <3>1 DEF HttpInv, Owned
    <3>3. ASSUME Mine(q, fd) PROVE Held(fd)'
      BY <3>1, <3>3 DEF MovesOwners, Mine, Held
    <3>4. ASSUME NEW p \in Task \ {q}, Holds(p, fd) PROVE Held(fd)'
      BY <1>1, <3>4 DEF Held
    <3>5. tls' = tls
      BY DEF MovesSockets
    <3> QED BY <3>2, <3>3, <3>4, <3>5, Distinct
  <2> QED BY <2>1, <2>2
<1>7. Owned'
  BY <1>6 DEF Owned
<1> QED BY <1>5, <1>7 DEF MovesPool
LEMMA ClientSockets ==
    ASSUME HttpInv, NEW q, NEW X, NEW N, ClientMoves(q, X, N), NEW fd \in Fd
    PROVE  /\ tls'[fd] = tls[fd] /\ rclosed'[fd] = rclosed[fd] /\ wire'[fd] = wire[fd]
           /\ ~Touched(fd) => buf'[fd] = buf[fd] /\ inbox'[fd] = inbox[fd]
           /\ fd \in N => sock[fd] = "none" /\ ~Held(fd) /\ sock'[fd] = "opening"
                          /\ handler'[fd] = "connecting" /\ ~Touched(fd)
           /\ fd \notin N /\ fd \in X => Held(fd) /\ sock'[fd] = "gone" /\ handler'[fd] = "none"
           /\ fd \notin N /\ fd \notin X => sock'[fd] = sock[fd] /\ handler'[fd] = handler[fd]
           /\ Held(fd)' => fd \notin X /\ (Held(fd) \/ fd \in N)
           /\ Held(fd) => Held(fd)' \/ tls[fd] # "shaking"
<1> USE DEF ClientMoves
<1>1. tls' = tls /\ rclosed' = rclosed /\ wire' = wire
  BY DEF MovesSockets
<1>2. ~Touched(fd) => buf'[fd] = buf[fd] /\ inbox'[fd] = inbox[fd]
  BY DEF Touched
<1>3. Touched(fd) => Held(fd)
  BY Distinct DEF MovesSockets
<1>4. fd \in N => sock[fd] = "none" /\ sock'[fd] = "opening" /\ handler'[fd] = "connecting"
  BY DEF MovesSockets, Unused
<1>5. fd \notin N /\ fd \in X => Held(fd) /\ sock'[fd] = "gone" /\ handler'[fd] = "none"
  <2>1. fd \in X => Mine(q, fd)
    BY DEF MovesOwners
  <2> QED BY <2>1, Distinct DEF MovesSockets
<1>6. fd \notin N /\ fd \notin X => sock'[fd] = sock[fd] /\ handler'[fd] = handler[fd]
  BY DEF MovesSockets
<1>7. \A p \in Task \ {q} : Holds(p, fd)' <=> Holds(p, fd)
  BY DEF MovesTask, Holds
<1>8. ASSUME Held(fd)' PROVE fd \notin X /\ (Held(fd) \/ fd \in N)
  <2>1. CASE InPool(fd)'
    BY <2>1, Distinct DEF MovesOwners
  <2>2. CASE \E p \in Task \ {q} : Holds(p, fd)'
    <3>1. PICK p \in Task \ {q} : Holds(p, fd)
      BY <1>7, <2>2
    <3>2. ~Mine(q, fd)
      BY <3>1, Distinct
    <3> QED BY <3>1, <3>2 DEF MovesOwners, Held
  <2>3. CASE q \in Task /\ Holds(q, fd)'
    BY <2>3, Distinct DEF MovesOwners
  <2> QED BY <1>8, <2>1, <2>2, <2>3 DEF Held
<1>9. Held(fd) => Held(fd)' \/ tls[fd] # "shaking"
  <2>1. Mine(q, fd) => tls[fd] # "shaking"
    BY Distinct DEF MovesTask
  <2>2. (\E p \in Task \ {q} : Holds(p, fd)) => Held(fd)'
    BY <1>7 DEF Held
  <2> QED BY <2>1, <2>2, Distinct
<1>10. Held(fd) => sock[fd] # "none"
  BY Distinct
<1> QED BY <1>1, <1>2, <1>3, <1>4, <1>5, <1>6, <1>8, <1>9, <1>10
LEMMA ClientKeepsSockets ==
    ASSUME HttpInv, NEW q, NEW X, NEW N, ClientMoves(q, X, N)
    PROVE  Sockets'
<1>0. mail' = mail /\ served' = served
  BY DEF ClientMoves, MovesSockets
<1>1. SUFFICES ASSUME NEW fd \in Fd PROVE SocketOf(fd)' /\ EndsLast(fd)'
  BY DEF Sockets
<1>2. SocketOf(fd) /\ EndsLast(fd)
  BY DEF HttpInv, Sockets
<1>3. Touched(fd) => Held(fd) /\ handler[fd] # "connecting" /\ Len(inbox'[fd]) <= 1
                     /\ tls[fd] # "shaking"
  <2>1. Touched(fd) => Mine(q, fd) /\ handler[fd] # "connecting" /\ Len(inbox'[fd]) <= 1
    BY DEF ClientMoves, MovesSockets
  <2> QED BY <2>1, Distinct DEF ClientMoves, MovesTask
<1>4. /\ tls'[fd] = tls[fd] /\ rclosed'[fd] = rclosed[fd] /\ wire'[fd] = wire[fd]
      /\ ~Touched(fd) => buf'[fd] = buf[fd] /\ inbox'[fd] = inbox[fd]
      /\ fd \in N => sock[fd] = "none" /\ ~Held(fd) /\ sock'[fd] = "opening"
                     /\ handler'[fd] = "connecting" /\ ~Touched(fd)
      /\ fd \notin N /\ fd \in X => Held(fd) /\ sock'[fd] = "gone" /\ handler'[fd] = "none"
      /\ fd \notin N /\ fd \notin X => sock'[fd] = sock[fd] /\ handler'[fd] = handler[fd]
      /\ Held(fd)' => fd \notin X /\ (Held(fd) \/ fd \in N)
      /\ Held(fd) => Held(fd)' \/ tls[fd] # "shaking"
  BY ClientSockets
<1>5. ~Touched(fd) => (Calm(fd)' <=> Calm(fd))
  BY <1>0, <1>4 DEF Calm
<1>6. Held(fd) => sock[fd] \notin {"none", "gone"}
  BY <1>2 DEF SocketOf
<1>7. SilentIn(mail', fd) <=> SilentIn(mail, fd)
  BY <1>0
<1>8. NotServed(fd)' <=> NotServed(fd)
  BY <1>0 DEF NotServed
<1>9. SocketOf(fd)'
  <2>1. sock'[fd] = "none" => Calm(fd)' /\ tls'[fd] = "plain" /\ ~rclosed'[fd] /\ NotServed(fd)'
    BY <1>2, <1>3, <1>4, <1>5, <1>6, <1>8 DEF SocketOf
  <2>2. Held(fd)' => sock'[fd] \notin {"none", "gone"}
    BY <1>4, <1>6
  <2>3. handler'[fd] = "connecting" => Calm(fd)' /\ tls'[fd] = "plain"
    BY <1>2, <1>3, <1>4, <1>5 DEF SocketOf
  <2>4. sock'[fd] \in {"opening", "open"} => handler'[fd] # "none"
    BY <1>2, <1>4 DEF SocketOf
  <2>5. sock'[fd] # "gone" /\ handler'[fd] = "none" => SilentIn(mail', fd)
    BY <1>2, <1>4, <1>7 DEF SocketOf
  <2>6. rclosed'[fd] => sock'[fd] \in {"shut", "gone"}
    BY <1>2, <1>4 DEF SocketOf
  <2>7. Len(inbox'[fd]) <= 1
    BY <1>2, <1>3, <1>4 DEF SocketOf
  <2>8. tls'[fd] = "shaking" /\ ~Held(fd)' => Calm(fd)'
    BY <1>2, <1>3, <1>4, <1>5 DEF SocketOf
  <2> QED BY <2>1, <2>2, <2>3, <2>4, <2>5, <2>6, <2>7, <2>8 DEF SocketOf
<1>10. EndsLast(fd)'
  <2>1. sock[fd] \in {"shut", "gone"} => sock'[fd] \in {"shut", "gone"}
    BY <1>4
  <2> QED BY <1>0, <1>2, <2>1 DEF EndsLast
<1> QED BY <1>9, <1>10
LEMMA ClientKeepsCarries ==
    ASSUME HttpInv, NEW q, NEW X, NEW N, ClientMoves(q, X, N)
    PROVE  Carries'
<1>0. mail' = mail /\ served' = served
  BY DEF ClientMoves, MovesSockets
<1>1. ASSUME NEW p \in Task \ {q}, NEW fd \in Fd, Holds(p, fd)' PROVE CarriesOf(p, fd)'
  <2>1. task'[p] = task[p]
    BY DEF ClientMoves, MovesTask
  <2>2. Holds(p, fd) /\ ~Mine(q, fd)
    <3>1. Holds(p, fd)
      BY <1>1, <2>1 DEF Holds
    <3> QED BY <3>1, Distinct
  <2>3. Held(fd) /\ ~Touched(fd) /\ fd \notin X /\ fd \notin N
    <3>1. Held(fd)
      BY <2>2 DEF Held
    <3>2. ~Touched(fd) /\ fd \notin X
      BY <2>2 DEF ClientMoves, MovesSockets, MovesOwners
    <3> QED BY <3>1, <3>2, ClientSockets
  <2>4. /\ tls'[fd] = tls[fd] /\ wire'[fd] = wire[fd] /\ buf'[fd] = buf[fd]
        /\ inbox'[fd] = inbox[fd] /\ handler'[fd] = handler[fd]
    BY <2>3, ClientSockets
  <2>5. CarriesOf(p, fd)
    BY <2>2 DEF HttpInv, Carries
  <2>6. \A x : Asked(fd, x)' <=> Asked(fd, x)
    BY <1>0, <2>4 DEF Asked
  <2>7. \A R, c : Coming(fd, R, c)' <=> Coming(fd, R, c)
    BY <1>0, <2>4 DEF Coming
  <2>8. Answering(p, fd)' <=> Answering(p, fd)
    BY <1>0, <2>1, <2>4, AnsweringSame
  <2>9. (Rest(fd)' <=> Rest(fd)) /\ \A R : After(fd, R)' <=> After(fd, R)
    BY <1>0, <2>4, RestSame
  <2>10. \A x : Wanted(fd, x)' <=> Wanted(fd, x)
    BY <2>4, <2>9 DEF Wanted
  <2> QED BY <2>1, <2>4, <2>5, <2>6, <2>7, <2>8, <2>9, <2>10 DEF CarriesOf
<1>2. ASSUME q \in Task, NEW fd \in Fd, Holds(q, fd)' PROVE CarriesOf(q, fd)'
  BY <1>2 DEF ClientMoves, MovesTask
<1>3. ASSUME NEW fd \in Fd, InPool(fd)' PROVE PoolOf(fd)'
  <2>1. SUFFICES ASSUME InPool(fd), ~Touched(fd) PROVE PoolOf(fd)'
    BY <1>3 DEF ClientMoves, MovesPool
  <2>2. PoolOf(fd)
    BY <2>1 DEF HttpInv, Carries
  <2>3. fd \notin X /\ fd \notin N
    <3>1. fd \notin X
      BY <1>3 DEF ClientMoves, MovesOwners
    <3>2. Held(fd)
      BY <2>1 DEF Held
    <3> QED BY <3>1, <3>2, ClientSockets
  <2>4. /\ tls'[fd] = tls[fd] /\ wire'[fd] = wire[fd] /\ buf'[fd] = buf[fd]
        /\ inbox'[fd] = inbox[fd] /\ handler'[fd] = handler[fd]
    BY <2>1, <2>3, ClientSockets
  <2>5. Rest(fd)' <=> Rest(fd)
    BY <1>0, <2>4, RestSame
  <2> QED BY <1>0, <2>2, <2>4, <2>5 DEF PoolOf, Carried
<1> QED BY <1>1, <1>2, <1>3 DEF Carries
LEMMA ClientKeepsSent ==
    ASSUME HttpInv, NEW q, NEW X, NEW N, ClientMoves(q, X, N)
    PROVE  Sent' /\ Answers'
<1>0. served' = served
  BY DEF ClientMoves, MovesSockets
<1>1. ASSUME NEW p \in Task \ {q} PROVE SentOf(p)' /\ AnswerOf(p, task'[p])
  <2>1. task'[p] = task[p]
    BY DEF ClientMoves, MovesTask
  <2>2. \A fd \in Fd : Waits(p, fd)' => Waits(p, fd)
    BY DEF ClientMoves, MovesSockets
  <2>3. \A fd \in Fd : On(p, fd)' => On(p, fd)
    BY <1>0, <2>2 DEF On
  <2>4. \A fd, S : Carried(fd, S)' <=> Carried(fd, S)
    BY <1>0 DEF Carried
  <2>5. SentOf(p) /\ AnswerOf(p, task[p])
    BY DEF HttpInv, Sent, Answers
  <2>6. task[p].fd \in Fd \/ ~(task[p].pc \in {"connecting", "handshake"})
    BY DEF HttpInv, HttpTypes, Active
  <2>7. SentOf(p)'
    BY <1>0, <2>1, <2>2, <2>3, <2>4, <2>5, <2>6 DEF SentOf
  <2> QED BY <2>1, <2>5, <2>7
<1>2. ASSUME q \in Task PROVE SentOf(q)' /\ AnswerOf(q, task'[q])
  BY <1>2 DEF ClientMoves, MovesTask
<1> QED BY <1>1, <1>2 DEF Sent, Answers
LEMMA ClientKeeps ==
    ASSUME HttpInv, NEW q, NEW X, NEW N, ClientMoves(q, X, N)
    PROVE  HttpInv'
BY ClientKeepsTypes, ClientKeepsOwners, ClientKeepsSockets, ClientKeepsCarries, ClientKeepsSent
   DEF HttpInv
LEMMA Cut ==
    ASSUME NEW T, NEW s \in Seq(T), NEW a \in 1 .. Len(s) + 1, NEW b \in 0 .. Len(s)
    PROVE  /\ SubSeq(s, a, b) \in Seq(T) /\ Len(SubSeq(s, a, b)) <= Len(s)
           /\ Len(SubSeq(s, a, b)) = IF a <= b THEN b - a + 1 ELSE 0
           /\ DOMAIN SubSeq(s, a, b) = 1 .. Len(SubSeq(s, a, b))
           /\ \A i \in DOMAIN SubSeq(s, a, b) : SubSeq(s, a, b)[i] = s[a + i - 1] /\ a + i - 1 \in a .. b
           /\ \A j \in a .. b : /\ j - a + 1 \in DOMAIN SubSeq(s, a, b)
                                /\ SubSeq(s, a, b)[j - a + 1] = s[j] /\ j \in DOMAIN s
<1> DEFINE t == SubSeq(s, a, b)
<1>1. a \in Nat /\ b \in Nat /\ Len(s) \in Nat /\ a >= 1 /\ b <= Len(s) /\ a <= Len(s) + 1
  OBVIOUS
<1>2. t \in Seq(T) /\ Len(t) = IF a <= b THEN b - a + 1 ELSE 0
  BY <1>1
<1>3. ASSUME NEW i \in 1 .. Len(t) PROVE t[i] = s[a + i - 1] /\ a + i - 1 \in a .. b
  <2>1. a <= b /\ i \in 1 .. (b - a + 1)
    BY <1>1, <1>2, <1>3
  <2> QED BY <1>1, <2>1
<1>4. DOMAIN t = 1 .. Len(t)
  BY <1>2
<1> HIDE DEF t
<1>5. ASSUME NEW j \in a .. b PROVE j - a + 1 \in DOMAIN t /\ t[j - a + 1] = s[j] /\ j \in DOMAIN s
  <2>1. j \in Nat /\ a <= j /\ j <= b
    BY <1>1
  <2>2. j - a + 1 \in 1 .. Len(t) /\ a + (j - a + 1) - 1 = j /\ j \in DOMAIN s
    BY <1>1, <1>2, <2>1
  <2> QED BY <1>3, <1>4, <2>2
<1>6. Len(t) <= Len(s)
  BY <1>1, <1>2
<1> QED BY <1>2, <1>3, <1>4, <1>5, <1>6 DEF t
\* Connections leave the pool, in any way that keeps each at most once.
PoolShrinks ==
    /\ pool' \in [Key -> Seq(Conn)] /\ cleanup' \in BOOLEAN
    /\ \A key \in Key : Len(pool'[key]) <= Len(pool[key])
    /\ \A key \in Key : \A i \in DOMAIN pool'[key] :
          \E j \in DOMAIN pool[key] : pool'[key][i].fd = pool[key][j].fd
    /\ \A key \in Key : \A i, j \in DOMAIN pool'[key] : pool'[key][i].fd = pool'[key][j].fd => i = j
LEMMA ShrinksOnce ==
    ASSUME HttpInv, PoolShrinks
    PROVE  PoolOnce' /\ \A fd : InPool(fd)' => InPool(fd)
<1>1. ASSUME NEW k1 \in Key, NEW k2 \in Key, NEW i1 \in DOMAIN pool'[k1], NEW i2 \in DOMAIN pool'[k2],
             pool'[k1][i1].fd = pool'[k2][i2].fd
      PROVE  k1 = k2 /\ i1 = i2
  <2>1. PICK j1 \in DOMAIN pool[k1] : pool'[k1][i1].fd = pool[k1][j1].fd
    BY DEF PoolShrinks
  <2>2. PICK j2 \in DOMAIN pool[k2] : pool'[k2][i2].fd = pool[k2][j2].fd
    BY DEF PoolShrinks
  <2>3. k1 = k2
    BY ZenonT(40), <1>1, <2>1, <2>2 DEF HttpInv, PoolOnce
  <2> QED BY <1>1, <2>3 DEF PoolShrinks
<1>2. ASSUME NEW key \in Key PROVE Len(pool'[key]) <= MaxPerHost
  <2>1. Len(pool'[key]) \in Nat /\ Len(pool[key]) \in Nat
    BY DEF PoolShrinks, HttpInv, HttpTypes
  <2>2. Len(pool'[key]) <= Len(pool[key]) /\ Len(pool[key]) <= MaxPerHost
    BY DEF PoolShrinks, HttpInv, PoolOnce
  <2>3. MaxPerHost \in Nat
    BY Limits
  <2> QED BY <2>1, <2>2, <2>3
<1>3. \A fd : InPool(fd)' => InPool(fd)
  BY DEF PoolShrinks, InPool
<1> QED BY <1>1, <1>2, <1>3 DEF PoolOnce
LEMMA ShrinksWell ==
    ASSUME HttpInv, PoolShrinks, buf' = buf, inbox' = inbox
    PROVE  MovesPool
BY ShrinksOnce DEF MovesPool, PoolShrinks, Touched
\* A part of one key's connections stays.
PoolCut(key, a, b) ==
    /\ a \in 1 .. Len(pool[key]) + 1 /\ b \in 0 .. Len(pool[key])
    /\ pool' = [pool EXCEPT ![key] = SubSeq(pool[key], a, b)] /\ cleanup' \in BOOLEAN
LEMMA CutShrinks ==
    ASSUME HttpInv, NEW key \in Key, NEW a, NEW b, PoolCut(key, a, b)
    PROVE  /\ PoolShrinks
           /\ \A fd : InPool(fd)' <=>
                 \/ \E j \in a .. b : j \in DOMAIN pool[key] /\ pool[key][j].fd = fd
                 \/ \E k \in Key \ {key} : \E i \in DOMAIN pool[k] : pool[k][i].fd = fd
<1> USE DEF PoolCut
<1> DEFINE s == pool[key]
           t == SubSeq(s, a, b)
<1>1. pool \in [Key -> Seq(Conn)] /\ s \in Seq(Conn)
  BY DEF HttpInv, HttpTypes
<1>2. /\ t \in Seq(Conn) /\ Len(t) <= Len(s) /\ DOMAIN t = 1 .. Len(t)
      /\ \A i \in DOMAIN t : t[i] = s[a + i - 1] /\ a + i - 1 \in a .. b
      /\ \A j \in a .. b : j - a + 1 \in DOMAIN t /\ t[j - a + 1] = s[j] /\ j \in DOMAIN s
  BY <1>1, Cut
<1>3. pool'[key] = t /\ \A k \in Key \ {key} : pool'[k] = pool[k]
  BY <1>1
<1>4. pool' \in [Key -> Seq(Conn)]
  <2> HIDE DEF t
  <2>1. pool' = [pool EXCEPT ![key] = t]
    BY DEF t
  <2> QED BY <1>1, <1>2, <2>1
<1>5. \A i, j \in DOMAIN s : s[i].fd = s[j].fd => i = j
  BY DEF HttpInv, PoolOnce
<1>6. \A i, j \in DOMAIN t : a + i - 1 = a + j - 1 => i = j
  BY <1>2
<1>7. \A k \in Key : Len(pool[k]) <= Len(pool[k])
  BY <1>1
<1>8. \A k \in Key \ {key} : \A i, j \in DOMAIN pool[k] : pool[k][i].fd = pool[k][j].fd => i = j
  BY DEF HttpInv, PoolOnce
<1> HIDE DEF t, s
<1>9. \A i, j \in DOMAIN t : t[i].fd = t[j].fd => i = j
  <2> SUFFICES ASSUME NEW i \in DOMAIN t, NEW j \in DOMAIN t, t[i].fd = t[j].fd PROVE i = j
    OBVIOUS
  <2>1. /\ t[i] = s[a + i - 1] /\ a + i - 1 \in DOMAIN s
        /\ t[j] = s[a + j - 1] /\ a + j - 1 \in DOMAIN s
    BY <1>2
  <2>2. a + i - 1 = a + j - 1
    BY <1>5, <2>1
  <2> QED BY <1>6, <2>2
<1>10. PoolShrinks
  <2>1. \A k \in Key : Len(pool'[k]) <= Len(pool[k])
    BY <1>2, <1>3, <1>7 DEF s
  <2>2. \A k \in Key : \A i \in DOMAIN pool'[k] : \E j \in DOMAIN pool[k] : pool'[k][i].fd = pool[k][j].fd
    <3>1. \A i \in DOMAIN t : \E j \in DOMAIN s : t[i].fd = s[j].fd
      BY <1>2
    <3>2. \A k \in Key \ {key} : \A i \in DOMAIN pool'[k] : pool'[k][i].fd = pool[k][i].fd /\ i \in DOMAIN pool[k]
      BY <1>3
    <3>3. ASSUME NEW k \in Key
          PROVE  \A i \in DOMAIN pool'[k] : \E j \in DOMAIN pool[k] : pool'[k][i].fd = pool[k][j].fd
      <4>1. CASE k = key
        BY <1>3, <3>1, <4>1 DEF s
      <4>2. CASE k # key
        BY <3>2, <4>2
      <4> QED BY <4>1, <4>2
    <3> QED BY <3>3
  <2>3. \A k \in Key : \A i, j \in DOMAIN pool'[k] : pool'[k][i].fd = pool'[k][j].fd => i = j
    <3>1. ASSUME NEW k \in Key PROVE \A i, j \in DOMAIN pool'[k] : pool'[k][i].fd = pool'[k][j].fd => i = j
      <4>1. CASE k = key
        BY ZenonT(40), <1>3, <1>9, <4>1
      <4>2. CASE k # key
        <5>1. pool'[k] = pool[k] /\ k \in Key \ {key}
          BY <1>3, <4>2
        <5> QED BY <1>8, <5>1
      <4> QED BY <4>1, <4>2
    <3> QED BY <3>1
  <2> QED BY <1>4, <2>1, <2>2, <2>3 DEF PoolShrinks
<1>11. ASSUME NEW fd, InPool(fd)'
       PROVE  \/ \E j \in a .. b : j \in DOMAIN s /\ s[j].fd = fd
              \/ \E k \in Key \ {key} : \E i \in DOMAIN pool[k] : pool[k][i].fd = fd
  <2>1. PICK k \in Key : \E i \in DOMAIN pool'[k] : pool'[k][i].fd = fd
    BY <1>11 DEF InPool
  <2>2. CASE k = key
    <3>1. PICK i \in DOMAIN t : t[i].fd = fd
      BY <1>3, <2>1, <2>2
    <3>2. t[i] = s[a + i - 1] /\ a + i - 1 \in a .. b /\ a + i - 1 \in DOMAIN s
      BY <1>2
    <3> QED BY <3>1, <3>2
  <2>3. CASE k # key
    BY <1>3, <2>1, <2>3
  <2> QED BY <2>2, <2>3
<1>12. ASSUME NEW fd, NEW j \in a .. b, s[j].fd = fd PROVE InPool(fd)'
  <2>1. j - a + 1 \in DOMAIN t /\ t[j - a + 1] = s[j]
    BY <1>2
  <2>2. \E i \in DOMAIN pool'[key] : pool'[key][i].fd = fd
    BY <1>3, <1>12, <2>1
  <2> QED BY <2>2 DEF InPool
<1>13. ASSUME NEW fd, NEW k \in Key \ {key}, NEW i \in DOMAIN pool[k], pool[k][i].fd = fd
       PROVE  InPool(fd)'
  <2>1. \E j \in DOMAIN pool'[k] : pool'[k][j].fd = fd
    BY <1>3, <1>13
  <2> QED BY <2>1 DEF InPool
<1> QED BY <1>10, <1>11, <1>12, <1>13 DEF s
LEMMA FdsCut ==
    ASSUME NEW s \in Seq(Conn), NEW a \in 1 .. Len(s) + 1, NEW b \in 0 .. Len(s)
    PROVE  FdsOf(SubSeq(s, a, b)) = {s[j].fd : j \in a .. b} /\ FdsOf(SubSeq(s, a, b)) \subseteq Fd
<1> DEFINE t == SubSeq(s, a, b)
<1>1. /\ t \in Seq(Conn) /\ DOMAIN t = 1 .. Len(t)
      /\ \A i \in DOMAIN t : t[i] = s[a + i - 1] /\ a + i - 1 \in a .. b
      /\ \A j \in a .. b : j - a + 1 \in DOMAIN t /\ t[j - a + 1] = s[j] /\ j \in DOMAIN s
  BY Cut
<1> HIDE DEF t
<1>2. \A i \in DOMAIN t : t[i].fd \in Fd
  <2>1. \A i \in DOMAIN t : t[i] \in Conn
    BY <1>1
  <2> QED BY <2>1 DEF Conn
<1>3. ASSUME NEW f \in FdsOf(t) PROVE \E j \in a .. b : f = s[j].fd
  <2>1. PICK i \in DOMAIN t : f = t[i].fd
    BY DEF FdsOf
  <2>2. t[i] = s[a + i - 1] /\ a + i - 1 \in a .. b
    BY <1>1
  <2> QED BY <2>1, <2>2
<1>4. \A j \in a .. b : s[j].fd \in FdsOf(t)
  BY <1>1 DEF FdsOf
<1>5. FdsOf(t) \subseteq Fd
  BY <1>2 DEF FdsOf
<1> QED BY <1>3, <1>4, <1>5 DEF t
\* poolPut: fd comes last, and what is too much goes.
LEMMA PutKeeps ==
    ASSUME HttpInv, NEW key \in Key, NEW fd \in Fd, ~InPool(fd), NEW head, head.keep,
           PoolPut(key, fd, head)
    PROVE  \E X \in SUBSET Fd :
              /\ Closes(X) /\ pool' \in [Key -> Seq(Conn)] /\ cleanup' \in BOOLEAN /\ PoolOnce'
              /\ \A g : InPool(g)' <=> g = fd \/ (InPool(g) /\ g \notin X)
              /\ \A g \in X : InPool(g)
<1> DEFINE s == pool[key]
           o == Len(s) + 1 - MaxPerHost
           a == (IF o > 0 THEN o ELSE 0) + 1
           n == Len(s)
           t == SubSeq(s, a, n)
           ok == FALSE
           c == [fd |-> fd, expired |-> ok]
           u == Append(t, c)
           X == IF o > 0 THEN FdsOf(SubSeq(s, 1, o)) ELSE {}
<1>1. pool \in [Key -> Seq(Conn)] /\ s \in Seq(Conn)
  BY DEF HttpInv, HttpTypes
<1>2. pool' = [pool EXCEPT ![key] = u] /\ cleanup' = TRUE /\ Closes(X)
  BY DEF PoolPut, Kept
<1>3. c \in Conn
  <2>1. ok \in BOOLEAN
    OBVIOUS
  <2> HIDE DEF ok
  <2> QED BY <2>1 DEF Conn
<1>4. MaxPerHost \in Nat /\ MaxPerHost >= 1
  <2>1. MaxPerHost \in Nat \ {0}
    BY Limits
  <2> QED BY <2>1
<1>5. n \in Nat /\ n <= MaxPerHost /\ DOMAIN s = 1 .. n
  BY <1>1 DEF HttpInv, PoolOnce
<1>6. /\ a \in 1 .. n + 1 /\ o <= n /\ n - a + 1 <= MaxPerHost - 1 /\ 0 <= MaxPerHost - 1
      /\ o > 0 => o \in 0 .. n /\ a = o + 1 /\ 1 \in 1 .. n + 1
      /\ ~(o > 0) => a = 1
  BY <1>4, <1>5
<1>7. n \in 0 .. n
  BY <1>5
<1>8. /\ t \in Seq(Conn) /\ Len(t) = (IF a <= n THEN n - a + 1 ELSE 0) /\ DOMAIN t = 1 .. Len(t)
      /\ \A i \in DOMAIN t : t[i] = s[a + i - 1] /\ a + i - 1 \in a .. n
      /\ \A j \in a .. n : j - a + 1 \in DOMAIN t /\ t[j - a + 1] = s[j] /\ j \in DOMAIN s
  <2>1. s \in Seq(Conn) /\ a \in 1 .. Len(s) + 1 /\ n \in 0 .. Len(s)
    BY <1>1, <1>6, <1>7
  <2> HIDE DEF a, n, s
  <2> QED BY <2>1, Cut
<1>9. /\ o > 0 => X = {s[j].fd : j \in 1 .. o} /\ X \subseteq Fd
      /\ ~(o > 0) => X = {}
  BY <1>1, <1>6, FdsCut
<1> HIDE DEF t, s, c, n, X, a, o
<1>10. /\ u \in Seq(Conn) /\ Len(u) = Len(t) + 1 /\ Len(t) \in Nat /\ DOMAIN u = 1 .. Len(t) + 1
       /\ u[Len(t) + 1] = c /\ \A i \in 1 .. Len(t) : u[i] = t[i]
  BY <1>3, <1>8
<1> HIDE DEF u
<1>11. pool' \in [Key -> Seq(Conn)] /\ pool'[key] = u /\ \A k \in Key \ {key} : pool'[k] = pool[k]
  BY <1>1, <1>2, <1>10
<1>12. Len(u) <= MaxPerHost
  BY <1>4, <1>5, <1>6, <1>8, <1>10
<1>13. c.fd = fd
  BY DEF c
<1>14. \A i, j \in DOMAIN s : s[i].fd = s[j].fd => i = j
  BY DEF HttpInv, PoolOnce, s
<1>15. \A k \in Key : \A i \in DOMAIN pool[k] : pool[k][i].fd # fd
  BY DEF InPool
<1>16. \A i \in DOMAIN u : i \in DOMAIN t \/ i = Len(t) + 1
  BY <1>8, <1>10
<1>17. \A i \in DOMAIN t : u[i] = t[i] /\ t[i].fd # fd /\ a + i - 1 \in DOMAIN s /\ t[i] = s[a + i - 1]
  <2> SUFFICES ASSUME NEW i \in DOMAIN t
               PROVE u[i] = t[i] /\ t[i].fd # fd /\ a + i - 1 \in DOMAIN s /\ t[i] = s[a + i - 1]
    OBVIOUS
  <2>1. u[i] = t[i] /\ a + i - 1 \in DOMAIN s /\ t[i] = s[a + i - 1]
    BY <1>8, <1>10
  <2> QED BY <1>15, <2>1 DEF s
<1>18. \A i, j \in DOMAIN u : u[i].fd = u[j].fd => i = j
  <2>1. ASSUME NEW i \in DOMAIN t, NEW j \in DOMAIN t, u[i].fd = u[j].fd PROVE i = j
    <3>1. a + i - 1 = a + j - 1
      BY <1>14, <1>17, <2>1
    <3> QED BY <1>6, <1>8, <3>1
  <2>2. \A i \in DOMAIN t : u[i].fd # u[Len(t) + 1].fd
    BY <1>10, <1>13, <1>17
  <2> QED BY <1>16, <2>1, <2>2
<1>19. \A k \in Key \ {key} : \A i \in DOMAIN pool[k], j \in DOMAIN u : pool[k][i].fd # u[j].fd
  <2> SUFFICES ASSUME NEW k \in Key \ {key}, NEW i \in DOMAIN pool[k], NEW j \in DOMAIN u
               PROVE  pool[k][i].fd # u[j].fd
    OBVIOUS
  <2>1. CASE j = Len(t) + 1
    BY <1>10, <1>13, <1>15, <2>1
  <2>2. CASE j \in DOMAIN t
    <3>1. u[j] = s[a + j - 1] /\ a + j - 1 \in DOMAIN s
      BY <1>17, <2>2
    <3> QED BY <3>1 DEF HttpInv, PoolOnce, s
  <2> QED BY <1>16, <2>1, <2>2
<1>20. PoolOnce'
  <2>1. ASSUME NEW k1 \in Key, NEW k2 \in Key, NEW i1 \in DOMAIN pool'[k1], NEW i2 \in DOMAIN pool'[k2],
               pool'[k1][i1].fd = pool'[k2][i2].fd
        PROVE  k1 = k2 /\ i1 = i2
    <3>1. CASE k1 = key /\ k2 = key
      BY <1>11, <1>18, <2>1, <3>1
    <3>2. CASE k1 = key /\ k2 # key
      BY SMTT(20), <1>11, <1>19, <2>1, <3>2
    <3>3. CASE k1 # key /\ k2 = key
      BY <1>11, <1>19, <2>1, <3>3
    <3>4. CASE k1 # key /\ k2 # key
      <4>1. pool'[k1] = pool[k1] /\ pool'[k2] = pool[k2]
        BY <1>11, <3>4
      <4> QED BY <2>1, <4>1 DEF HttpInv, PoolOnce
    <3> QED BY <3>1, <3>2, <3>3, <3>4
  <2>2. \A k \in Key : Len(pool'[k]) <= MaxPerHost
    <3>1. \A k \in Key \ {key} : Len(pool'[k]) <= MaxPerHost
      BY <1>11 DEF HttpInv, PoolOnce
    <3> QED BY <1>11, <1>12, <3>1
  <2> QED BY <2>1, <2>2 DEF PoolOnce
<1>21. \A g \in X : InPool(g) /\ ~\E j \in a .. n : s[j].fd = g
  <2> SUFFICES ASSUME NEW g \in X PROVE InPool(g) /\ ~\E j \in a .. n : s[j].fd = g
    OBVIOUS
  <2>1. PICK i \in 1 .. o : s[i].fd = g /\ o > 0
    BY <1>9
  <2>2. i \in DOMAIN s /\ \A j \in a .. n : i # j /\ j \in DOMAIN s
    BY <1>5, <1>6, <2>1
  <2> QED BY <1>14, <2>1, <2>2 DEF InPool, s
<1>22. \A g : (\E j \in DOMAIN s : s[j].fd = g) /\ g \notin X => \E j \in a .. n : s[j].fd = g
  <2> SUFFICES ASSUME NEW g, NEW j \in DOMAIN s, s[j].fd = g, g \notin X PROVE j \in a .. n
    OBVIOUS
  <2> QED BY <1>5, <1>6, <1>9
<1>23. \A k \in Key \ {key} : \A i \in DOMAIN pool[k] : pool[k][i].fd \notin X
  <2> SUFFICES ASSUME NEW k \in Key \ {key}, NEW i \in DOMAIN pool[k], pool[k][i].fd \in X PROVE FALSE
    OBVIOUS
  <2>1. PICK j \in 1 .. o : s[j].fd = pool[k][i].fd /\ o > 0
    BY <1>9
  <2>2. j \in DOMAIN s
    BY <1>5, <1>6, <2>1
  <2> QED BY <2>1, <2>2 DEF HttpInv, PoolOnce, s
<1>24. ASSUME NEW g PROVE InPool(g)' <=> g = fd \/ (InPool(g) /\ g \notin X)
  <2>1. InPool(g)' <=> (\E j \in DOMAIN u : u[j].fd = g)
                       \/ \E k \in Key \ {key} : \E i \in DOMAIN pool[k] : pool[k][i].fd = g
    BY <1>11 DEF InPool
  <2>2. (\E j \in DOMAIN u : u[j].fd = g) <=> g = fd \/ \E j \in a .. n : s[j].fd = g
    <3>1. Len(t) + 1 \in DOMAIN u
      BY <1>10
    <3>2. \A i \in DOMAIN t : u[i].fd = s[a + i - 1].fd /\ a + i - 1 \in a .. n
      BY <1>8, <1>17
    <3>3. \A j \in a .. n : j - a + 1 \in DOMAIN t /\ u[j - a + 1].fd = s[j].fd /\ j - a + 1 \in DOMAIN u
      BY <1>8, <1>10, <1>17
    <3>4. ASSUME NEW j \in DOMAIN u, u[j].fd = g PROVE g = fd \/ \E i \in a .. n : s[i].fd = g
      <4>1. CASE j = Len(t) + 1
        BY <1>10, <1>13, <3>4, <4>1
      <4>2. CASE j \in DOMAIN t
        <5>1. u[j].fd = s[a + j - 1].fd /\ a + j - 1 \in a .. n
          BY <3>2, <4>2
        <5> QED BY <3>4, <5>1
      <4> QED BY <1>16, <4>1, <4>2
    <3>5. ASSUME NEW i \in a .. n, s[i].fd = g PROVE \E j \in DOMAIN u : u[j].fd = g
      <4>1. i - a + 1 \in DOMAIN u /\ u[i - a + 1].fd = s[i].fd
        BY <3>3
      <4> QED BY <3>5, <4>1
    <3>6. g = fd => \E j \in DOMAIN u : u[j].fd = g
      BY <1>10, <1>13, <3>1
    <3> QED BY <3>4, <3>5, <3>6
  <2>3. InPool(g) <=> (\E j \in DOMAIN s : s[j].fd = g)
                      \/ \E k \in Key \ {key} : \E i \in DOMAIN pool[k] : pool[k][i].fd = g
    BY DEF InPool, s
  <2>4. \A j \in a .. n : j \in DOMAIN s
    BY <1>8
  <2> QED BY <1>21, <1>22, <1>23, <2>1, <2>2, <2>3, <2>4
<1>25. X \in SUBSET Fd
  BY <1>9
<1> QED BY <1>2, <1>11, <1>20, <1>21, <1>24, <1>25
\* Sockets are closed and none is opened.
ClosesOnly(X) == Closes(X) \/ (X = {} /\ UNCHANGED <<sock, handler>>)
LEMMA ClosingMoves ==
    ASSUME HttpInv, NEW q, NEW X \in SUBSET Fd, ClosesOnly(X),
           UNCHANGED <<rclosed, tls, mail, wire, eof, served>>,
           buf' \in [Fd -> Seq(Token)], inbox' \in [Fd -> Seq(0 .. MaxTask)],
           \A fd \in Fd : Touched(fd) =>
              Mine(q, fd) /\ handler[fd] # "connecting" /\ Len(inbox'[fd]) <= 1,
           \A p \in Task \ {q}, fd \in Fd : Waits(p, fd)' => Waits(p, fd)
    PROVE  MovesSockets(q, X, {})
<1>1. sock \in [Fd -> {"none", "opening", "open", "shut", "gone"}]
      /\ handler \in [Fd -> {"none", "connecting", "reader"}]
  BY DEF HttpInv, HttpTypes, NetTypes
<1>2. /\ sock' = [fd \in Fd |-> IF fd \in X THEN "gone" ELSE sock[fd]]
      /\ handler' = [fd \in Fd |-> IF fd \in X THEN "none" ELSE handler[fd]]
  BY <1>1 DEF ClosesOnly, Closes, Closed, Forgotten
<1> QED BY <1>2 DEF MovesSockets
LEMMA PoolMoves ==
    ASSUME HttpInv, PoolShrinks, NEW X \in SUBSET Fd, ClosesOnly(X),
           UNCHANGED <<buf, rclosed, tls, mail, wire, eof, inbox, task, served>>,
           \A g \in X : InPool(g), \A g \in Fd : InPool(g)' <=> InPool(g) /\ g \notin X
    PROVE  HttpInv'
<1>1. 0 \notin Task
  BY DEF Task
<1>2. \A fd : (Mine(0, fd) <=> InPool(fd)) /\ (Mine(0, fd)' <=> InPool(fd)')
  BY <1>1 DEF Mine
<1>3. \A fd \in Fd : ~Touched(fd)
  BY DEF Touched
<1>4. /\ buf' \in [Fd -> Seq(Token)] /\ inbox' \in [Fd -> Seq(0 .. MaxTask)]
      /\ task' \in [Task -> Request]
  BY DEF HttpInv, HttpTypes, NetTypes
<1>5. \A p \in Task \ {0}, fd \in Fd : Waits(p, fd)' => Waits(p, fd)
  BY DEF Waits
<1>6. MovesSockets(0, X, {})
  BY <1>3, <1>4, <1>5, ClosingMoves
<1>7. MovesOwners(0, X, {})
  BY <1>1, <1>2 DEF MovesOwners
<1>8. MovesTask(0)
  BY <1>1, <1>4 DEF MovesTask
<1>9. MovesPool
  BY ShrinksWell
<1> QED BY <1>6, <1>7, <1>8, <1>9, ClientKeeps DEF ClientMoves
LEMMA ExpireKeeps ==
    ASSUME HttpInv, NEW key \in Key, NEW i \in DOMAIN pool[key], Expire(key, i)
    PROVE  HttpInv'
<1> DEFINE s == pool[key]
           ok == TRUE
           c == [s[i] EXCEPT !.expired = ok]
           t == [s EXCEPT ![i] = c]
<1>1. pool \in [Key -> Seq(Conn)] /\ s \in Seq(Conn) /\ cleanup \in BOOLEAN
  BY DEF HttpInv, HttpTypes
<1>2. pool' = [pool EXCEPT ![key] = t] /\ UNCHANGED <<netVars, task, cleanup, served>>
  BY DEF Expire
<1>3. s[i] \in Conn /\ ok \in BOOLEAN
  BY <1>1
<1> HIDE DEF ok
<1>4. c \in Conn /\ c.fd = s[i].fd
  BY <1>3 DEF Conn
<1> HIDE DEF c
<1>5. t \in Seq(Conn) /\ Len(t) = Len(s) /\ DOMAIN t = DOMAIN s
      /\ \A j \in DOMAIN s : t[j] = IF j = i THEN c ELSE s[j]
  BY <1>1, <1>4
<1>6. \A j \in DOMAIN s : t[j].fd = s[j].fd
  BY <1>4, <1>5
<1> HIDE DEF t
<1>7. pool' \in [Key -> Seq(Conn)] /\ pool'[key] = t /\ \A k \in Key \ {key} : pool'[k] = pool[k]
  BY <1>1, <1>2, <1>5
<1>8. \A k \in Key : /\ DOMAIN pool'[k] = DOMAIN pool[k] /\ Len(pool'[k]) = Len(pool[k])
                     /\ \A j \in DOMAIN pool[k] : pool'[k][j].fd = pool[k][j].fd
  BY <1>5, <1>6, <1>7
<1> HIDE DEF s
<1>9. \A k \in Key : Len(pool[k]) \in Nat
  BY <1>1
<1>10. \A k \in Key : \A j, l \in DOMAIN pool[k] : pool[k][j].fd = pool[k][l].fd => j = l
  BY DEF HttpInv, PoolOnce
<1>11. PoolShrinks
  <2>1. \A k \in Key : Len(pool'[k]) <= Len(pool[k])
    BY <1>8, <1>9
  <2>2. \A k \in Key : \A j \in DOMAIN pool'[k] : \E l \in DOMAIN pool[k] : pool'[k][j].fd = pool[k][l].fd
    BY <1>8
  <2>3. \A k \in Key : \A j, l \in DOMAIN pool'[k] : pool'[k][j].fd = pool'[k][l].fd => j = l
    <3> SUFFICES ASSUME NEW k \in Key, NEW j \in DOMAIN pool'[k], NEW l \in DOMAIN pool'[k],
                        pool'[k][j].fd = pool'[k][l].fd
                 PROVE  j = l
      OBVIOUS
    <3>1. j \in DOMAIN pool[k] /\ l \in DOMAIN pool[k] /\ pool[k][j].fd = pool[k][l].fd
      BY <1>8
    <3> QED BY <1>10, <3>1
  <2> QED BY <1>1, <1>2, <1>7, <2>1, <2>2, <2>3 DEF PoolShrinks
<1>12. \A g \in Fd : InPool(g)' <=> InPool(g)
  BY <1>8 DEF InPool
<1>13. ClosesOnly({}) /\ UNCHANGED <<buf, rclosed, tls, mail, wire, eof, inbox, task, served>>
  BY <1>2 DEF ClosesOnly, netVars, socketVars, peerVars
<1> QED BY <1>11, <1>12, <1>13, PoolMoves
LEMMA CleanupKeeps ==
    ASSUME HttpInv, Cleanup
    PROVE  HttpInv'
<1> DEFINE X == UNION {DeadFds(key) : key \in Key}
<1>1. pool \in [Key -> Seq(Conn)]
  BY DEF HttpInv, HttpTypes
<1>2. /\ Closes(X) /\ pool' = [key \in Key |-> Among(pool[key], Living(key))]
      /\ cleanup' \in BOOLEAN
      /\ UNCHANGED <<buf, rclosed, tls, mail, wire, eof, inbox, task, served>>
  BY DEF Cleanup, peerVars
<1>3. \A k1, k2 \in Key : \A i1 \in DOMAIN pool[k1], i2 \in DOMAIN pool[k2] :
         pool[k1][i1].fd = pool[k2][i2].fd => k1 = k2 /\ i1 = i2
  BY DEF HttpInv, PoolOnce
<1>4. ASSUME NEW key \in Key
      PROVE  /\ pool'[key] \in Seq(Conn) /\ Len(pool'[key]) <= Len(pool[key])
             /\ \A j \in DOMAIN pool'[key] : \E i \in Found(key) : pool'[key][j] = pool[key][i]
             /\ \A i \in Found(key) : \E j \in DOMAIN pool'[key] : pool'[key][j] = pool[key][i]
             /\ \A i, j \in DOMAIN pool'[key] : pool'[key][i] = pool'[key][j] => i = j
  <2> DEFINE s == pool[key]
             t == Among(s, Living(key))
  <2>1. s \in Seq(Conn) /\ \A i, j \in DOMAIN s : s[i] = s[j] => i = j
    BY <1>1, <1>3
  <2>2. /\ t \in Seq(Conn) /\ Len(t) <= Len(s)
        /\ \A j \in DOMAIN t : t[j] \in Living(key) /\ \E i \in DOMAIN s : t[j] = s[i]
        /\ \A i \in DOMAIN s : s[i] \in Living(key) => \E j \in DOMAIN t : t[j] = s[i]
        /\ \A i, j \in DOMAIN t : t[i] = t[j] => i = j
    <3> HIDE DEF s
    <3> QED BY <2>1, AmongIs
  <2>3. pool'[key] = t
    BY <1>2
  <2>4. \A i \in Found(key) : i \in DOMAIN s /\ s[i] \in Living(key)
    BY DEF Found, Living
  <2>5. \A x \in Living(key) : \E i \in Found(key) : x = s[i]
    BY DEF Living
  <2> HIDE DEF s, t
  <2>6. \A j \in DOMAIN t : \E i \in Found(key) : t[j] = s[i]
    BY <2>2, <2>5
  <2>7. \A i \in Found(key) : \E j \in DOMAIN t : t[j] = s[i]
    BY <2>2, <2>4
  <2> QED BY <2>2, <2>3, <2>6, <2>7 DEF s
<1>5. \A key \in Key : Found(key) \subseteq DOMAIN pool[key]
  BY DEF Found
<1>6. PoolShrinks
  <2>1. pool' \in [Key -> Seq(Conn)]
    <3>1. DOMAIN pool' = Key /\ pool' = [key \in Key |-> pool'[key]]
      BY <1>2
    <3> QED BY <1>4, <3>1
  <2>2. \A key \in Key : \A i \in DOMAIN pool'[key] :
          \E j \in DOMAIN pool[key] : pool'[key][i].fd = pool[key][j].fd
    BY <1>4, <1>5
  <2>3. ASSUME NEW key \in Key, NEW i \in DOMAIN pool'[key], NEW j \in DOMAIN pool'[key],
               pool'[key][i].fd = pool'[key][j].fd
        PROVE  i = j
    <3>1. PICK a \in Found(key) : pool'[key][i] = pool[key][a]
      BY <1>4
    <3>2. PICK b \in Found(key) : pool'[key][j] = pool[key][b]
      BY <1>4
    <3>3. a = b
      BY <1>3, <1>5, <2>3, <3>1, <3>2
    <3> QED BY <1>4, <3>1, <3>2, <3>3
  <2> QED BY <1>2, <1>4, <2>1, <2>2, <2>3 DEF PoolShrinks
<1>7. \A g : g \in X <=> \E key \in Key : \E i \in DOMAIN pool[key] \ Found(key) : pool[key][i].fd = g
  BY DEF DeadFds
<1> HIDE DEF X
<1>8. \A g \in X : InPool(g)
  BY <1>7 DEF InPool
<1>9. X \in SUBSET Fd
  <2>1. ASSUME NEW g \in X PROVE g \in Fd
    <3>1a. PICK key \in Key : \E i \in DOMAIN pool[key] : pool[key][i].fd = g
      BY <1>7
    <3>1. PICK i \in DOMAIN pool[key] : pool[key][i].fd = g
      BY <3>1a
    <3>2. pool[key] \in Seq(Conn)
      BY <1>1
    <3>3. pool[key][i] \in Conn
      BY <3>2
    <3> QED BY <3>1, <3>3 DEF Conn
  <2> QED BY <2>1
<1>10. ASSUME NEW g, InPool(g)' PROVE InPool(g) /\ g \notin X
  <2>1a. PICK key \in Key : \E j \in DOMAIN pool'[key] : pool'[key][j].fd = g
    BY <1>10 DEF InPool
  <2>1. PICK j \in DOMAIN pool'[key] : pool'[key][j].fd = g
    BY <2>1a
  <2>2. PICK i \in Found(key) : pool'[key][j] = pool[key][i]
    BY <1>4
  <2>3. i \in DOMAIN pool[key] /\ pool[key][i].fd = g
    BY <1>5, <2>1, <2>2
  <2>4. ASSUME g \in X PROVE FALSE
    <3>1a. PICK k2 \in Key : \E i2 \in DOMAIN pool[k2] \ Found(k2) : pool[k2][i2].fd = g
      BY <1>7, <2>4
    <3>1. PICK i2 \in DOMAIN pool[k2] \ Found(k2) : pool[k2][i2].fd = g
      BY <3>1a
    <3>2. k2 = key /\ i2 = i
      BY <1>3, <2>3, <3>1
    <3> QED BY <2>2, <3>1, <3>2
  <2> QED BY <2>3, <2>4 DEF InPool
<1>11. ASSUME NEW g, InPool(g), g \notin X PROVE InPool(g)'
  <2>1a. PICK key \in Key : \E i \in DOMAIN pool[key] : pool[key][i].fd = g
    BY <1>11 DEF InPool
  <2>1. PICK i \in DOMAIN pool[key] : pool[key][i].fd = g
    BY <2>1a
  <2>2. i \in Found(key)
    BY <1>7, <1>11, <2>1
  <2>3. PICK j \in DOMAIN pool'[key] : pool'[key][j] = pool[key][i]
    BY <1>4, <2>2
  <2> QED BY <2>1, <2>3 DEF InPool
<1>12. ClosesOnly(X)
  BY <1>2 DEF ClosesOnly, X
<1> QED BY <1>2, <1>6, <1>8, <1>9, <1>10, <1>11, <1>12, PoolMoves
LEMMA CloseAllKeeps ==
    ASSUME HttpInv, CloseAllKeepalive
    PROVE  HttpInv'
<1> DEFINE X == UNION {FdsOf(pool[key]) : key \in Key}
           none == <<>>
<1>1. pool \in [Key -> Seq(Conn)] /\ cleanup \in BOOLEAN
  BY DEF HttpInv, HttpTypes
<1>2. /\ Closes(X) /\ pool' = [key \in Key |-> none]
      /\ UNCHANGED <<buf, rclosed, tls, mail, wire, eof, inbox, task, cleanup, served>>
  BY DEF CloseAllKeepalive, peerVars
<1>3. none \in Seq(Conn) /\ Len(none) = 0 /\ DOMAIN none = {}
  OBVIOUS
<1> HIDE DEF none
<1>4. \A key \in Key : pool'[key] = none /\ Len(pool[key]) >= 0
  BY <1>1, <1>2
<1>5. PoolShrinks
  BY <1>1, <1>2, <1>3, <1>4 DEF PoolShrinks
<1>6. \A g : ~InPool(g)'
  BY <1>3, <1>4 DEF InPool
<1>7. \A g : g \in X <=> InPool(g)
  BY DEF FdsOf, InPool
<1>8. ClosesOnly(X)
  BY <1>2 DEF ClosesOnly
<1> HIDE DEF X
<1>9. X \in SUBSET Fd
  <2>1. ASSUME NEW g \in X PROVE g \in Fd
    <3>1a. PICK key \in Key : \E i \in DOMAIN pool[key] : pool[key][i].fd = g
      BY <1>7 DEF InPool
    <3>1. PICK i \in DOMAIN pool[key] : pool[key][i].fd = g
      BY <3>1a
    <3>2. pool[key] \in Seq(Conn)
      BY <1>1
    <3>3. pool[key][i] \in Conn
      BY <3>2
    <3> QED BY <3>1, <3>3 DEF Conn
  <2> QED BY <2>1
<1> QED BY <1>2, <1>5, <1>6, <1>7, <1>8, <1>9, PoolMoves
-----------------------------------------------------------------------------
(* The steps of a request.                                                  *)
LEMMA SentSame ==
    ASSUME HttpInv, NEW q \in Task, UNCHANGED <<served, inbox>>,
           task'[q].fd = task[q].fd, task'[q].fromPool = task[q].fromPool,
           task'[q].kind = task[q].kind, task'[q].before = task[q].before,
           task'[q].pc \notin {"idle", "connecting", "handshake"}
    PROVE  SentOf(q)'
<1>1. SentOf(q)
  BY DEF HttpInv, Sent
<1>2. \A fd : (Waits(q, fd)' <=> Waits(q, fd)) /\ (On(q, fd)' <=> On(q, fd))
  BY DEF Waits, On
<1>3. \A fd, S : Carried(fd, S)' <=> Carried(fd, S)
  BY DEF Carried
<1> QED BY <1>1, <1>2, <1>3 DEF SentOf
LEMMA SameWaits ==
    ASSUME inbox' = inbox
    PROVE  \A p, fd : Waits(p, fd)' => Waits(p, fd)
BY DEF Waits
LEMMA NotActive ==
    ASSUME NEW q \in Task, task'[q].pc \notin Active
    PROVE  \A fd : ~Holds(q, fd)'
BY DEF Holds
\* The request is over, its connection and those of X closed, or dead.
LEMMA RequestEnds ==
    ASSUME HttpInv, NEW q \in Task, NEW pc \in {"failed", "closed"}, Goes(q, pc),
           task[q].pc # "handshake", NEW X \in SUBSET Fd, ClosesOnly(X),
           UNCHANGED <<buf, rclosed, tls, mail, wire, eof, inbox, served>>,
           \A g \in X : Mine(q, g), PoolShrinks \/ UNCHANGED <<pool, cleanup>>,
           \A g \in Fd : InPool(g)' <=> InPool(g) /\ g \notin X,
           \A g \in Fd : Holds(q, g) /\ sock[g] \in {"opening", "open"} => g \in X
    PROVE  HttpInv'
<1> DEFINE t == [task[q] EXCEPT !.pc = pc]
<1>1. task \in [Task -> Request]
  BY DEF HttpInv, HttpTypes
<1>2. task' = [task EXCEPT ![q] = t]
  BY DEF Goes
<1>3. task[q] \in Request
  BY <1>1
<1>4. t \in Request /\ t.pc = pc /\ t.fd = task[q].fd /\ t.kind = task[q].kind
      /\ t.fromPool = task[q].fromPool /\ t.before = task[q].before
  BY <1>3 DEF Request, Pc
<1> HIDE DEF t
<1>5. /\ task' \in [Task -> Request] /\ task'[q] = t
      /\ \A p \in Task \ {q} : task'[p] = task[p]
  BY <1>1, <1>2, <1>4
<1>6. task'[q].pc \notin Active /\ task'[q].pc # "done"
  BY <1>4, <1>5 DEF Active
<1>7. SentOf(q)'
  BY <1>4, <1>5, SentSame
<1>8. AnswerOf(q, task'[q])
  BY <1>6 DEF AnswerOf
<1>9. \A fd : ~Holds(q, fd)'
  BY <1>6, NotActive
<1>10. MovesTask(q)
  BY <1>5, <1>6, <1>7, <1>8, <1>9 DEF MovesTask
<1>11. buf' \in [Fd -> Seq(Token)] /\ inbox' \in [Fd -> Seq(0 .. MaxTask)]
  BY DEF HttpInv, HttpTypes, NetTypes
<1>12. \A fd \in Fd : ~Touched(fd)
  BY DEF Touched
<1>13. MovesSockets(q, X, {})
  BY <1>11, <1>12, ClosingMoves, SameWaits
<1>14. MovesOwners(q, X, {})
  BY <1>9 DEF MovesOwners, Mine
<1>15. MovesPool
  <2>1. CASE PoolShrinks
    BY <2>1, ShrinksWell
  <2>2. CASE UNCHANGED <<pool, cleanup>>
    <3>1. pool' \in [Key -> Seq(Conn)] /\ cleanup' \in BOOLEAN /\ PoolOnce'
      BY <2>2 DEF HttpInv, HttpTypes, PoolOnce
    <3>2. \A fd \in Fd : InPool(fd)' => InPool(fd)
      BY <2>2 DEF InPool
    <3> QED BY <1>12, <3>1, <3>2 DEF MovesPool
  <2> QED BY <2>1, <2>2
<1> QED BY <1>10, <1>13, <1>14, <1>15, ClientKeeps DEF ClientMoves
LEMMA ThrowsKeeps ==
    ASSUME HttpInv, NEW q \in Task, Made(q), NEW written, Throws(q, written)
    PROVE  HttpInv'
<1>1. /\ Goes(q, "failed") /\ task[q].pc = "idle" /\ UNCHANGED <<pool, cleanup>>
      /\ UNCHANGED <<buf, rclosed, tls, mail, wire, eof, inbox, served>> /\ ClosesOnly({})
  BY DEF Throws, Made, netVars, socketVars, peerVars, ClosesOnly
<1>2. \A g : ~Holds(q, g)
  BY <1>1 DEF Holds, Active
<1>3. \A g : InPool(g)' <=> InPool(g)
  BY <1>1 DEF InPool
<1> QED BY <1>1, <1>2, <1>3, RequestEnds
\* The request's own connection is closed.
LEMMA EndsClosed ==
    ASSUME HttpInv, NEW q \in Task, NEW pc \in {"failed", "closed"}, Goes(q, pc),
           task[q].pc \in Active \ {"handshake"}, Closes({task[q].fd}),
           UNCHANGED <<buf, rclosed, tls, peerVars, pool, cleanup, served>>
    PROVE  HttpInv'
<1> DEFINE fd == task[q].fd
           X == {fd}
<1>1. fd \in Fd /\ Holds(q, fd)
  BY DEF HttpInv, HttpTypes, Holds
<1>2. ~InPool(fd)
  BY <1>1 DEF HttpInv, Alone
<1>3. \A g : InPool(g)' <=> InPool(g)
  BY DEF InPool
<1>4. \A g \in Fd : InPool(g)' <=> InPool(g) /\ g \notin X
  BY <1>2, <1>3
<1>5. \A g \in X : Mine(q, g)
  BY <1>1 DEF Mine
<1>6. \A g \in Fd : Holds(q, g) => g \in X
  BY DEF Holds
<1>7. /\ UNCHANGED <<buf, rclosed, tls, mail, wire, eof, inbox, served>> /\ ClosesOnly(X)
      /\ X \in SUBSET Fd /\ task[q].pc # "handshake"
  BY <1>1 DEF peerVars, ClosesOnly
<1> HIDE DEF X, fd
<1> QED BY <1>4, <1>5, <1>6, <1>7, RequestEnds
LEMMA StreamCloseKeeps ==
    ASSUME HttpInv, NEW q \in Task, StreamClose(q)
    PROVE  HttpInv'
<1>1. /\ Goes(q, "closed") /\ task[q].pc \in Active \ {"handshake"} /\ Closes({task[q].fd})
      /\ UNCHANGED <<buf, rclosed, tls, peerVars, pool, cleanup, served>>
  BY DEF StreamClose, Active
<1> QED BY <1>1, EndsClosed
LEMMA ConnectTimeoutKeeps ==
    ASSUME HttpInv, NEW q \in Task, ConnectTimeout(q)
    PROVE  HttpInv'
<1>1. /\ Goes(q, "failed") /\ task[q].pc \in Active \ {"handshake"} /\ Closes({task[q].fd})
      /\ UNCHANGED <<buf, rclosed, tls, peerVars, pool, cleanup, served>>
  BY DEF ConnectTimeout, Active
<1> QED BY <1>1, EndsClosed
LEMMA HeadTypes ==
    /\ NoHead \in HeadToken /\ NoHead \in HeadRead /\ HeadToken \subseteq HeadRead
    /\ HeadToken \subseteq Token /\ WrongHead \subseteq Token
    /\ \A head \in WrongHead : Parsed(head) \in HeadToken
    /\ \A head : head.k # "wrong" => Parsed(head) = NoHead
<1>1. NoHead \in HeadToken
  <2>1. MaxParts \in Nat
    BY Limits
  <2> QED BY <2>1 DEF NoHead, HeadToken, Mode
<1>2. HeadToken \subseteq HeadRead
  BY DEF HeadToken, HeadRead
<1>3. HeadToken \subseteq Token /\ WrongHead \subseteq Token
  BY DEF Token
<1>4. ASSUME NEW head \in WrongHead PROVE Parsed(head) \in HeadToken
  <2>1. [head EXCEPT !.k = "head"] \in HeadToken /\ head.k = "wrong"
    BY DEF WrongHead, HeadToken
  <2> QED BY <2>1 DEF Parsed
<1>5. \A head : head.k # "wrong" => Parsed(head) = NoHead
  BY DEF Parsed
<1> QED BY <1>1, <1>2, <1>3, <1>4, <1>5
LEMMA NextFdUnused == Unused # {} => NextFd \in Unused
<1>1. Unused \subseteq Nat
  BY DEF Unused, Fd
<1>2. Unused # {} => \E fd \in Unused : \A g \in Unused : fd <= g
  BY <1>1, LeastExists
<1> QED BY <1>2 DEF NextFd
\* openConnection, for a request that was sent before only on a connection
\* that had carried another's.
LEMMA OpensKeeps ==
    ASSUME HttpInv, NEW q \in Task, NEW kind \in {"request", "head", "stream"}, NEW key \in Key,
           NEW X \in SUBSET Fd, NEW parsed \in HeadToken, kind = "stream" => parsed = NoHead,
           Opens(q, kind, key, X, parsed), task[q].pc # "handshake",
           UNCHANGED <<buf, rclosed, tls, mail, wire, eof, inbox, served>>,
           \A g \in X : Mine(q, g), PoolShrinks \/ UNCHANGED <<pool, cleanup>>,
           \A g \in Fd : InPool(g)' <=> InPool(g) /\ g \notin X,
           \A g \in Fd : Holds(q, g) => g \in X,
           \A fd \in Fd : On(q, fd) => /\ Carried(fd, Task \ {q}) /\ kind # "stream"
                                       /\ \A g \in Fd : On(q, g) => g = fd
    PROVE  HttpInv'
<1>1. CASE Fault /\ Closes(X) /\ Goes(q, "failed")
  BY <1>1, RequestEnds DEF ClosesOnly
<1>2. CASE Unused # {} /\ Connects(NextFd, X) /\
           \E before \in {NoHead, parsed} :
              task' = [task EXCEPT ![q] = [pc |-> "connecting", kind |-> kind, key |-> key, fd |-> NextFd,
                                           fromPool |-> FALSE, before |-> before, head |-> NoHead,
                                           body |-> NoParts(q)]]
  <2>0. PICK n \in Unused : n = NextFd
    BY <1>2, NextFdUnused
  <2>b. PICK before \in {NoHead, parsed} :
           task' = [task EXCEPT ![q] = [pc |-> "connecting", kind |-> kind, key |-> key, fd |-> NextFd,
                                        fromPool |-> FALSE, before |-> before, head |-> NoHead,
                                        body |-> NoParts(q)]]
    BY <1>2
  <2> DEFINE ok == FALSE
             t == [pc |-> "connecting", kind |-> kind, key |-> key, fd |-> n,
                   fromPool |-> ok, before |-> before, head |-> NoHead, body |-> NoParts(q)]
  <2>1. n \in Unused /\ n \in Fd /\ sock[n] = "none"
    BY DEF Unused
  <2>2. task' = [task EXCEPT ![q] = t] /\ Connects(n, X)
    BY <1>2, <2>0, <2>b
  <2>3. before \in HeadToken /\ NoHead \in HeadRead /\ (kind = "stream" => before = NoHead)
    BY HeadTypes
  <2>4. NoParts(q) = <<>> /\ NoParts(q) \in Seq(Token)
    BY DEF NoParts
  <2>5. key \in {"http", "https"} /\ n \in 0 .. MaxFd /\ ok \in BOOLEAN /\ ok = FALSE
    <3>1. Key \subseteq {"http", "https"}
      BY Limits
    <3> QED BY <2>1, <3>1 DEF Fd
  <2> HIDE DEF ok
  <2>6. t \in Request
    BY <2>3, <2>4, <2>5 DEF Request, Pc, DefaultPort
  <2>7. /\ t.pc = "connecting" /\ t.kind = kind /\ t.key = key /\ t.fd = n /\ ~t.fromPool
        /\ t.body = <<>> /\ (t.kind = "stream" => t.before = NoHead)
    BY <2>3, <2>4, <2>5
  <2> HIDE DEF t
  <2>8. /\ task' \in [Task -> Request] /\ task'[q] = t
        /\ \A p \in Task \ {q} : task'[p] = task[p]
    BY <2>2, <2>6 DEF HttpInv, HttpTypes
  <2>9. SocketOf(n) /\ Calm(n) /\ tls[n] = "plain" /\ NotServed(n) /\ ~Held(n)
    BY <2>1 DEF HttpInv, Sockets, SocketOf
  <2>10. ~On(q, n)
    <3>1. inbox[n] = <<>>
      BY <2>9 DEF Calm
    <3>2. Range(inbox[n]) = {}
      BY <3>1 DEF Range
    <3> QED BY <2>9, <3>2 DEF On, NotServed, Waits
  <2>11. n \notin X
    BY <2>9, Distinct
  <2>12. /\ sock' = [fd \in Fd |-> IF fd \in {n} THEN "opening" ELSE IF fd \in X THEN "gone" ELSE sock[fd]]
         /\ handler' = [fd \in Fd |-> IF fd \in {n} THEN "connecting"
                                      ELSE IF fd \in X THEN "none" ELSE handler[fd]]
    BY <2>1, <2>2 DEF Connects, Closed, Forgotten
  <2>13. \A fd \in Fd : ~Touched(fd)
    BY DEF Touched
  <2>14. buf' \in [Fd -> Seq(Token)] /\ inbox' \in [Fd -> Seq(0 .. MaxTask)]
    BY DEF HttpInv, HttpTypes, NetTypes
  <2>15. MovesSockets(q, X, {n})
    BY <2>1, <2>12, <2>13, <2>14, SameWaits DEF MovesSockets
  <2>16. \A fd : Holds(q, fd)' <=> fd = n
    BY <2>7, <2>8 DEF Holds, Active
  <2>17. ~InPool(n)'
    <3>1. ~InPool(n)
      BY <2>9 DEF Held
    <3> QED BY <2>1, <3>1
  <2>18. MovesOwners(q, X, {n})
    <3>1. \A fd \in Fd : InPool(fd)' => Mine(q, fd) /\ fd \notin X
      BY DEF Mine
    <3>2. \A fd \in Fd : Mine(q, fd) => InPool(fd)' \/ fd \in X
      BY DEF Mine
    <3>3. \A fd \in Fd : InPool(fd)' => Mine(q, fd)'
      BY DEF Mine
    <3>4. Mine(q, n)'
      BY <2>16 DEF Mine
    <3> QED BY <2>11, <2>16, <2>17, <3>1, <3>2, <3>3, <3>4 DEF MovesOwners
  <2>19. CarriesOf(q, n)'
    <3>1. handler'[n] = "connecting"
      BY <2>1, <2>12
    <3>2. tls'[n] = "plain"
      BY <2>9
    <3> QED BY <2>7, <2>8, <3>1, <3>2 DEF CarriesOf
  <2>20. \A fd : (On(q, fd)' <=> On(q, fd)) /\ (Waits(q, fd)' <=> Waits(q, fd))
    BY DEF On, Waits
  <2>21. \A fd, S : Carried(fd, S)' <=> Carried(fd, S)
    BY DEF Carried
  <2>22. SentOf(q)'
    <3>1. SentOf(q)
      BY DEF HttpInv, Sent
    <3> QED BY <2>7, <2>8, <2>10, <2>20, <2>21, <3>1 DEF SentOf
  <2>23. AnswerOf(q, task'[q])
    BY <2>7, <2>8 DEF AnswerOf
  <2>24. MovesTask(q)
    BY <2>1, <2>7, <2>8, <2>16, <2>19, <2>22, <2>23 DEF MovesTask
  <2>25. MovesPool
    <3>1. CASE PoolShrinks
      BY <3>1, ShrinksWell
    <3>2. CASE UNCHANGED <<pool, cleanup>>
      <4>1. pool' \in [Key -> Seq(Conn)] /\ cleanup' \in BOOLEAN /\ PoolOnce'
        BY <3>2 DEF HttpInv, HttpTypes, PoolOnce
      <4>2. \A fd \in Fd : InPool(fd)' => InPool(fd)
        BY <3>2 DEF InPool
      <4> QED BY <2>13, <4>1, <4>2 DEF MovesPool
    <3> QED BY <3>1, <3>2
  <2> QED BY <2>15, <2>18, <2>24, <2>25, ClientKeeps DEF ClientMoves
<1> QED BY <1>1, <1>2 DEF Opens
\* A failure while the response is awaited.
LEMMA FailsKeeps ==
    ASSUME HttpInv, NEW q \in Task, task[q].pc \in {"head", "body"}, UNCHANGED <<mail, wire, eof, inbox>>,
           NEW parsed, task[q].fromPool => parsed \in HeadToken, Fails(q, parsed)
    PROVE  HttpInv'
<1> DEFINE fd == task[q].fd
           X == {fd}
<1>1. fd \in Fd /\ Holds(q, fd) /\ task[q].key \in Key /\ task[q].kind # "none"
  BY DEF HttpInv, HttpTypes, Holds, Active
<1>2. UNCHANGED <<buf, rclosed, tls, mail, wire, eof, inbox, pool, cleanup, served>>
  BY DEF Fails, peerVars
<1>3. CASE ~task[q].fromPool
  <2>1. Closes({task[q].fd}) /\ Goes(q, "failed") /\ task[q].pc \in Active \ {"handshake"}
    BY <1>3 DEF Fails, Retries, GivesUp, Active
  <2> QED BY <1>2, <2>1, EndsClosed DEF peerVars
<1>4. CASE task[q].fromPool
  <2>1. Opens(q, task[q].kind, task[q].key, X, parsed) /\ parsed \in HeadToken
    BY <1>4 DEF Fails, Retries
  <2>2. ~InPool(fd)
    BY <1>1 DEF HttpInv, Alone
  <2>3. \A g : InPool(g)' <=> InPool(g)
    BY <1>2 DEF InPool
  <2>4. \A g \in Fd : InPool(g)' <=> InPool(g) /\ g \notin X
    BY <2>2, <2>3
  <2>5. \A g \in X : Mine(q, g)
    BY <1>1 DEF Mine
  <2>6. \A g \in Fd : Holds(q, g) => g \in X
    BY DEF Holds
  <2>7. SentOf(q)
    BY DEF HttpInv, Sent
  <2>8. \A g \in Fd : On(q, g) => g = fd
    BY <1>4, <2>7 DEF SentOf
  <2>9. Carried(fd, Task \ {q}) /\ task[q].kind # "stream"
    BY <1>4, <2>7 DEF SentOf
  <2>10. \A f \in Fd : On(q, f) => /\ Carried(f, Task \ {q}) /\ task[q].kind # "stream"
                                   /\ \A g \in Fd : On(q, g) => g = f
    BY <2>8, <2>9
  <2>11. task[q].kind \in {"request", "head", "stream"} /\ X \in SUBSET Fd /\ task[q].pc # "handshake"
    BY <1>1 DEF HttpInv, HttpTypes, Request
  <2>12. PICK kind, key : kind = task[q].kind /\ key = task[q].key
    OBVIOUS
  <2>13. /\ kind \in {"request", "head", "stream"} /\ key \in Key /\ (kind = "stream" => parsed = NoHead)
         /\ Opens(q, kind, key, X, parsed) /\ parsed \in HeadToken /\ X \in SUBSET Fd
         /\ \A f \in Fd : On(q, f) => /\ Carried(f, Task \ {q}) /\ kind # "stream"
                                      /\ \A g \in Fd : On(q, g) => g = f
    BY <1>1, <2>1, <2>9, <2>10, <2>11, <2>12
  <2> HIDE DEF X, fd
  <2> QED BY <1>2, <2>4, <2>5, <2>6, <2>11, <2>13, OpensKeeps
<1> QED BY <1>3, <1>4
LEMMA LastLiveFound ==
    ASSUME HttpInv, NEW key \in Key, Found(key) # {}
    PROVE  LastLive(key) \in Found(key)
<1> DEFINE n == Len(pool[key])
           S == {n - i : i \in Found(key)}
<1>1. n \in Nat /\ Found(key) \subseteq 1 .. n
  BY DEF HttpInv, HttpTypes, Found
<1> HIDE DEF n
<1>2. S \subseteq Nat /\ S # {}
  BY <1>1
<1>3. PICK m \in S : \A k \in S : m <= k
  <2> HIDE DEF S
  <2> QED BY <1>2, LeastExists
<1>4. PICK i \in Found(key) : m = n - i
  BY <1>3
<1>5. \A j \in Found(key) : j <= i
  <2> SUFFICES ASSUME NEW j \in Found(key) PROVE j <= i
    OBVIOUS
  <2>1. n - j \in S
    OBVIOUS
  <2>2. n - i <= n - j
    BY <1>3, <1>4, <2>1
  <2> QED BY <1>1, <2>2
<1> QED BY <1>4, <1>5 DEF LastLive
\* A request on a pooled connection: it is the request's only one so far.
LEMMA StartPooled ==
    ASSUME HttpInv, NEW q \in Task, task[q].pc = "idle", NEW kind \in {"request", "head"}, NEW key \in Key,
           NEW i \in DOMAIN pool[key], NEW f, f = pool[key][i].fd,
           pool' = [pool EXCEPT ![key] = SubSeq(pool[key], 1, i - 1)],
           Closes(FdsOf(SubSeq(pool[key], i + 1, Len(pool[key])))), Sends(q, f),
           task' = [task EXCEPT ![q] = [@ EXCEPT !.pc = "head", !.kind = kind, !.key = key, !.fd = f,
                                                 !.fromPool = TRUE]],
           UNCHANGED <<buf, rclosed, tls, mail, wire, eof, cleanup, served>>
    PROVE  HttpInv'
<1> DEFINE s == pool[key]
           n == Len(s)
           X == FdsOf(SubSeq(s, i + 1, n))
           ok == TRUE
           t == [task[q] EXCEPT !.pc = "head", !.kind = kind, !.key = key, !.fd = f, !.fromPool = ok]
<1>1. s \in Seq(Conn) /\ n \in Nat /\ DOMAIN s = 1 .. n /\ i \in 1 .. n /\ cleanup' \in BOOLEAN
  BY DEF HttpInv, HttpTypes
<1>2. i + 1 \in 1 .. n + 1 /\ n \in 0 .. n /\ 1 \in 1 .. n + 1 /\ i - 1 \in 0 .. n
  BY <1>1
<1>3. X = {s[j].fd : j \in i + 1 .. n} /\ X \subseteq Fd
  BY <1>1, <1>2, FdsCut
<1>4. /\ PoolShrinks
      /\ \A g : InPool(g)' <=>
            \/ \E j \in 1 .. i - 1 : j \in DOMAIN s /\ s[j].fd = g
            \/ \E k \in Key \ {key} : \E j \in DOMAIN pool[k] : pool[k][j].fd = g
  <2>1. /\ 1 \in 1 .. Len(pool[key]) + 1 /\ i - 1 \in 0 .. Len(pool[key])
        /\ pool' = [pool EXCEPT ![key] = SubSeq(pool[key], 1, i - 1)] /\ cleanup' \in BOOLEAN
    BY <1>1, <1>2
  <2>2. PoolCut(key, 1, i - 1)
    BY <2>1 DEF PoolCut
  <2>3. PoolShrinks
    BY <2>2, CutShrinks
  <2>4. ASSUME NEW g
        PROVE  InPool(g)' <=>
            \/ \E j \in 1 .. i - 1 : j \in DOMAIN pool[key] /\ pool[key][j].fd = g
            \/ \E k \in Key \ {key} : \E j \in DOMAIN pool[k] : pool[k][j].fd = g
    BY <2>2, CutShrinks
  <2> QED BY <2>3, <2>4
<1>5. \A k1, k2 \in Key : \A i1 \in DOMAIN pool[k1], i2 \in DOMAIN pool[k2] :
         pool[k1][i1].fd = pool[k2][i2].fd => k1 = k2 /\ i1 = i2
  BY DEF HttpInv, PoolOnce
<1>6. Closes(X) /\ task' = [task EXCEPT ![q] = t]
  OBVIOUS
<1>7. ok \in BOOLEAN /\ ok
  OBVIOUS
<1>8. f \in Fd
  <2>1. s[i] \in Conn
    BY <1>1
  <2> QED BY <2>1 DEF Conn
<1>9. task[q] \in Request /\ task \in [Task -> Request]
  BY DEF HttpInv, HttpTypes
<1>10. key \in DefaultPort /\ f \in 0 .. MaxFd
  <2>1. Key \subseteq {"http", "https"}
    BY Limits
  <2> QED BY <1>8, <2>1 DEF DefaultPort, Fd
<1> HIDE DEF X, ok
<1>11. /\ t \in Request /\ t.pc = "head" /\ t.kind = kind /\ t.key = key /\ t.fd = f /\ t.fromPool
       /\ t.body = task[q].body /\ t.before = task[q].before
  BY <1>7, <1>9, <1>10 DEF Request, Pc
<1> HIDE DEF t
<1>12. /\ task' \in [Task -> Request] /\ task'[q] = t /\ \A p \in Task \ {q} : task'[p] = task[p]
  BY <1>6, <1>9, <1>11
<1>13. InPool(f)
  BY DEF InPool
<1>14. \A g \in X : InPool(g)
  <2> SUFFICES ASSUME NEW j \in i + 1 .. n PROVE InPool(s[j].fd)
    BY <1>3
  <2>1. j \in DOMAIN s
    BY <1>1
  <2> QED BY <2>1 DEF InPool
<1>15. ~InPool(f)' /\ f \notin X
  <2>1. \A j \in DOMAIN s : s[j].fd = f => j = i
    BY <1>5
  <2>2. \A k \in Key \ {key} : \A j \in DOMAIN pool[k] : pool[k][j].fd # f
    BY <1>5
  <2>3. \A j \in i + 1 .. n : j \in DOMAIN s /\ j # i
    BY <1>1
  <2>4. \A j \in 1 .. i - 1 : j # i
    BY <1>1
  <2> QED BY <1>3, <1>4, <2>1, <2>2, <2>3, <2>4
<1>16. \A g : InPool(g)' => InPool(g)
  BY <1>4, ShrinksOnce
<1>17. \A g : InPool(g)' => g \notin X
  <2> SUFFICES ASSUME NEW g, InPool(g)', g \in X PROVE FALSE
    OBVIOUS
  <2>1. PICK l \in i + 1 .. n : s[l].fd = g
    BY <1>3
  <2>2. l \in DOMAIN s
    BY <1>1
  <2>3. \A j \in 1 .. i - 1 : j # l
    BY <1>1
  <2> QED BY <1>4, <1>5, <2>1, <2>2, <2>3
<1>18. \A g : InPool(g) /\ g # f /\ g \notin X => InPool(g)'
  <2> SUFFICES ASSUME NEW g, InPool(g), g # f, g \notin X PROVE InPool(g)'
    OBVIOUS
  <2>1. PICK k \in Key : \E j \in DOMAIN pool[k] : pool[k][j].fd = g
    BY DEF InPool
  <2>2. CASE k # key
    BY <1>4, <2>1, <2>2
  <2>3. CASE k = key
    <3>1. PICK j \in DOMAIN s : s[j].fd = g
      BY <2>1, <2>3
    <3>2. j # i /\ j \notin i + 1 .. n
      BY <1>3, <3>1
    <3>3. j \in 1 .. i - 1
      BY <1>1, <3>2
    <3> QED BY <1>4, <3>1, <3>3
  <2> QED BY <2>2, <2>3
<1>19. /\ inbox[f] = <<>> /\ Rest(f) /\ handler[f] # "connecting" /\ tls[f] # "shaking"
       /\ Carried(f, Task)
  BY <1>8, <1>13 DEF HttpInv, Carries, PoolOf
<1>20. inbox \in [Fd -> Seq(0 .. MaxTask)] /\ inbox[f] = <<>> /\ q \in 0 .. MaxTask
  BY <1>19 DEF HttpInv, HttpTypes, NetTypes, Task
<1> HIDE DEF s, n
<1>21. \/ inbox' = inbox
       \/ inbox' = [inbox EXCEPT ![f] = <<q>>]
  <2>1. Append(inbox[f], q) = <<q>>
    BY <1>20
  <2> QED BY <2>1 DEF Sends, Writes
<1>22. /\ inbox' \in [Fd -> Seq(0 .. MaxTask)] /\ \A g \in Fd \ {f} : inbox'[g] = inbox[g]
       /\ inbox'[f] = <<>> \/ inbox'[f] = <<q>>
  <2> DEFINE y == <<q>>
  <2>1. y \in Seq(0 .. MaxTask)
    BY <1>20
  <2> HIDE DEF y
  <2>2. inbox' = inbox \/ inbox' = [inbox EXCEPT ![f] = y]
    BY <1>21 DEF y
  <2>3. /\ inbox' \in [Fd -> Seq(0 .. MaxTask)] /\ \A g \in Fd \ {f} : inbox'[g] = inbox[g]
        /\ inbox'[f] = <<>> \/ inbox'[f] = y
    BY <1>8, <1>20, <2>1, <2>2
  <2> QED BY <2>3 DEF y
<1>23. Len(inbox'[f]) <= 1
  <2>1. Len(<<>>) = 0 /\ Len(<<q>>) = 1
    OBVIOUS
  <2>2. CASE inbox'[f] = <<>>
    BY <2>1, <2>2
  <2>3. CASE inbox'[f] = <<q>>
    BY <2>1, <2>3
  <2> QED BY <1>22, <2>2, <2>3
<1>24. \A g \in Fd : Touched(g) => g = f
  BY <1>22 DEF Touched
<1>25. \A p \in Task \ {q}, g \in Fd : Waits(p, g)' => Waits(p, g)
  <2> SUFFICES ASSUME NEW p \in Task \ {q}, NEW g \in Fd, Waits(p, g)' PROVE Waits(p, g)
    OBVIOUS
  <2>1. CASE g = f
    BY <1>22, <2>1 DEF Waits, Range
  <2>2. CASE g # f
    BY <1>22, <2>2 DEF Waits
  <2> QED BY <2>1, <2>2
<1>26. MovesSockets(q, X, {})
  <2>1. buf' \in [Fd -> Seq(Token)]
    BY DEF HttpInv, HttpTypes, NetTypes
  <2>2. \A g \in Fd : Touched(g) => Mine(q, g) /\ handler[g] # "connecting" /\ Len(inbox'[g]) <= 1
    BY <1>13, <1>19, <1>23, <1>24 DEF Mine
  <2> QED BY <1>3, <1>6, <1>22, <1>25, <2>1, <2>2, ClosingMoves DEF ClosesOnly
<1>27. \A g : Holds(q, g)' <=> g = f
  BY <1>11, <1>12 DEF Holds, Active
<1>28. \A g : ~Holds(q, g)
  BY DEF Holds, Active
<1>29. MovesOwners(q, X, {})
  BY <1>13, <1>14, <1>15, <1>16, <1>17, <1>18, <1>27, <1>28 DEF MovesOwners, Mine
<1>30. SentOf(q)
  BY DEF HttpInv, Sent
<1>31. task[q].body = <<>> /\ task[q].before = NoHead /\ \A g \in Fd : ~On(q, g)
  BY <1>30 DEF SentOf
<1>32. CarriesOf(q, f)'
  <2>1. handler'[f] = handler[f]
    BY <1>6, <1>8, <1>15 DEF Closes, Forgotten
  <2>2. tls'[f] = tls[f] /\ buf'[f] = buf[f] /\ mail' = mail /\ wire'[f] = wire[f]
    OBVIOUS
  <2>3. CASE inbox'[f] = <<q>>
    <3>1. Wanted(f, q)'
      BY <1>19, <2>2, <2>3, RestSame DEF Wanted
    <3> QED BY <1>11, <1>12, <1>19, <1>31, <2>1, <2>2, <3>1 DEF CarriesOf
  <2>4. CASE inbox'[f] = <<>>
    <3>1. \E R \in Nonsense : After(f, R)'
      <4> DEFINE none == <<>>
      <4>1. PICK R \in Nonsense : R \in Seq(Token)
        BY Tokens
      <4>2. none \in Seq(Token) /\ Begins(none, R)
        <5>1. none \in Seq(Token) /\ Len(none) = 0 /\ DOMAIN none = {} /\ Len(R) \in Nat
          BY <4>1
        <5> HIDE DEF none
        <5> QED BY <5>1 DEF Begins
      <4>3. wire'[f] = wire[f] \o none
        <5>1. wire[f] \in Seq(Token)
          BY <1>8 DEF HttpInv, HttpTypes, NetTypes
        <5> QED BY <2>2, <5>1
      <4>4. NetTypes
        BY DEF HttpInv, HttpTypes
      <4> HIDE DEF none
      <4> QED BY <1>8, <1>19, <2>2, <4>1, <4>2, <4>3, <4>4, RestThen
    <3> QED BY <1>11, <1>12, <1>19, <1>31, <2>1, <2>2, <2>4, <3>1 DEF CarriesOf
  <2> QED BY <1>22, <2>3, <2>4
<1>33. SentOf(q)'
  <2>1. \A g \in Fd : g \notin Range(served'[q])
    BY <1>31 DEF On
  <2>2. \A g \in Fd : On(q, g)' => g = f
    <3> SUFFICES ASSUME NEW g \in Fd, On(q, g)', g # f PROVE FALSE
      OBVIOUS
    <3>1. Waits(q, g)
      BY <1>22, <2>1 DEF On, Waits
    <3> QED BY <1>31, <3>1 DEF On
  <2>3. Carried(f, Task \ {q})
    BY <1>8, <1>19, <1>31 DEF Carried, On
  <2>4. Carried(f, Task \ {q})'
    BY <2>3 DEF Carried
  <2>5. \A j, l \in DOMAIN served'[q] : served'[q][j] = served'[q][l] => j = l
    BY <1>30 DEF SentOf
  <2>6. task[q].before = NoHead
    BY <1>30 DEF SentOf
  <2> QED BY <1>11, <1>12, <2>1, <2>2, <2>4, <2>5, <2>6 DEF SentOf
<1>34. AnswerOf(q, task'[q])
  BY <1>11, <1>12 DEF AnswerOf
<1>35. MovesTask(q)
  BY <1>8, <1>11, <1>12, <1>27, <1>32, <1>33, <1>34 DEF MovesTask
<1>36. MovesPool
  BY <1>4, <1>15, <1>16, <1>24, ShrinksOnce DEF MovesPool, PoolShrinks
<1> QED BY <1>26, <1>29, <1>35, <1>36, ClientKeeps DEF ClientMoves
LEMMA StartKeeps ==
    ASSUME HttpInv, NEW q \in Task, Made(q), NEW kind \in {"request", "head", "stream"},
           NEW key \in Key, Start(q, kind, key)
    PROVE  HttpInv'
<1> DEFINE s == pool[key]
           n == Len(s)
<1>1. task[q].pc = "idle" /\ UNCHANGED <<buf, rclosed, tls, mail, wire, eof, cleanup, served>>
  BY DEF Made, Start
<1>2. s \in Seq(Conn) /\ n \in Nat /\ DOMAIN s = 1 .. n /\ cleanup' \in BOOLEAN
  BY <1>1 DEF HttpInv, HttpTypes
<1>3. \A g : ~Holds(q, g)
  BY <1>1 DEF Holds, Active
<1>4. \A g \in Fd : ~On(q, g)
  BY <1>1 DEF HttpInv, Sent, SentOf
<1>5. CASE kind # "stream" /\ Found(key) # {}
  <2>1. PICK i \in Found(key) : i = LastLive(key)
    BY <1>5, LastLiveFound
  <2>2. i \in DOMAIN s
    BY DEF Found
  <2>3. PICK f : f = s[i].fd
    OBVIOUS
  <2>4. /\ pool' = [pool EXCEPT ![key] = SubSeq(pool[key], 1, i - 1)]
        /\ Closes(FdsOf(SubSeq(pool[key], i + 1, Len(pool[key])))) /\ Sends(q, f)
        /\ task' = [task EXCEPT ![q] = [@ EXCEPT !.pc = "head", !.kind = kind, !.key = key, !.fd = f,
                                                 !.fromPool = TRUE]]
    BY <1>5, <2>1, <2>3 DEF Start
  <2>5. kind \in {"request", "head"}
    BY <1>5
  <2> QED BY <1>1, <2>2, <2>3, <2>4, <2>5, StartPooled
<1>6. CASE kind = "stream"
  <2>1. Opens(q, kind, key, {}, NoHead) /\ UNCHANGED <<pool, inbox>>
    BY <1>6 DEF Start
  <2>2. \A g : InPool(g)' <=> InPool(g)
    BY <2>1 DEF InPool
  <2> DEFINE X == {}
  <2>3. X \in SUBSET Fd /\ \A g : g \notin X
    OBVIOUS
  <2>4. Opens(q, kind, key, X, NoHead)
    BY <2>1
  <2>5. /\ UNCHANGED <<buf, rclosed, tls, mail, wire, eof, inbox, served>>
        /\ UNCHANGED <<pool, cleanup>>
    BY <1>1, <2>1
  <2> HIDE DEF X
  <2> QED BY <1>1, <1>3, <1>4, <2>2, <2>3, <2>4, <2>5, HeadTypes, OpensKeeps
<1>7. CASE kind # "stream" /\ Found(key) = {}
  <2> DEFINE none == <<>>
             X == FdsOf(s)
  <2>1. Opens(q, kind, key, X, NoHead) /\ inbox' = inbox /\ pool' = [pool EXCEPT ![key] = none]
    BY <1>7 DEF Start
  <2>2. SubSeq(s, 1, 0) = none /\ 1 \in 1 .. n + 1 /\ 0 \in 0 .. n
    BY <1>2
  <2>3. PoolCut(key, 1, 0)
    BY <1>2, <2>1, <2>2 DEF PoolCut
  <2>4. PoolShrinks
    BY <2>3, CutShrinks
  <2>5. ASSUME NEW g PROVE InPool(g)' <=> \E k \in Key \ {key} : \E j \in DOMAIN pool[k] : pool[k][j].fd = g
    <3>1. InPool(g)' <=>
            \/ \E j \in 1 .. 0 : j \in DOMAIN pool[key] /\ pool[key][j].fd = g
            \/ \E k \in Key \ {key} : \E j \in DOMAIN pool[k] : pool[k][j].fd = g
      BY <2>3, CutShrinks
    <3>2. \A j \in 1 .. 0 : FALSE
      OBVIOUS
    <3> QED BY <3>1, <3>2
  <2>6. \A g : g \in X <=> \E j \in DOMAIN s : s[j].fd = g
    BY DEF FdsOf
  <2>7. X \in SUBSET Fd
    <3>1. \A j \in DOMAIN s : s[j] \in Conn
      BY <1>2
    <3> QED BY <2>6, <3>1 DEF Conn
  <2>8. \A g \in X : InPool(g)
    BY <2>6 DEF InPool
  <2>9. ASSUME NEW k \in Key \ {key}, NEW j \in DOMAIN pool[k] PROVE pool[k][j].fd \notin X
    BY <2>6 DEF HttpInv, PoolOnce
  <2>10. \A g : InPool(g)' <=> InPool(g) /\ g \notin X
    BY <2>5, <2>6, <2>9 DEF InPool
  <2>11. \A g \in X : Mine(q, g)
    BY <2>8 DEF Mine
  <2> HIDE DEF X, none, s
  <2> QED BY <1>1, <1>3, <1>4, <2>1, <2>4, <2>7, <2>10, <2>11, HeadTypes, OpensKeeps
<1> QED BY <1>5, <1>6, <1>7
-----------------------------------------------------------------------------
(* Reading the response.                                                    *)
\* What was read in order after the head is an answer, whole if all was read.
LEMMA AnsweredWhole ==
    ASSUME NEW q \in Task, NEW fd \in Fd, NEW s \in Shape, NEW t, NEW R \in AnswersTo(t.kind, q, fd, s),
           t.before \in HeadToken, t.head = Merged(t.before, R[1]), t.fd = fd, t.body \in Seq(Token),
           \A k \in DOMAIN t.body : t.body[k] = R[k + 1], 1 + Len(t.body) <= Len(R),
           t.before = NoHead /\ t.kind # "head" /\ s.mode \in {"length", "chunked"} =>
              /\ 1 + Len(t.body) = Len(R)
              /\ t.kind # "stream" => \A k \in DOMAIN t.body : t.body[k].k # "broken"
    PROVE  AnswerOf(q, t)
<1> DEFINE b == t.body
<1>1. /\ R \in Seq(Token) /\ Len(R) >= 1 /\ R[1] = HeadOf(q, fd, s) /\ R[1] \in HeadToken
      /\ t.kind = "head" \/ s.mode = "none" => Len(R) = 1
      /\ t.kind # "head" /\ s.mode # "none" => \E m \in 0 .. s.n : IsBody(R, q, fd, s, m)
      /\ \A k \in 1 .. Len(R) : k > 1 => R[k].q = q /\ R[k].fd = fd
  BY ResponseIs
<1>2. /\ t.head.q = q /\ t.head.fd = fd
      /\ t.before = NoHead => t.head.n = s.n /\ t.head.mode = s.mode
  <2>1. /\ t.head.q = R[1].q /\ t.head.fd = R[1].fd
        /\ t.before = NoHead => t.head = R[1]
    BY <1>1, MergedIs
  <2> QED BY <1>1, <2>1 DEF HeadOf
<1>3. s.n \in Nat
  BY ShapeTypes
<1>4. Len(b) \in Nat /\ DOMAIN b = 1 .. Len(b) /\ Len(R) \in Nat
  BY <1>1
<1>5. ASSUME NEW k \in DOMAIN b PROVE b[k].q = q /\ b[k].fd = fd
  <2>1. b[k] = R[k + 1] /\ k + 1 \in 1 .. Len(R) /\ k + 1 > 1
    BY <1>4
  <2> QED BY <1>1, <2>1
<1>6. ASSUME t.kind # "head", s.mode \in {"length", "chunked"}, t.before = NoHead,
             ~(t.kind = "stream" /\ BrokenChunk(q, fd) \in Range(b))
      PROVE  b = Parts(q, fd, s.n) \o (IF s.mode = "chunked" THEN <<LastChunk(q, fd)>> ELSE <<>>)
  <2> DEFINE P == Parts(q, fd, s.n)
             none == <<>>
             z == <<LastChunk(q, fd)>>
  <2>0. PICK m \in 0 .. s.n : IsBody(R, q, fd, s, m)
    BY <1>1, <1>6
  <2>a. 1 + Len(b) = Len(R) /\ m \in Nat
    BY <1>3, <1>6
  <2>b. s.mode = "chunked" => R[m + 2] # BrokenChunk(q, fd)
    <3> SUFFICES ASSUME s.mode = "chunked", R[m + 2] = BrokenChunk(q, fd) PROVE FALSE
      OBVIOUS
    <3>1. Len(R) = 2 + m
      BY <2>0 DEF IsBody
    <3>2. m + 1 \in DOMAIN b /\ (m + 1) + 1 = m + 2
      BY <1>4, <2>a, <3>1
    <3>3. b[m + 1] = BrokenChunk(q, fd)
      BY <3>2
    <3>4. b[m + 1].k = "broken"
      BY <3>3 DEF BrokenChunk
    <3>5. t.kind = "stream"
      BY <1>6, <3>2, <3>4
    <3>6. BrokenChunk(q, fd) \in Range(b)
      <4> HIDE DEF b
      <4> QED BY <3>2, <3>3 DEF Range
    <3> QED BY <1>6, <3>5, <3>6
  <2>c. m = s.n
    BY <2>0, <2>b DEF IsBody
  <2>1. /\ 1 + Len(b) = Len(R) /\ \A k \in 1 .. s.n : R[k + 1] = Part(q, fd, k)
        /\ s.mode = "chunked" => Len(R) = 2 + s.n /\ R[s.n + 2] = LastChunk(q, fd)
        /\ s.mode # "chunked" => Len(R) = 1 + s.n
    BY <2>0, <2>a, <2>b, <2>c DEF IsBody
  <2>2. P \in Seq(Token) /\ Len(P) = s.n /\ DOMAIN P = 1 .. s.n
        /\ \A k \in 1 .. s.n : P[k] = Part(q, fd, k)
    <3>1. P = [i \in 1 .. s.n |-> Part(q, fd, i)]
      BY DEF Parts
    <3>2. \A i \in 1 .. s.n : Part(q, fd, i) \in Token
      BY DEF Part, Token
    <3>3. P \in [1 .. s.n -> Token]
      BY <3>1, <3>2
    <3>4. \A k \in 1 .. s.n : P[k] = Part(q, fd, k)
      BY <3>1
    <3> HIDE DEF P
    <3>5. P \in Seq(Token) /\ Len(P) = s.n
      BY <1>3, <3>3
    <3> QED BY <1>3, <3>4, <3>5
  <2>3. none \in Seq(Token) /\ Len(none) = 0
    OBVIOUS
  <2>4. z \in Seq(Token) /\ Len(z) = 1 /\ z[1] = LastChunk(q, fd)
    <3> DEFINE l == LastChunk(q, fd)
    <3>1. l \in Token
      BY DEF LastChunk, Token
    <3> HIDE DEF l
    <3>2. <<l>> \in Seq(Token) /\ Len(<<l>>) = 1 /\ <<l>>[1] = l
      BY <3>1
    <3> QED BY <3>2 DEF l
  <2> HIDE DEF P, none, z, b
  <2>5. CASE s.mode = "chunked"
    <3>0. P \o z \in Seq(Token) /\ Len(P \o z) = Len(P) + Len(z)
      BY <2>2, <2>4, Joined
    <3>a. \A i \in DOMAIN P : (P \o z)[i] = P[i]
      BY <2>2, <2>4, Joined
    <3>b. \A i \in DOMAIN z : (P \o z)[Len(P) + i] = z[i]
      BY <2>2, <2>4, Joined
    <3>c. 1 \in DOMAIN z /\ Len(P) + 1 = s.n + 1
      BY <2>2, <2>4
    <3>1. DOMAIN (P \o z) = 1 .. s.n + 1 /\ (P \o z)[s.n + 1] = LastChunk(q, fd)
      BY <1>3, <2>2, <2>4, <3>0, <3>b, <3>c
    <3>2. Len(b) = s.n + 1
      BY <1>3, <1>4, <2>1, <2>5
    <3>3. ASSUME NEW k \in 1 .. s.n + 1 PROVE b[k] = (P \o z)[k]
      <4>1. b[k] = R[k + 1]
        BY <1>4, <3>2 DEF b
      <4>2. CASE k = s.n + 1
        <5>1. k + 1 = s.n + 2
          BY <1>3, <4>2
        <5> QED BY <2>1, <2>5, <3>1, <4>1, <4>2, <5>1
      <4>3. CASE k \in 1 .. s.n
        BY <2>1, <2>2, <3>a, <4>1, <4>3
      <4>4. k = s.n + 1 \/ k \in 1 .. s.n
        BY <1>3
      <4> QED BY <4>2, <4>3, <4>4
    <3>4. b = P \o z
      <4>1. b \in Seq(Token) /\ P \o z \in Seq(Token) /\ Len(b) = s.n + 1 /\ Len(P \o z) = s.n + 1
        BY <2>2, <2>4, <3>0, <3>2 DEF b
      <4> DEFINE y == P \o z
      <4> HIDE DEF y
      <4>2. y \in Seq(Token) /\ Len(b) = Len(y) /\ b \in Seq(Token)
            /\ \A k \in 1 .. Len(b) : b[k] = y[k]
        BY <3>3, <4>1 DEF y
      <4>3. b = y
        BY <4>2, SameSeq
      <4> QED BY <4>3 DEF y
    <3> QED BY <2>5, <3>4 DEF P, z
  <2>6. CASE s.mode # "chunked"
    <3>1. P \o none = P
      BY <2>2 DEF none
    <3>2. Len(b) = s.n
      BY <1>3, <1>4, <2>1, <2>6
    <3>3. ASSUME NEW k \in 1 .. s.n PROVE b[k] = P[k]
      <4>1. b[k] = R[k + 1]
        BY <1>4, <3>2 DEF b
      <4> QED BY <2>1, <2>2, <4>1
    <3>4. b = P
      <4>1. b \in Seq(Token)
        BY DEF b
      <4> QED BY <1>3, <2>2, <3>2, <3>3, <4>1
    <3> QED BY <2>6, <3>1, <3>4 DEF P, none
  <2> QED BY <2>5, <2>6
<1> QED BY <1>2, <1>5, <1>6 DEF AnswerOf
\* n more tokens are read of a response whose head was.
BodyWith(q, fd, n) == task[q].body \o SubSeq(buf[fd], 1, n)
ReadTo(fd, R, n, body) ==
    /\ \A k \in DOMAIN body : body[k] = R[k + 1]
    /\ Flow(fd, R, 1 + Len(body), SubSeq(buf[fd], n + 1, Len(buf[fd])), mail, wire[fd])
LEMMA ReadsMore ==
    ASSUME HttpInv, NEW q \in Task, NEW fd \in Fd, NEW s \in Shape, NEW R,
           R \in AnswersTo(task[q].kind, q, fd, s), task[q].pc \in {"body", "stream"},
           Coming(fd, R, Taken(task[q])), HasRead(task[q], R, s),
           NEW n \in 0 .. Len(buf[fd]), NEW body, body = BodyWith(q, fd, n)
    PROVE  /\ R \in Seq(Token) /\ body \in Seq(Token) /\ Len(body) = Len(task[q].body) + n
           /\ 1 + Len(body) <= Len(R) /\ ReadTo(fd, R, n, body)
<1> DEFINE b == buf[fd]
           old == task[q].body
           new == SubSeq(b, 1, n)
           c == 1 + Len(old)
<1>1. b \in Seq(Token) /\ mail \in Seq(Message) /\ wire[fd] \in Seq(Token) /\ old \in Seq(Token)
  BY DEF HttpInv, HttpTypes, NetTypes, Request
<1>2. R \in Seq(Token)
  BY ResponseIs
<1>3. Flow(fd, R, c, b, mail, wire[fd]) /\ c \in Nat
  BY <1>1 DEF Coming, Taken
<1>4. /\ Flow(fd, R, c + n, SubSeq(b, n + 1, Len(b)), mail, wire[fd])
      /\ c + Len(b) <= Len(R) /\ \A j \in DOMAIN b : b[j] = R[c + j]
  <2> HIDE DEF b, c
  <2>1. /\ n \in 0 .. Len(b) /\ b \in Seq(Token) /\ c \in Nat /\ R \in Seq(Token)
        /\ mail \in Seq(Message) /\ wire[fd] \in Seq(Token) /\ Flow(fd, R, c, b, mail, wire[fd])
    BY <1>1, <1>2, <1>3 DEF b
  <2>2. Flow(fd, R, c + n, SubSeq(b, n + 1, Len(b)), mail, wire[fd])
    BY <2>1, FlowTaken
  <2>3. c + Len(b) <= Len(R)
    BY <2>1, FlowTaken
  <2>4. \A j \in DOMAIN b : b[j] = R[c + j]
    BY <2>1 DEF Flow, FlowBy
  <2> QED BY <2>2, <2>3, <2>4
<1>5. \A k \in DOMAIN old : old[k] = R[k + 1]
  BY DEF HasRead
<1>6. Len(b) \in Nat /\ n \in Nat /\ n <= Len(b) /\ Len(old) \in Nat /\ Len(R) \in Nat
  BY <1>1, <1>2
<1>7. new \in Seq(Token) /\ Len(new) = n /\ DOMAIN new = 1 .. n
      /\ \A j \in 1 .. n : new[j] = b[j] /\ j \in DOMAIN b
  <2>1. new \in Seq(Token) /\ Len(new) = n
    BY <1>1, <1>6
  <2>2. \A j \in 1 .. n : new[j] = b[j] /\ j \in DOMAIN b
    BY <1>1, <1>6
  <2> QED BY <2>1, <2>2
<1> HIDE DEF b, old, new
<1>8. /\ body \in Seq(Token) /\ Len(body) = Len(old) + n
      /\ \A i \in DOMAIN old : body[i] = old[i]
      /\ \A i \in DOMAIN new : body[Len(old) + i] = new[i]
  <2>1. body = old \o new
    BY DEF old, new, b, BodyWith
  <2>2. /\ old \o new \in Seq(Token) /\ Len(old \o new) = Len(old) + Len(new)
        /\ \A i \in DOMAIN old : (old \o new)[i] = old[i]
        /\ \A i \in DOMAIN new : (old \o new)[Len(old) + i] = new[i]
    <3>1. old \in Seq(Token) /\ new \in Seq(Token)
      BY <1>1, <1>7 DEF old, b
    <3> QED BY <3>1, Joined
  <2> QED BY <1>7, <2>1, <2>2
<1>9. ASSUME NEW k \in DOMAIN body PROVE body[k] = R[k + 1]
  <2>0. k \in 1 .. Len(old) + n
    <3>1. DOMAIN body = 1 .. Len(body)
      BY <1>8
    <3> QED BY <1>8, <3>1
  <2>1. CASE k <= Len(old)
    <3>1. k \in DOMAIN old
      BY <1>1, <1>6, <2>0, <2>1
    <3> QED BY <1>5, <1>8, <3>1
  <2>2. CASE k > Len(old)
    <3> DEFINE j == k - Len(old)
    <3>1. j \in 1 .. n /\ Len(old) + j = k /\ c + j = k + 1
      BY <1>6, <2>0, <2>2
    <3> HIDE DEF j, c
    <3>2. body[Len(old) + j] = new[j] /\ new[j] = b[j] /\ b[j] = R[c + j]
      BY <1>4, <1>7, <1>8, <3>1
    <3> QED BY <3>1, <3>2
  <2>3. k <= Len(old) \/ k > Len(old)
    BY <1>6, <2>0
  <2> QED BY <2>1, <2>2, <2>3
<1>10. 1 + Len(body) = c + n /\ 1 + Len(body) <= Len(R)
  <2>1. c + Len(b) <= Len(R)
    BY <1>4
  <2> QED BY <1>6, <1>8, <2>1
<1>11. ReadTo(fd, R, n, body)
  <2>1. Flow(fd, R, 1 + Len(body), SubSeq(b, n + 1, Len(b)), mail, wire[fd])
    BY <1>4, <1>10
  <2> QED BY <1>9, <2>1 DEF b, ReadTo
<1> QED BY <1>2, <1>8, <1>10, <1>11 DEF old
LEMMA OneTouched ==
    ASSUME HttpInv, NEW q \in Task, NEW fd \in Fd, Holds(q, fd), handler[fd] # "connecting",
           NEW b \in Seq(Token), buf' = [buf EXCEPT ![fd] = b], inbox' = inbox
    PROVE  /\ buf' \in [Fd -> Seq(Token)] /\ inbox' \in [Fd -> Seq(0 .. MaxTask)]
           /\ buf'[fd] = b /\ \A g \in Fd : Touched(g) => g = fd
           /\ \A g \in Fd : Touched(g) => Mine(q, g) /\ handler[g] # "connecting" /\ Len(inbox'[g]) <= 1
<1>1. buf \in [Fd -> Seq(Token)] /\ inbox \in [Fd -> Seq(0 .. MaxTask)]
  BY DEF HttpInv, HttpTypes, NetTypes
<1>2. \A g \in Fd : Touched(g) => g = fd
  BY <1>1 DEF Touched
<1>3. Len(inbox[fd]) <= 1
  BY DEF HttpInv, Sockets, SocketOf
<1> QED BY <1>1, <1>2, <1>3 DEF Mine
\* The answer is given, and the connection is pooled, with no head on it, or
\* closed.
LEMMA Finishes ==
    ASSUME HttpInv, NEW q \in Task, task[q].pc \in {"head", "body", "stream"}, NEW fd, fd = task[q].fd,
           NEW t \in Request, task' = [task EXCEPT ![q] = t], t.pc = "done", t.fd = fd,
           t.kind = task[q].kind, t.fromPool = task[q].fromPool, t.before = task[q].before, AnswerOf(q, t),
           NEW b \in Seq(Token), buf' = [buf EXCEPT ![fd] = b], NEW head,
           UNCHANGED <<rclosed, tls, mail, wire, eof, inbox, served>>,
           fd \in Range(served[q]), inbox[fd] = <<>>,
           \/ Closes({fd}) /\ UNCHANGED <<pool, cleanup>>
           \/ PoolPut(task[q].key, fd, head) /\ \E L : Left(L) /\ Flow(fd, L, 0, b, mail, wire[fd])
    PROVE  HttpInv'
<1>1. fd \in Fd /\ Holds(q, fd) /\ task[q].key \in Key /\ ~InPool(fd)
  BY DEF HttpInv, HttpTypes, Holds, Active, Alone
<1>2. /\ task' \in [Task -> Request] /\ task'[q] = t /\ \A p \in Task \ {q} : task'[p] = task[p]
  BY DEF HttpInv, HttpTypes
<1>3. handler[fd] # "connecting" /\ tls[fd] # "shaking"
  BY <1>1 DEF HttpInv, Carries, CarriesOf
<1>4. /\ buf' \in [Fd -> Seq(Token)] /\ inbox' \in [Fd -> Seq(0 .. MaxTask)]
      /\ buf'[fd] = b /\ \A g \in Fd : Touched(g) => g = fd
      /\ \A g \in Fd : Touched(g) => Mine(q, g) /\ handler[g] # "connecting" /\ Len(inbox'[g]) <= 1
  BY <1>1, <1>3, OneTouched
<1>5. task'[q].pc \notin Active /\ task'[q].pc \notin {"idle", "connecting", "handshake"}
  BY <1>2 DEF Active
<1>6. SentOf(q)'
  BY <1>2, <1>5, SentSame
<1>7. \A g : ~Holds(q, g)'
  BY <1>5, NotActive
<1>8. MovesTask(q)
  BY <1>2, <1>5, <1>6, <1>7 DEF MovesTask
<1>9. ASSUME NEW X \in SUBSET Fd, Closes(X) PROVE MovesSockets(q, X, {})
  BY <1>4, <1>9, ClosingMoves, SameWaits DEF ClosesOnly
<1>10. CASE Closes({fd}) /\ UNCHANGED <<pool, cleanup>>
  <2> DEFINE X == {fd}
  <2>1. X \in SUBSET Fd /\ Closes(X)
    BY <1>1, <1>10
  <2>2. MovesSockets(q, X, {})
    BY <1>9, <2>1
  <2>3. \A g : InPool(g)' <=> InPool(g)
    BY <1>10 DEF InPool
  <2>4. MovesOwners(q, X, {})
    BY <1>1, <1>7, <2>3 DEF MovesOwners, Mine, Holds
  <2>5. MovesPool
    <3>1. pool' \in [Key -> Seq(Conn)] /\ cleanup' \in BOOLEAN /\ PoolOnce'
      BY <1>10 DEF HttpInv, HttpTypes, PoolOnce
    <3> QED BY <1>1, <1>4, <2>3, <3>1 DEF MovesPool
  <2> QED BY <1>8, <2>2, <2>4, <2>5, ClientKeeps DEF ClientMoves
<1>11. CASE PoolPut(task[q].key, fd, head) /\ ~head.keep
  <2>1. Closes({fd}) /\ UNCHANGED <<pool, cleanup>>
    BY <1>11 DEF PoolPut
  <2> QED BY <1>10, <2>1
<1>12. CASE /\ PoolPut(task[q].key, fd, head) /\ head.keep
            /\ \E L : Left(L) /\ Flow(fd, L, 0, b, mail, wire[fd])
  <2>1. PICK X \in SUBSET Fd :
              /\ Closes(X) /\ pool' \in [Key -> Seq(Conn)] /\ cleanup' \in BOOLEAN /\ PoolOnce'
              /\ \A g : InPool(g)' <=> g = fd \/ (InPool(g) /\ g \notin X)
              /\ \A g \in X : InPool(g)
    BY <1>1, <1>12, PutKeeps
  <2>2. MovesSockets(q, X, {})
    BY <1>9, <2>1
  <2>3. MovesOwners(q, X, {})
    BY <1>1, <1>7, <2>1 DEF MovesOwners, Mine, Holds
  <2>4. PoolOf(fd)'
    <3>1. handler'[fd] = handler[fd]
      BY <1>1, <2>1, <2>2 DEF MovesSockets
    <3>2. Rest(fd)' /\ inbox'[fd] = <<>>
      <4>1. PICK L : Left(L) /\ Flow(fd, L, 0, b, mail, wire[fd])
        BY <1>12
      <4>2. Left(L)' /\ Coming(fd, L, 0)'
        BY <1>4, <4>1 DEF Left, Coming
      <4> QED BY <4>2 DEF Rest
    <3>3. Carried(fd, Task)'
      BY DEF Carried
    <3> QED BY <1>3, <3>1, <3>2, <3>3 DEF PoolOf
  <2>5. MovesPool
    BY <1>4, <2>1, <2>4 DEF MovesPool
  <2> QED BY <1>8, <2>2, <2>3, <2>5, ClientKeeps DEF ClientMoves
<1> QED BY <1>10, <1>11, <1>12
\* There is more to read.
LEMMA Continues ==
    ASSUME HttpInv, NEW q \in Task, task[q].pc \in {"head", "body", "stream"}, NEW fd, fd = task[q].fd,
           NEW t \in Request, task' = [task EXCEPT ![q] = t], t.pc \in {"body", "stream"}, t.fd = fd,
           t.kind = task[q].kind, t.fromPool = task[q].fromPool, t.before = task[q].before,
           t.key = task[q].key, NEW b \in Seq(Token), buf' = [buf EXCEPT ![fd] = b],
           UNCHANGED <<sock, handler, rclosed, tls, mail, wire, eof, inbox, served, pool, cleanup>>,
           fd \in Range(served[q]), inbox[fd] = <<>>,
           NEW s \in Shape, NEW R, R \in AnswersTo(t.kind, q, fd, s), HasRead(t, R, s),
           Flow(fd, R, Taken(t), b, mail, wire[fd])
    PROVE  HttpInv'
<1>1. fd \in Fd /\ Holds(q, fd) /\ task[q].key \in Key /\ task[q].kind # "none" /\ ~InPool(fd)
  BY DEF HttpInv, HttpTypes, Holds, Active, Alone
<1>2. /\ task' \in [Task -> Request] /\ task'[q] = t /\ \A p \in Task \ {q} : task'[p] = task[p]
  BY DEF HttpInv, HttpTypes
<1>3. handler[fd] # "connecting" /\ tls[fd] # "shaking"
  BY <1>1 DEF HttpInv, Carries, CarriesOf
<1>4. /\ buf' \in [Fd -> Seq(Token)] /\ inbox' \in [Fd -> Seq(0 .. MaxTask)]
      /\ buf'[fd] = b /\ \A g \in Fd : Touched(g) => g = fd
      /\ \A g \in Fd : Touched(g) => Mine(q, g) /\ handler[g] # "connecting" /\ Len(inbox'[g]) <= 1
  BY <1>1, <1>3, OneTouched
<1>5. task'[q].pc \in Active /\ task'[q].pc \notin {"idle", "connecting", "handshake", "head", "done"}
  BY <1>2 DEF Active
<1>6. SentOf(q)'
  BY <1>2, <1>5, SentSame
<1>7. \A g : Holds(q, g)' <=> g = fd
  BY <1>2, <1>5 DEF Holds
<1>8. Answering(q, fd)'
  <2>1. Coming(fd, R, Taken(t))'
    <3>1. Flow(fd, R, Taken(t), buf'[fd], mail', wire'[fd])
      BY <1>4
    <3> QED BY <3>1 DEF Coming
  <2>2. AnswersTo(t.kind, q, fd, s)' = AnswersTo(t.kind, q, fd, s)
    BY DEF AnswersTo, Response
  <2> QED BY <1>2, <1>5, <2>1, <2>2 DEF Answering
<1>9. CarriesOf(q, fd)'
  BY <1>2, <1>3, <1>5, <1>8 DEF CarriesOf
<1>10. AnswerOf(q, task'[q])
  BY <1>5 DEF AnswerOf
<1>11. MovesTask(q)
  BY <1>1, <1>2, <1>6, <1>7, <1>9, <1>10, <1>3, <1>5 DEF MovesTask
<1>12. MovesSockets(q, {}, {})
  <2>1. ClosesOnly({}) /\ {} \in SUBSET Fd
    BY DEF ClosesOnly
  <2> QED BY <1>4, <2>1, ClosingMoves, SameWaits
<1>13. \A g : InPool(g)' <=> InPool(g)
  BY DEF InPool
<1>14. MovesOwners(q, {}, {})
  BY <1>1, <1>7, <1>13 DEF MovesOwners, Mine, Holds
<1>15. MovesPool
  <2>1. pool' \in [Key -> Seq(Conn)] /\ cleanup' \in BOOLEAN /\ PoolOnce'
    BY DEF HttpInv, HttpTypes, PoolOnce
  <2> QED BY <1>1, <1>4, <1>13, <2>1 DEF MovesPool
<1> QED BY <1>11, <1>12, <1>14, <1>15, ClientKeeps DEF ClientMoves
LEMMA ReadHeadKeeps ==
    ASSUME HttpInv, NEW q \in Task, ReadHead(q)
    PROVE  HttpInv'
<1>1. PICK fd : fd = task[q].fd
  OBVIOUS
<1>2. /\ task[q].pc = "head" /\ task[q] \in Request /\ fd \in Fd /\ Holds(q, fd) /\ task[q].key \in Key
      /\ task[q].kind # "none" /\ task[q].fd = fd /\ task[q].before \in HeadToken
  BY <1>1 DEF ReadHead, HttpInv, HttpTypes, Holds, Active, Request
<1>3. buf[fd] \in Seq(Token) /\ mail \in Seq(Message) /\ wire[fd] \in Seq(Token)
  BY <1>2 DEF HttpInv, HttpTypes, NetTypes
<1>4. HeadCame(fd) =>
         Len(buf[fd]) >= 1 /\ Head(buf[fd]) = buf[fd][1] /\ 1 \in DOMAIN buf[fd] /\ Head(buf[fd]) \in Token
  <2> SUFFICES ASSUME HeadCame(fd)
               PROVE  /\ Len(buf[fd]) >= 1 /\ Head(buf[fd]) = buf[fd][1] /\ 1 \in DOMAIN buf[fd]
                      /\ Head(buf[fd]) \in Token
    OBVIOUS
  <2>1. DOMAIN buf[fd] # {}
    BY DEF HeadCame
  <2>2. Len(buf[fd]) >= 1
    BY <1>3, <2>1
  <2> QED BY <1>3, <2>2
<1>5. ASSUME NEW parsed \in HeadToken, Fails(q, parsed) PROVE HttpInv'
  <2>1. UNCHANGED <<mail, wire, eof, inbox>>
    BY <1>5 DEF Fails, peerVars
  <2> QED BY <1>2, <1>5, <2>1, FailsKeeps
<1>6. CASE ~HeadCame(fd)
  <2>1. Fails(q, NoHead) /\ NoHead \in HeadToken
    BY <1>1, <1>6, HeadTypes DEF ReadHead
  <2> QED BY <1>5, <2>1
<1>7. CASE HeadCame(fd) /\ Malformed(Head(buf[fd]))
  <2>1. PICK parsed : parsed = Parsed(Head(buf[fd]))
    OBVIOUS
  <2>2. Fails(q, parsed)
    BY <1>1, <1>7, <2>1 DEF ReadHead
  <2>3. Head(buf[fd]).k = "wrong" => Head(buf[fd]) \in WrongHead
    BY <1>4, <1>7 DEF Token, HeadToken
  <2>4. parsed \in HeadToken
    BY <2>1, <2>3, HeadTypes
  <2> QED BY <1>5, <2>2, <2>4
<1>8. CASE HeadCame(fd) /\ ~Malformed(Head(buf[fd]))
  <2> DEFINE b == buf[fd]
             w == wire[fd]
             b2 == SubSeq(b, 2, Len(b))
             c == 0
  <2>1. b[1].k = "head" /\ Len(b) >= 1 /\ 1 \in DOMAIN b /\ Head(b) = b[1]
    BY <1>4, <1>8 DEF Malformed
  <2>2. b \in Seq(Token) /\ w \in Seq(Token) /\ c \in Nat /\ Len(b) \in Nat /\ 1 \in 0 .. Len(b)
    BY <1>3, <2>1
  <2>3. ASSUME NEW R \in Seq(Token), Coming(fd, R, 0)
        PROVE  /\ b[1] = R[1] /\ Flow(fd, R, 1, b2, mail, w) /\ b2 \in Seq(Token)
               /\ Len(b) <= Len(R) /\ Len(R) >= 1
    <3>1. Flow(fd, R, c, b, mail, w)
      BY <2>3 DEF Coming
    <3> DEFINE k == 1
    <3> HIDE DEF b, w, c, k
    <3>2. k \in 0 .. Len(b) /\ k = 1 /\ c = 0
      BY <2>2 DEF k, c
    <3>3. Flow(fd, R, c + k, SubSeq(b, k + 1, Len(b)), mail, w)
      BY <1>3, <2>2, <3>1, <3>2, FlowTaken
    <3>4. \A j \in DOMAIN b : b[j] = R[c + j]
      BY <3>1 DEF Flow, FlowBy
    <3>5. c + Len(b) <= Len(R)
      BY <1>3, <2>2, <3>1, <3>2, FlowTaken
    <3>6. b[1] = R[1]
      <4>1. 1 \in DOMAIN b /\ c + 1 = 1
        BY <2>1, <3>2 DEF b
      <4> QED BY <3>4, <4>1
    <3>7. c + k = 1 /\ k + 1 = 2 /\ c + Len(b) = Len(b)
      BY <2>2, <3>2
    <3>8. b2 \in Seq(Token)
      BY <2>2
    <3>9. Len(R) \in Nat /\ Len(b) >= 1
      BY <2>1 DEF b
    <3> QED BY <2>2, <3>3, <3>5, <3>6, <3>7, <3>8, <3>9
  <2> HIDE DEF b, w, b2, c
  <2>4. ~Rest(fd)
    <3> SUFFICES ASSUME NEW L, Left(L), Coming(fd, L, 0) PROVE FALSE
      BY DEF Rest
    <3>1. L \in Seq(Token) /\ b[1] = L[1] /\ Len(L) >= 1
      BY <2>3 DEF Left
    <3>2. 1 \in DOMAIN L /\ L[1].k = "head"
      BY <2>1, <3>1
    <3> QED BY <3>2 DEF Left, Ending
  <2>5. ASSUME NEW R \in Seq(Token), After(fd, R) PROVE Coming(fd, R, 0)
    <3>1. PICK L : Left(L) /\ Coming(fd, L \o R, 0)
      BY <2>5 DEF After
    <3>2. L \in Seq(Token) /\ L \o R \in Seq(Token)
      BY <3>1 DEF Left
    <3>3. b[1] = (L \o R)[1]
      BY <2>3, <3>1, <3>2
    <3>4. CASE L # <<>>
      <4>1. 1 \in DOMAIN L
        BY <3>2, <3>4
      <4>2. (L \o R)[1] = L[1]
        BY <3>2, <4>1, Joined
      <4> QED BY <2>1, <3>1, <3>3, <4>1, <4>2 DEF Left, Ending
    <3>5. CASE L = <<>>
      <4>1. L \o R = R
        BY <3>5
      <4> QED BY <3>1, <4>1
    <3> QED BY <3>4, <3>5
  <2>6. task[q].body = <<>> /\ inbox[fd] = <<>> /\ ((\E R \in Nonsense : After(fd, R)) \/ Answering(q, fd))
    <3>1. CarriesOf(q, fd)
      BY <1>2 DEF HttpInv, Carries
    <3> QED BY <1>2, <2>4, <3>1 DEF CarriesOf, Wanted
  <2>7. ~(\E R \in Nonsense : After(fd, R))
    <3> SUFFICES ASSUME NEW R \in Nonsense, After(fd, R) PROVE FALSE
      OBVIOUS
    <3>1. R \in Seq(Token) /\ R[1] \in WrongHead
      BY Tokens
    <3>2. b[1] = R[1]
      BY <2>3, <2>5, <3>1
    <3> QED BY <2>1, <3>1, <3>2 DEF WrongHead
  <2>8. PICK s \in Shape : \E R \in AnswersTo(task[q].kind, q, fd, s) :
                              After(fd, R) /\ fd \in Range(served[q])
    BY <1>2, <2>6, <2>7 DEF Answering
  <2>9. PICK R \in AnswersTo(task[q].kind, q, fd, s) : After(fd, R) /\ fd \in Range(served[q])
    BY <2>8
  <2>11. /\ R \in Seq(Token) /\ Len(R) >= 1 /\ R[1] = HeadOf(q, fd, s) /\ R[1] \in HeadToken
         /\ Len(R) \in Nat /\ task[q].kind = "head" => Len(R) = 1
    BY <1>2, ResponseIs
  <2>13. b[1] = R[1] /\ Flow(fd, R, 1, b2, mail, w) /\ b2 \in Seq(Token)
    BY <2>3, <2>5, <2>9, <2>11
  <2> DEFINE head == Merged(task[q].before, R[1])
  <2>14. head = Merged(task[q].before, Head(buf[fd]))
    BY <2>1, <2>13 DEF b
  <2>a. head \in HeadRead
    BY <1>2, <2>11, MergedIs
  <2>b. head.mode = "chunked" => s.mode = "chunked"
    <3>1. R[1].mode = s.mode
      BY <2>11 DEF HeadOf
    <3> QED BY <1>2, <2>11, <3>1, MergedIs
  <2>15. buf' = [buf EXCEPT ![fd] = b2]
    BY <1>1, <1>8 DEF ReadHead, Consumes, b2, b
  <2>16. UNCHANGED <<rclosed, tls, mail, wire, eof, inbox, served>>
    BY <1>1, <1>8 DEF ReadHead, peerVars
  <2>18. CASE task[q].kind = "head"
    <3> DEFINE t == [task[q] EXCEPT !.pc = "done", !.head = head]
    <3>1. task' = [task EXCEPT ![q] = t] /\ PoolPut(task[q].key, fd, head)
      <4> HIDE DEF head
      <4> QED BY <1>1, <1>8, <2>14, <2>18 DEF ReadHead
    <3> HIDE DEF head
    <3>2. /\ t \in Request /\ t.pc = "done" /\ t.fd = fd /\ t.kind = task[q].kind
          /\ t.fromPool = task[q].fromPool /\ t.head = head /\ t.body = task[q].body
          /\ t.before = task[q].before
      BY <1>2, <2>a DEF Request, Pc
    <3> HIDE DEF t
    <3>3. AnswerOf(q, t)
      <4> DEFINE none == <<>>
      <4>1. t.body = none /\ none \in Seq(Token) /\ Len(none) = 0 /\ DOMAIN none = {}
        BY <2>6, <3>2
      <4>2. t.kind = "head"
        BY <2>18, <3>2
      <4> HIDE DEF none
      <4>3. 1 + Len(t.body) <= Len(R) /\ t.body \in Seq(Token) /\ \A k \in DOMAIN t.body : t.body[k] = R[k + 1]
        BY <2>11, <4>1
      <4>4. R \in AnswersTo(t.kind, q, fd, s) /\ t.head = Merged(t.before, R[1]) /\ t.before \in HeadToken
        BY <1>2, <3>2 DEF head
      <4> QED BY <1>2, <3>2, <4>2, <4>3, <4>4, AnsweredWhole
    <3>4. \E L : Left(L) /\ Flow(fd, L, 0, b2, mail, w)
      <4>1. 1 \in 1 .. Len(R)
        BY <2>11
      <4> QED BY <1>2, <1>3, <2>2, <2>13, <4>1, RestOfRead
    <3>5. \E L : Left(L) /\ Flow(fd, L, 0, b2, mail, wire[fd])
      BY <3>4 DEF w
    <3>6. \/ Closes({fd}) /\ UNCHANGED <<pool, cleanup>>
          \/ PoolPut(task[q].key, fd, head) /\ \E L : Left(L) /\ Flow(fd, L, 0, b2, mail, wire[fd])
      BY <3>1, <3>5
    <3>7. fd \in Range(served[q]) /\ inbox[fd] = <<>> /\ task[q].pc \in {"head", "body", "stream"}
      BY <1>2, <2>6, <2>9
    <3> QED BY <1>2, <2>13, <2>15, <2>16, <3>1, <3>2, <3>3, <3>6, <3>7, Finishes
  <2>19. CASE task[q].kind # "head"
    <3> DEFINE pc == IF task[q].kind = "stream" THEN "stream" ELSE "body"
               t == [task[q] EXCEPT !.pc = pc, !.head = head]
    <3>1. task' = [task EXCEPT ![q] = t] /\ UNCHANGED <<sock, handler, pool, cleanup>>
      <4> HIDE DEF head
      <4> QED BY <1>1, <1>8, <2>14, <2>19 DEF ReadHead
    <3>2. pc \in {"body", "stream"}
      OBVIOUS
    <3> HIDE DEF pc, head
    <3>3. /\ t \in Request /\ t.pc = pc /\ t.fd = fd /\ t.kind = task[q].kind /\ t.key = task[q].key
          /\ t.fromPool = task[q].fromPool /\ t.head = head /\ t.body = task[q].body
          /\ t.before = task[q].before
      BY <1>2, <2>a, <3>2 DEF Request, Pc
    <3> HIDE DEF t
    <3>4. Taken(t) = 1
      <4>1. Len(t.body) = 0
        BY <2>6, <3>3
      <4> QED BY <3>2, <3>3, <4>1 DEF Taken
    <3>5. HasRead(t, R, s)
      <4>1. DOMAIN t.body = {} /\ t.body = <<>>
        BY <2>6, <3>3
      <4>2. t.head = Merged(t.before, R[1])
        BY <3>3 DEF head
      <4>3. t.pc = "stream" => t.kind = "stream"
        BY <3>3 DEF pc
      <4> QED BY <2>11, <2>19, <3>3, <3>4, <4>1, <4>2, <4>3 DEF HasRead
    <3>6. R \in AnswersTo(t.kind, q, fd, s) /\ Flow(fd, R, Taken(t), b2, mail, wire[fd])
      BY <2>13, <3>3, <3>4 DEF w
    <3>7. t.pc \in {"body", "stream"} /\ task[q].pc \in {"head", "body", "stream"}
      BY <1>2, <3>2, <3>3
    <3> QED BY <1>2, <2>6, <2>9, <2>13, <2>15, <2>16, <3>1, <3>3, <3>5, <3>6, <3>7, Continues
  <2> QED BY <2>18, <2>19
<1> QED BY <1>6, <1>7, <1>8
\* The response R, in the shape s, that q reads from fd.
ReadsFrom(q, fd, s, R) ==
    /\ task[q].pc \in {"body", "stream"} /\ fd = task[q].fd /\ fd \in Fd
    /\ inbox[fd] = <<>> /\ fd \in Range(served[q])
    /\ R \in AnswersTo(task[q].kind, q, fd, s)
    /\ Coming(fd, R, Taken(task[q])) /\ HasRead(task[q], R, s)
ReadsOf(q, fd, s, R) ==
    /\ ReadsFrom(q, fd, s, R) /\ task[q].kind # "head" /\ s.n \in Nat
    /\ task[q].head.mode = "chunked" => s.mode = "chunked"
    /\ task[q].before = NoHead => task[q].head = R[1] /\ task[q].head.mode = s.mode /\ task[q].head.n = s.n
    /\ 1 + Len(task[q].body) <= Len(R)
    /\ s.mode = "none" => Len(R) = 1
    /\ s.mode # "none" => \E m \in 0 .. s.n : IsBody(R, q, fd, s, m)
LEMMA ReadsResponse ==
    ASSUME HttpInv, NEW q \in Task, task[q].pc \in {"body", "stream"}, NEW fd, fd = task[q].fd
    PROVE  \E s \in Shape, R \in Seq(Token) : ReadsOf(q, fd, s, R)
<1>1. fd \in Fd /\ Holds(q, fd)
  BY DEF HttpInv, HttpTypes, Holds, Active
<1>2. inbox[fd] = <<>> /\ Answering(q, fd)
  BY <1>1 DEF HttpInv, Carries, CarriesOf
<1>3. PICK s \in Shape : \E R \in AnswersTo(task[q].kind, q, fd, s) :
                            Coming(fd, R, Taken(task[q])) /\ HasRead(task[q], R, s) /\ fd \in Range(served[q])
  BY <1>2 DEF Answering
<1>4. PICK R \in AnswersTo(task[q].kind, q, fd, s) :
              Coming(fd, R, Taken(task[q])) /\ HasRead(task[q], R, s) /\ fd \in Range(served[q])
  BY <1>3
<1>5. ReadsFrom(q, fd, s, R)
  BY <1>1, <1>2, <1>4 DEF ReadsFrom
<1>6. HasRead(task[q], R, s) /\ task[q].pc # "head"
  BY <1>5 DEF ReadsFrom
<1>7. task[q].kind # "head" /\ task[q].head = Merged(task[q].before, R[1]) /\ 1 + Len(task[q].body) <= Len(R)
  BY <1>6 DEF HasRead, Taken
<1>8. /\ R \in Seq(Token) /\ R[1] = HeadOf(q, fd, s) /\ R[1] \in HeadToken
      /\ s.mode = "none" => Len(R) = 1
      /\ s.mode # "none" => \E m \in 0 .. s.n : IsBody(R, q, fd, s, m)
  BY <1>1, <1>4, <1>7, ResponseIs
<1>9. R[1].mode = s.mode /\ R[1].n = s.n
  BY <1>8 DEF HeadOf
<1>10. s.n \in Nat
  BY ShapeTypes
<1>11. task[q].before \in HeadToken
  BY DEF HttpInv, HttpTypes, Request
<1>12. task[q].head.mode = "chunked" => s.mode = "chunked"
  BY <1>7, <1>8, <1>9, <1>11, MergedIs
<1>13. task[q].before = NoHead => task[q].head = R[1]
  BY <1>7, <1>8, <1>11, MergedIs
<1> QED BY <1>5, <1>7, <1>8, <1>9, <1>10, <1>12, <1>13 DEF ReadsOf
\* n tokens are read and the response ends there.
TakesLast(q, fd, n, body) ==
    /\ task' = [task EXCEPT ![q] = [task[q] EXCEPT !.pc = "done", !.body = body]]
    /\ buf' = [buf EXCEPT ![fd] = SubSeq(buf[fd], n + 1, Len(buf[fd]))]
    /\ UNCHANGED <<rclosed, tls, mail, wire, eof, inbox, served>>
ReleasedBy(key, fd, head) == (Closes({fd}) /\ UNCHANGED <<pool, cleanup>>) \/ PoolPut(key, fd, head)
\* With body, all of the response R is read, unless the head was not its own only.
Whole(t, R, s, body) ==
    t.before = NoHead /\ s.mode \in {"length", "chunked"} =>
        /\ 1 + Len(body) = Len(R)
        /\ t.kind # "stream" => \A k \in DOMAIN body : body[k].k # "broken"
LEMMA BodyEnds ==
    ASSUME HttpInv, NEW q \in Task, NEW fd, NEW s \in Shape, NEW R \in Seq(Token), ReadsFrom(q, fd, s, R),
           NEW n \in 0 .. Len(buf[fd]), NEW body, body = BodyWith(q, fd, n), TakesLast(q, fd, n, body),
           Whole(task[q], R, s, body), NEW head, ReleasedBy(task[q].key, fd, head)
    PROVE  HttpInv'
<1> DEFINE b == buf[fd]
           b2 == SubSeq(b, n + 1, Len(b))
           t == [task[q] EXCEPT !.pc = "done", !.body = body]
           w == wire[fd]
<1>1. /\ task[q].pc \in {"body", "stream"} /\ fd = task[q].fd /\ fd \in Fd
      /\ inbox[fd] = <<>> /\ fd \in Range(served[q]) /\ R \in AnswersTo(task[q].kind, q, fd, s)
      /\ Coming(fd, R, Taken(task[q])) /\ HasRead(task[q], R, s)
  BY DEF ReadsFrom
<1>2. b \in Seq(Token) /\ w \in Seq(Token) /\ mail \in Seq(Message) /\ task[q] \in Request
  BY <1>1 DEF HttpInv, HttpTypes, NetTypes
<1>3. /\ body \in Seq(Token) /\ 1 + Len(body) <= Len(R) /\ \A k \in DOMAIN body : body[k] = R[k + 1]
      /\ Flow(fd, R, 1 + Len(body), b2, mail, w)
  <2>1. /\ R \in AnswersTo(task[q].kind, q, fd, s) /\ task[q].pc \in {"body", "stream"} /\ fd \in Fd
        /\ Coming(fd, R, Taken(task[q])) /\ HasRead(task[q], R, s)
    BY <1>1
  <2>3. body \in Seq(Token) /\ 1 + Len(body) <= Len(R) /\ ReadTo(fd, R, n, body)
    BY <2>1, ReadsMore
  <2>4. /\ \A k \in DOMAIN body : body[k] = R[k + 1]
        /\ Flow(fd, R, 1 + Len(body), b2, mail, w)
    BY <2>3 DEF ReadTo
  <2> QED BY <2>3, <2>4
<1>4. b2 \in Seq(Token)
  <2>1. n \in 0 .. Len(b)
    OBVIOUS
  <2> HIDE DEF b
  <2>2. Len(b) \in Nat /\ n \in Nat /\ n <= Len(b)
    BY <1>2, <2>1
  <2>3. SubSeq(b, n + 1, Len(b)) \in Seq(Token)
    BY <1>2, <2>2
  <2> QED BY <2>3
<1>5. /\ t \in Request /\ t.pc = "done" /\ t.fd = fd /\ t.kind = task[q].kind
      /\ t.fromPool = task[q].fromPool /\ t.head = task[q].head /\ t.body = body
      /\ t.before = task[q].before
  BY <1>1, <1>2, <1>3 DEF Request, Pc
<1>6. /\ task' = [task EXCEPT ![q] = t] /\ buf' = [buf EXCEPT ![fd] = b2]
      /\ UNCHANGED <<rclosed, tls, mail, wire, eof, inbox, served>>
  BY DEF TakesLast
<1> HIDE DEF t, b2, b, w
<1>7. AnswerOf(q, t)
  <2>1. t.before = NoHead /\ t.kind # "head" /\ s.mode \in {"length", "chunked"} =>
           /\ 1 + Len(t.body) = Len(R)
           /\ t.kind # "stream" => \A k \in DOMAIN t.body : t.body[k].k # "broken"
    BY <1>5 DEF Whole
  <2>2. R \in AnswersTo(t.kind, q, fd, s) /\ t.body \in Seq(Token) /\ 1 + Len(t.body) <= Len(R)
        /\ \A k \in DOMAIN t.body : t.body[k] = R[k + 1]
    BY <1>1, <1>3, <1>5
  <2>3. fd \in Fd /\ t.fd = fd /\ t.before \in HeadToken /\ t.head = Merged(t.before, R[1])
    BY <1>1, <1>2, <1>5 DEF HasRead, Request
  <2> QED BY <2>1, <2>2, <2>3, AnsweredWhole
<1>8. \E L : Left(L) /\ Flow(fd, L, 0, b2, mail, w)
  <2> DEFINE c == 1 + Len(body)
  <2>1. c \in 1 .. Len(R) /\ Flow(fd, R, c, b2, mail, w)
    <3>1. Len(body) \in Nat /\ Len(R) \in Nat
      BY <1>3
    <3> QED BY <1>3, <3>1
  <2>2. R \in AnswersTo(task[q].kind, q, fd, s) /\ fd \in Fd
    BY <1>1
  <2> HIDE DEF c
  <2> QED BY <1>2, <1>4, <2>1, <2>2, RestOfRead
<1>9. \/ Closes({fd}) /\ UNCHANGED <<pool, cleanup>>
      \/ PoolPut(task[q].key, fd, head) /\ \E L : Left(L) /\ Flow(fd, L, 0, b2, mail, wire[fd])
  BY <1>8 DEF w, ReleasedBy
<1>10. task[q].pc \in {"head", "body", "stream"}
  BY <1>1
<1> QED BY <1>1, <1>4, <1>5, <1>6, <1>7, <1>9, <1>10, Finishes
\* The next token is a part, and the response goes on.
LEMMA BodyGoes ==
    ASSUME HttpInv, NEW q \in Task, NEW fd, NEW s \in Shape, NEW R \in Seq(Token), ReadsFrom(q, fd, s, R),
           Len(buf[fd]) >= 1, Head(buf[fd]).k = "part", task[q].pc = "body" => s.mode = "chunked",
           task' = [task EXCEPT ![q].body = Append(@, Head(buf[fd]))],
           buf' = [buf EXCEPT ![fd] = SubSeq(buf[fd], 2, Len(buf[fd]))],
           UNCHANGED <<sock, handler, rclosed, tls, mail, wire, eof, inbox, served, pool, cleanup>>
    PROVE  HttpInv'
<1> DEFINE b == buf[fd]
           one == 1
           b2 == SubSeq(b, one + 1, Len(b))
           body == task[q].body \o SubSeq(b, 1, one)
           t == [task[q] EXCEPT !.body = body]
           w == wire[fd]
<1>1. /\ task[q].pc \in {"body", "stream"} /\ fd = task[q].fd /\ fd \in Fd
      /\ inbox[fd] = <<>> /\ fd \in Range(served[q]) /\ R \in AnswersTo(task[q].kind, q, fd, s)
      /\ Coming(fd, R, Taken(task[q])) /\ HasRead(task[q], R, s)
  BY DEF ReadsFrom
<1>2. /\ b \in Seq(Token) /\ w \in Seq(Token) /\ mail \in Seq(Message) /\ task[q] \in Request
      /\ task[q].body \in Seq(Token)
  BY <1>1 DEF HttpInv, HttpTypes, NetTypes, Request
<1>3. one \in 0 .. Len(b) /\ Head(b) = b[1] /\ b[1] \in Token /\ SubSeq(b, 1, one) = <<b[1]>>
  <2>1. Len(b) >= 1
    OBVIOUS
  <2> HIDE DEF b
  <2>2. one \in 0 .. Len(b) /\ Head(b) = b[1] /\ b[1] \in Token
    BY <1>2, <2>1
  <2> DEFINE y == SubSeq(b, 1, one)
             z == <<b[1]>>
  <2>3. y \in Seq(Token) /\ Len(y) = 1 /\ y[1] = b[1]
    BY <1>2, <2>1
  <2>4. z \in Seq(Token) /\ Len(z) = 1 /\ z[1] = b[1]
    BY <2>2
  <2> HIDE DEF y, z
  <2>5. \A i \in 1 .. Len(y) : i = 1
    BY <2>3
  <2>6. y = z
    BY <2>3, <2>4, <2>5, SameSeq
  <2> QED BY <2>2, <2>6 DEF y, z
<1>4. body = Append(task[q].body, Head(buf[fd]))
  BY <1>2, <1>3
<1>5. /\ body \in Seq(Token) /\ Len(body) = Len(task[q].body) + one
      /\ 1 + Len(body) <= Len(R) /\ \A k \in DOMAIN body : body[k] = R[k + 1]
      /\ Flow(fd, R, 1 + Len(body), b2, mail, w)
  <2>1. one \in 0 .. Len(buf[fd]) /\ body = BodyWith(q, fd, one)
    BY <1>3 DEF BodyWith
  <2>2. /\ R \in AnswersTo(task[q].kind, q, fd, s) /\ task[q].pc \in {"body", "stream"} /\ fd \in Fd
        /\ Coming(fd, R, Taken(task[q])) /\ HasRead(task[q], R, s)
    BY <1>1
  <2> HIDE DEF one, body
  <2>3. /\ body \in Seq(Token) /\ Len(body) = Len(task[q].body) + one /\ 1 + Len(body) <= Len(R)
        /\ ReadTo(fd, R, one, body)
    BY <2>1, <2>2, ReadsMore
  <2>4. /\ \A k \in DOMAIN body : body[k] = R[k + 1]
        /\ Flow(fd, R, 1 + Len(body), b2, mail, w)
    BY <2>3 DEF ReadTo
  <2> QED BY <2>3, <2>4
<1>6. b2 \in Seq(Token)
  BY <1>2
<1>7. task' = [task EXCEPT ![q] = t] /\ buf' = [buf EXCEPT ![fd] = b2]
  <2>1. task' = [task EXCEPT ![q] = [task[q] EXCEPT !.body = Append(task[q].body, Head(buf[fd]))]]
    OBVIOUS
  <2>2. one + 1 = 2
    OBVIOUS
  <2> HIDE DEF body, one
  <2> QED BY <1>4, <2>1, <2>2
<1>8. \A k \in DOMAIN body : R[k + 1].k = "part"
  <2>1. DOMAIN body = 1 .. Len(task[q].body) + 1 /\ DOMAIN task[q].body = 1 .. Len(task[q].body)
        /\ Len(task[q].body) \in Nat
    BY <1>2, <1>5
  <2>2. body[Len(task[q].body) + 1] = b[1]
    BY <1>2, <1>3, <1>4
  <2>3. \A k \in DOMAIN task[q].body : R[k + 1].k = "part"
    BY <1>1 DEF HasRead
  <2> HIDE DEF body, b
  <2>4. \A k \in DOMAIN body : k \in DOMAIN task[q].body \/ k = Len(task[q].body) + 1
    BY <2>1
  <2>5. b[1].k = "part"
    BY <1>3 DEF b
  <2> QED BY <1>5, <2>1, <2>2, <2>3, <2>4, <2>5
<1> HIDE DEF body, b2, b, w
<1>9. /\ t \in Request /\ t.pc = task[q].pc /\ t.fd = fd /\ t.kind = task[q].kind /\ t.key = task[q].key
      /\ t.fromPool = task[q].fromPool /\ t.head = task[q].head /\ t.body = body
      /\ t.before = task[q].before
  BY <1>1, <1>2, <1>5 DEF Request
<1> HIDE DEF t
<1>10. Taken(t) = 1 + Len(body) /\ t.pc # "head"
  BY <1>1, <1>9 DEF Taken
<1>11. HasRead(t, R, s)
  <2>1. t.head = Merged(t.before, R[1]) /\ t.kind # "head"
    BY <1>1, <1>9 DEF HasRead
  <2>2. (t.pc = "body" => s.mode = "chunked") /\ (t.pc = "stream" => t.kind = "stream")
    BY <1>1, <1>9 DEF HasRead
  <2> QED BY <1>5, <1>8, <1>9, <1>10, <2>1, <2>2 DEF HasRead
<1>12. R \in AnswersTo(t.kind, q, fd, s) /\ Flow(fd, R, Taken(t), b2, mail, wire[fd])
  BY <1>1, <1>5, <1>9, <1>10 DEF w
<1>13. task[q].pc \in {"head", "body", "stream"} /\ t.pc \in {"body", "stream"}
  BY <1>1, <1>9
<1> QED BY <1>1, <1>6, <1>7, <1>9, <1>11, <1>12, <1>13, Continues
\* The next token that q reads.
LEMMA NextToken ==
    ASSUME HttpInv, NEW q \in Task, NEW fd, NEW s \in Shape, NEW R \in Seq(Token), ReadsOf(q, fd, s, R),
           Len(buf[fd]) >= 1
    PROVE  /\ 2 + Len(task[q].body) <= Len(R) /\ Head(buf[fd]) = R[2 + Len(task[q].body)]
           /\ s.mode = "chunked" => IF Head(buf[fd]).k \in {"last", "broken"}
                                    THEN 2 + Len(task[q].body) = Len(R)
                                    ELSE Head(buf[fd]).k = "part"
           /\ s.mode \notin {"none", "chunked"} => Head(buf[fd]).k = "part"
<1> DEFINE b == buf[fd]
           l == Len(task[q].body)
<1>1. /\ b \in Seq(Token) /\ mail \in Seq(Message) /\ wire[fd] \in Seq(Token) /\ l \in Nat
      /\ Len(R) \in Nat /\ task[q].pc # "head" /\ Coming(fd, R, Taken(task[q]))
  BY DEF ReadsOf, ReadsFrom, HttpInv, HttpTypes, NetTypes, Request
<1>2. Flow(fd, R, 1 + l, b, mail, wire[fd])
  BY <1>1 DEF Coming, Taken
<1>3. Len(b) >= 1
  OBVIOUS
<1>4. l + 1 <= Len(R) /\ s.n \in Nat
  BY <1>1 DEF ReadsOf
<1>5. s.mode # "none" => \E m \in 0 .. s.n : IsBody(R, q, fd, s, m)
  BY DEF ReadsOf
<1> HIDE DEF b, l
<1> DEFINE c == 1 + l
<1>6. c \in Nat /\ c + 1 = 2 + l /\ Flow(fd, R, c, b, mail, wire[fd])
  BY <1>1, <1>2
<1> HIDE DEF c
<1>7. c + Len(b) <= Len(R) /\ \A j \in DOMAIN b : b[j] = R[c + j]
  <2>1. PICK k \in 0 .. Len(b) : k = 0
    BY <1>1
  <2>2. c + Len(b) <= Len(R)
    BY <1>1, <1>6, FlowTaken
  <2>3. \A j \in DOMAIN b : b[j] = R[c + j]
    BY <1>6 DEF Flow, FlowBy
  <2> QED BY <2>2, <2>3
<1>8. 1 \in DOMAIN b /\ Head(b) = b[1] /\ c + 1 <= Len(R)
  BY <1>1, <1>3, <1>6, <1>7
<1>9. 2 + l <= Len(R) /\ Head(b) = R[2 + l]
  BY <1>6, <1>7, <1>8
<1>10. CASE s.mode # "none"
  <2>1. PICK m \in 0 .. s.n : IsBody(R, q, fd, s, m)
    BY <1>5, <1>10
  <2>2. m \in Nat
    BY <1>4
  <2>3. CASE l + 1 \in 1 .. m
    <3>1. R[(l + 1) + 1] = Part(q, fd, l + 1) /\ (l + 1) + 1 = 2 + l
      BY <1>1, <2>1, <2>3 DEF IsBody
    <3>2. Head(b).k = "part"
      BY <1>9, <3>1 DEF Part
    <3> QED BY <1>9, <3>2 DEF b, l
  <2>4. CASE ~(l + 1 <= m)
    <3>1. s.mode = "chunked"
      BY <1>1, <1>9, <2>1, <2>2, <2>4 DEF IsBody
    <3>2. Len(R) = 2 + m /\ R[m + 2].k \in {"last", "broken"}
      BY <2>1, <3>1 DEF IsBody, BrokenChunk, LastChunk
    <3>3. 2 + l = Len(R) /\ 2 + l = m + 2
      BY <1>1, <1>9, <2>2, <2>4, <3>2
    <3> QED BY <1>9, <3>1, <3>2, <3>3 DEF b, l
  <2> QED BY <1>1, <2>2, <2>3, <2>4
<1> QED BY <1>9, <1>10 DEF b, l
LEMMA ResolvesKeeps ==
    ASSUME HttpInv, NEW q \in Task, NEW fd, NEW s \in Shape, NEW R \in Seq(Token), ReadsOf(q, fd, s, R),
           NEW n \in 0 .. Len(buf[fd]), Resolves(q, n), Whole(task[q], R, s, BodyWith(q, fd, n))
    PROVE  HttpInv'
<1> DEFINE body == BodyWith(q, fd, n)
           head == task[q].head
<1>1. ReadsFrom(q, fd, s, R) /\ fd = task[q].fd
  BY DEF ReadsOf, ReadsFrom
<1>2. TakesLast(q, fd, n, body)
  <2>1. task' = [task EXCEPT ![q] = [task[q] EXCEPT !.pc = "done", !.body = body]]
    BY <1>1 DEF Resolves, BodyWith
  <2> HIDE DEF body
  <2> QED BY <1>1, <2>1 DEF TakesLast, Resolves, Consumes, peerVars
<1>3. ReleasedBy(task[q].key, fd, head)
  BY <1>1 DEF Resolves, ReleasedBy
<1>4. Whole(task[q], R, s, body) /\ body = BodyWith(q, fd, n)
  OBVIOUS
<1> HIDE DEF body, head
<1> QED BY <1>1, <1>2, <1>3, <1>4, BodyEnds
LEMMA ReadBodyKeeps ==
    ASSUME HttpInv, NEW q \in Task, ReadBody(q)
    PROVE  HttpInv'
<1>1. PICK fd : fd = task[q].fd
  OBVIOUS
<1>2. task[q].pc = "body"
  BY DEF ReadBody
<1>3. PICK s \in Shape, R \in Seq(Token) : ReadsOf(q, fd, s, R)
  BY <1>1, <1>2, ReadsResponse
<1>4. /\ task[q].head.mode = "chunked" => s.mode = "chunked"
      /\ task[q].before = NoHead => task[q].head = R[1] /\ task[q].head.mode = s.mode /\ task[q].head.n = s.n
      /\ s.n \in Nat /\ fd \in Fd /\ 1 + Len(task[q].body) <= Len(R) /\ HasRead(task[q], R, s)
      /\ s.mode # "none" => \E m \in 0 .. s.n : IsBody(R, q, fd, s, m)
      /\ R \in AnswersTo(task[q].kind, q, fd, s) /\ Coming(fd, R, Taken(task[q]))
  BY <1>3 DEF ReadsOf, ReadsFrom
<1>5. /\ buf[fd] \in Seq(Token) /\ task[q].body \in Seq(Token) /\ Len(buf[fd]) \in Nat
      /\ Len(task[q].body) \in Nat /\ Len(R) \in Nat /\ task[q].head \in HeadRead
  BY <1>4 DEF HttpInv, HttpTypes, NetTypes, Request
<1>6. ASSUME NEW n \in 0 .. Len(buf[fd])
      PROVE  /\ BodyWith(q, fd, n) \in Seq(Token) /\ Len(BodyWith(q, fd, n)) = Len(task[q].body) + n
             /\ \A k \in DOMAIN BodyWith(q, fd, n) : BodyWith(q, fd, n)[k] = R[k + 1]
  <2>1. PICK body : body = BodyWith(q, fd, n)
    OBVIOUS
  <2>2. task[q].pc \in {"body", "stream"}
    BY <1>2
  <2>3. body \in Seq(Token) /\ Len(body) = Len(task[q].body) + n /\ ReadTo(fd, R, n, body)
    BY <1>4, <2>1, <2>2, ReadsMore
  <2>4. \A k \in DOMAIN body : body[k] = R[k + 1]
    BY <2>3 DEF ReadTo
  <2> QED BY <2>1, <2>3, <2>4
<1>7. ASSUME Fails(q, task[q].head) PROVE HttpInv'
  <2>1. task[q].pc \in {"head", "body"} /\ UNCHANGED <<mail, wire, eof, inbox>>
    BY <1>2, <1>7 DEF Fails, peerVars
  <2>2. R[1] \in HeadToken
    BY <1>4, ResponseIs
  <2>3. task[q].fromPool => task[q].before = NoHead
    BY DEF HttpInv, Sent, SentOf
  <2>4. PICK parsed : parsed = task[q].head
    OBVIOUS
  <2>5. (task[q].fromPool => parsed \in HeadToken) /\ Fails(q, parsed)
    BY <1>4, <1>7, <2>2, <2>3, <2>4
  <2> QED BY <2>1, <2>5, FailsKeeps
<1>8. CASE task[q].head.mode = "none"
  <2>1. PICK n \in 0 .. Len(buf[fd]) : n = 0
    BY <1>5
  <2>2. Resolves(q, n)
    BY <1>1, <1>8, <2>1 DEF ReadBody
  <2>3. Whole(task[q], R, s, BodyWith(q, fd, n))
    BY <1>4, <1>8 DEF Whole
  <2> QED BY <1>3, <2>2, <2>3, ResolvesKeeps
<1>9. CASE task[q].head.mode = "length"
  <2>1. IF Has(fd, task[q].head.n) THEN Resolves(q, task[q].head.n) ELSE Fails(q, task[q].head)
    BY <1>1, <1>9 DEF ReadBody
  <2>2. CASE Has(fd, task[q].head.n)
    <3>1. task[q].head.n \in Nat
      BY <1>5, Limits DEF HeadRead
    <3>2. PICK n \in 0 .. Len(buf[fd]) : n = task[q].head.n
      BY <1>5, <2>2, <3>1 DEF Has
    <3>3. Resolves(q, n)
      BY <2>1, <2>2, <3>2
    <3>4. Whole(task[q], R, s, BodyWith(q, fd, n))
      <4>1. PICK body : body = BodyWith(q, fd, n)
        OBVIOUS
      <4>2. SUFFICES ASSUME task[q].before = NoHead
                     PROVE  1 + Len(body) = Len(R) /\ \A k \in DOMAIN body : body[k].k # "broken"
        BY <4>1 DEF Whole
      <4>3. s.mode = "length" /\ n = s.n
        BY <1>4, <1>9, <3>2, <4>2
      <4>4. task[q].body = <<>>
        BY <1>2, <1>4, <4>3 DEF HasRead
      <4>5. body \in Seq(Token) /\ Len(body) = s.n /\ \A k \in DOMAIN body : body[k] = R[k + 1]
        BY <1>4, <1>6, <4>1, <4>3, <4>4
      <4>6. Len(R) = 1 + s.n /\ \A k \in 1 .. s.n : R[k + 1] = Part(q, fd, k)
        BY <1>4, <4>3 DEF IsBody
      <4>7. DOMAIN body = 1 .. s.n
        BY <4>5
      <4>8. ASSUME NEW k \in DOMAIN body PROVE body[k].k = "part"
        <5>1. body[k] = Part(q, fd, k)
          BY <4>5, <4>6, <4>7
        <5> QED BY <5>1 DEF Part
      <4> QED BY <4>5, <4>6, <4>8
    <3> QED BY <1>3, <3>3, <3>4, ResolvesKeeps
  <2> QED BY <1>7, <2>1, <2>2
<1>10. CASE task[q].head.mode = "chunked"
  <2>1. /\ CanRead(q, 1)
        /\ IF Never(fd, 1) \/ Head(buf[fd]).k = "broken" THEN Fails(q, task[q].head)
           ELSE IF Head(buf[fd]).k = "last" THEN Resolves(q, 1) ELSE NextPart(q)
    BY <1>1, <1>10 DEF ReadBody
  <2>2. s.mode = "chunked"
    BY <1>4, <1>10
  <2>3. CASE ~(Never(fd, 1) \/ Head(buf[fd]).k = "broken")
    <3>1. Len(buf[fd]) >= 1
      BY <1>1, <2>1, <2>3 DEF CanRead, Has
    <3>2. PICK n \in 0 .. Len(buf[fd]) : n = 1
      BY <1>5, <3>1
    <3>3. /\ Head(buf[fd]) = R[2 + Len(task[q].body)]
          /\ IF Head(buf[fd]).k = "last" THEN 2 + Len(task[q].body) = Len(R)
             ELSE Head(buf[fd]).k = "part"
      BY <1>3, <2>2, <2>3, <3>1, NextToken
    <3>4. CASE Head(buf[fd]).k = "last"
      <4>1. PICK body : body = BodyWith(q, fd, n)
        OBVIOUS
      <4>2. /\ body \in Seq(Token) /\ Len(body) = Len(task[q].body) + 1
            /\ \A k \in DOMAIN body : body[k] = R[k + 1]
        BY <1>6, <3>2, <4>1
      <4>3. 1 + Len(body) = Len(R)
        BY <1>5, <3>3, <3>4, <4>2
      <4>4. ASSUME NEW k \in DOMAIN body PROVE body[k].k # "broken"
        <5>1. k \in 1 .. Len(task[q].body) + 1
          BY <4>2
        <5>2. CASE k = Len(task[q].body) + 1
          <6>1. k + 1 = 2 + Len(task[q].body)
            BY <1>5, <5>2
          <6>2. body[k] = Head(buf[fd])
            BY <3>3, <4>2, <6>1
          <6> QED BY <3>4, <6>2
        <5>3. CASE k # Len(task[q].body) + 1
          <6>1. k \in DOMAIN task[q].body
            BY <1>5, <5>1, <5>3
          <6>2. R[k + 1].k = "part"
            BY <1>2, <1>4, <6>1 DEF HasRead
          <6> QED BY <4>2, <6>2
        <5> QED BY <5>2, <5>3
      <4>5. Whole(task[q], R, s, BodyWith(q, fd, n))
        BY <4>1, <4>3, <4>4 DEF Whole
      <4>6. Resolves(q, n)
        BY <2>1, <2>3, <3>2, <3>4
      <4> QED BY <1>3, <4>5, <4>6, ResolvesKeeps
    <3>5. CASE Head(buf[fd]).k # "last"
      <4>1. NextPart(q) /\ Head(buf[fd]).k = "part"
        BY <2>1, <2>3, <3>3, <3>5
      <4>2. /\ task' = [task EXCEPT ![q].body = Append(@, Head(buf[fd]))]
            /\ buf' = [buf EXCEPT ![fd] = SubSeq(buf[fd], 2, Len(buf[fd]))]
            /\ UNCHANGED <<sock, handler, rclosed, tls, mail, wire, eof, inbox, served, pool, cleanup>>
        BY <1>1, <4>1 DEF NextPart, Consumes, peerVars
      <4>3. ReadsFrom(q, fd, s, R)
        BY <1>3 DEF ReadsOf
      <4> QED BY <2>2, <3>1, <4>1, <4>2, <4>3, BodyGoes
    <3> QED BY <3>4, <3>5
  <2> QED BY <1>7, <2>1, <2>3
<1>11. CASE task[q].head.mode = "close"
  <2>1. Resolves(q, Len(buf[fd]))
    BY <1>1, <1>11 DEF ReadBody
  <2>2. PICK n \in 0 .. Len(buf[fd]) : n = Len(buf[fd])
    BY <1>5
  <2>3. Resolves(q, n)
    BY <2>1, <2>2
  <2>4. Whole(task[q], R, s, BodyWith(q, fd, n))
    BY <1>4, <1>11 DEF Whole
  <2> QED BY <1>3, <2>3, <2>4, ResolvesKeeps
<1>12. CASE task[q].head.mode = "invalid"
  <2>1. Fails(q, task[q].head)
    BY <1>1, <1>12 DEF ReadBody
  <2> QED BY <1>7, <2>1
<1>13. task[q].head.mode \in Mode \cup {"invalid"}
  BY <1>5 DEF HeadRead
<1> QED BY <1>8, <1>9, <1>10, <1>11, <1>12, <1>13 DEF Mode
LEMMA OneMore ==
    ASSUME HttpInv, NEW q \in Task, NEW fd \in Fd, Len(buf[fd]) >= 1
    PROVE  BodyWith(q, fd, 1) = Append(task[q].body, Head(buf[fd]))
<1> DEFINE b == buf[fd]
           y == SubSeq(b, 1, 1)
           z == <<b[1]>>
           old == task[q].body
<1>1. b \in Seq(Token) /\ old \in Seq(Token)
  BY DEF HttpInv, HttpTypes, NetTypes, Request
<1>2. Len(b) >= 1
  OBVIOUS
<1>3. BodyWith(q, fd, 1) = old \o y
  BY DEF BodyWith
<1> HIDE DEF b, old
<1>4. Head(b) = b[1] /\ b[1] \in Token
  BY <1>1, <1>2
<1>5. y \in Seq(Token) /\ Len(y) = 1 /\ y[1] = b[1]
  BY <1>1, <1>2
<1>6. z \in Seq(Token) /\ Len(z) = 1 /\ z[1] = b[1]
  BY <1>4
<1> HIDE DEF y, z
<1>7. \A i \in 1 .. Len(y) : i = 1
  BY <1>5
<1>8. y = z
  BY <1>5, <1>6, <1>7, SameSeq
<1>9. old \o z = Append(old, b[1])
  BY <1>1, <1>4 DEF z
<1> QED BY <1>3, <1>4, <1>8, <1>9 DEF b, old
LEMMA NoneMore ==
    ASSUME HttpInv, NEW q \in Task, NEW fd \in Fd
    PROVE  BodyWith(q, fd, 0) = task[q].body /\ buf = [buf EXCEPT ![fd] = SubSeq(buf[fd], 1, Len(buf[fd]))]
<1> DEFINE b == buf[fd]
           old == task[q].body
           y == SubSeq(b, 1, 0)
           all == SubSeq(b, 1, Len(b))
<1>1. b \in Seq(Token) /\ old \in Seq(Token) /\ buf \in [Fd -> Seq(Token)]
  BY DEF HttpInv, HttpTypes, NetTypes, Request
<1>2. BodyWith(q, fd, 0) = old \o y
  BY DEF BodyWith
<1> HIDE DEF b, old
<1>3. y \in Seq(Token) /\ Len(y) = 0
  BY <1>1
<1>4. all \in Seq(Token) /\ Len(all) = Len(b) /\ \A i \in 1 .. Len(all) : all[i] = b[i]
  BY <1>1
<1> HIDE DEF y, all
<1>5. y = <<>>
  BY <1>3
<1>6. all = b
  BY <1>1, <1>4, SameSeq
<1>7. old \o y = old
  BY <1>1, <1>5
<1>8. buf = [buf EXCEPT ![fd] = all]
  BY <1>1, <1>6 DEF b
<1> QED BY <1>2, <1>7, <1>8 DEF all, b, old
LEMMA FinishKeeps ==
    ASSUME HttpInv, NEW q \in Task, NEW fd, NEW s \in Shape, NEW R \in Seq(Token), ReadsOf(q, fd, s, R),
           NEW n \in 0 .. Len(buf[fd]), NEW body, body = BodyWith(q, fd, n), FinishStream(q, body),
           buf' = [buf EXCEPT ![fd] = SubSeq(buf[fd], n + 1, Len(buf[fd]))],
           UNCHANGED <<rclosed, tls, peerVars, served>>, 1 + Len(body) = Len(R), task[q].kind = "stream"
    PROVE  HttpInv'
<1>1. ReadsFrom(q, fd, s, R) /\ fd = task[q].fd
  BY DEF ReadsOf, ReadsFrom
<1>2. TakesLast(q, fd, n, body)
  <2>1. task' = [task EXCEPT ![q] = [task[q] EXCEPT !.pc = "done", !.body = body]]
    BY DEF FinishStream
  <2> QED BY <2>1 DEF TakesLast, peerVars
<1>3. PICK head : head = task[q].head
  OBVIOUS
<1>4. ReleasedBy(task[q].key, fd, head)
  BY <1>1, <1>3 DEF FinishStream, ReleasedBy
<1>5. Whole(task[q], R, s, body)
  BY DEF Whole
<1> QED BY <1>1, <1>2, <1>4, <1>5, BodyEnds
LEMMA StreamReadKeeps ==
    ASSUME HttpInv, NEW q \in Task, StreamRead(q)
    PROVE  HttpInv'
<1>1. PICK fd : fd = task[q].fd
  OBVIOUS
<1>2. task[q].pc = "stream"
  BY DEF StreamRead
<1>3. PICK s \in Shape, R \in Seq(Token) : ReadsOf(q, fd, s, R)
  BY <1>1, <1>2, ReadsResponse
<1>a. task[q].kind = "stream" /\ task[q].before = NoHead
  <2>1. task[q].kind = "stream"
    BY <1>2, <1>3 DEF ReadsOf, ReadsFrom, HasRead
  <2> QED BY <2>1 DEF HttpInv, Sent, SentOf
<1>4. /\ task[q].head.mode = s.mode /\ task[q].head.n = s.n /\ s.n \in Nat /\ fd \in Fd
      /\ s.mode \notin {"none", "chunked"} => Len(R) = 1 + s.n
      /\ R \in AnswersTo(task[q].kind, q, fd, s) /\ Coming(fd, R, Taken(task[q])) /\ HasRead(task[q], R, s)
      /\ ReadsFrom(q, fd, s, R)
  BY <1>3, <1>a DEF ReadsOf, ReadsFrom, IsBody
<1>5. /\ Len(buf[fd]) \in Nat /\ Len(task[q].body) \in Nat /\ Len(R) \in Nat
      /\ task[q].body \in Seq(Token)
  BY <1>4 DEF HttpInv, HttpTypes, NetTypes, Request
<1>6. UNCHANGED <<rclosed, tls, peerVars, served>>
  BY DEF StreamRead
<1>7. ASSUME NEW n \in 0 .. Len(buf[fd])
      PROVE  Len(BodyWith(q, fd, n)) = Len(task[q].body) + n
  <2>1. PICK body : body = BodyWith(q, fd, n)
    OBVIOUS
  <2>2. task[q].pc \in {"body", "stream"}
    BY <1>2
  <2> QED BY <1>4, <2>1, <2>2, ReadsMore
<1> DEFINE more == Append(task[q].body, Head(buf[fd]))
           left == s.n - Len(task[q].body)
           Goes2 == task' = [task EXCEPT ![q].body = more] /\ UNCHANGED <<sock, handler, pool, cleanup>>
<1>8. ASSUME Has(fd, 1), Consumes(fd, 1), FinishStream(q, more), 2 + Len(task[q].body) = Len(R)
      PROVE  HttpInv'
  <2>1. PICK n \in 0 .. Len(buf[fd]) : n = 1
    BY <1>5, <1>8 DEF Has
  <2>2. PICK body : body = BodyWith(q, fd, n)
    OBVIOUS
  <2>3. body = more
    BY <1>4, <1>8, <2>1, <2>2, OneMore DEF Has
  <2>4. 1 + Len(body) = Len(R)
    <3>1. Len(body) = Len(task[q].body) + n
      BY <1>7, <2>2
    <3> QED BY <1>5, <1>8, <2>1, <3>1
  <2>5. buf' = [buf EXCEPT ![fd] = SubSeq(buf[fd], n + 1, Len(buf[fd]))]
    BY <1>8, <2>1 DEF Consumes
  <2>6. FinishStream(q, body)
    BY <1>8, <2>3
  <2> HIDE DEF more
  <2> QED BY <1>3, <1>6, <1>a, <2>2, <2>4, <2>5, <2>6, FinishKeeps
<1>9. ASSUME Has(fd, 1), Consumes(fd, 1), Goes2, Head(buf[fd]).k = "part"
      PROVE  HttpInv'
  <2>1. /\ task' = [task EXCEPT ![q].body = Append(@, Head(buf[fd]))]
        /\ buf' = [buf EXCEPT ![fd] = SubSeq(buf[fd], 2, Len(buf[fd]))]
        /\ UNCHANGED <<sock, handler, rclosed, tls, mail, wire, eof, inbox, served, pool, cleanup>>
    BY <1>6, <1>9 DEF Consumes, peerVars
  <2>2. Len(buf[fd]) >= 1 /\ task[q].pc # "body"
    BY <1>2, <1>9 DEF Has
  <2> QED BY <1>4, <1>9, <2>1, <2>2, BodyGoes
<1>10. ASSUME Has(fd, 1)
       PROVE  /\ s.mode = "chunked" => IF Head(buf[fd]).k \in {"last", "broken"}
                                       THEN 2 + Len(task[q].body) = Len(R)
                                       ELSE Head(buf[fd]).k = "part"
              /\ s.mode \notin {"none", "chunked"} => Head(buf[fd]).k = "part"
  BY <1>3, <1>10, NextToken DEF Has
<1>11. CASE /\ s.mode = "chunked" /\ Has(fd, 1) /\ Consumes(fd, 1)
            /\ IF Head(buf[fd]).k \in {"last", "broken"} THEN FinishStream(q, more) ELSE Goes2
  <2> HIDE DEF more, Goes2
  <2> QED BY <1>8, <1>9, <1>10, <1>11
<1>12. CASE s.mode = "length" /\ left = 0 /\ FinishStream(q, task[q].body) /\ UNCHANGED buf
  <2>1. PICK n \in 0 .. Len(buf[fd]) : n = 0
    BY <1>5
  <2>2. PICK body : body = BodyWith(q, fd, n)
    OBVIOUS
  <2>3. body = task[q].body
    BY <1>4, <2>1, <2>2, NoneMore
  <2>4. FinishStream(q, body) /\ 1 + Len(body) = Len(R)
    BY <1>4, <1>5, <1>12, <2>3
  <2>5. buf' = [buf EXCEPT ![fd] = SubSeq(buf[fd], n + 1, Len(buf[fd]))]
    BY <1>4, <1>12, <2>1, NoneMore
  <2> QED BY <1>3, <1>6, <1>a, <2>2, <2>4, <2>5, FinishKeeps
<1>13. CASE /\ s.mode = "length" /\ left > 0 /\ Has(fd, 1) /\ Consumes(fd, 1)
            /\ IF left = 1 THEN FinishStream(q, more) ELSE Goes2
  <2>1. left = 1 => 2 + Len(task[q].body) = Len(R)
    <3>1. Len(R) = 1 + s.n
      BY <1>4, <1>13
    <3>2. s.n \in Nat /\ Len(task[q].body) \in Nat
      BY <1>4, <1>5
    <3> QED BY <3>1, <3>2
  <2> HIDE DEF more, Goes2, left
  <2> QED BY <1>8, <1>9, <1>10, <1>13, <2>1
<1>14. CASE Closes({fd}) /\ Goes(q, "closed") /\ UNCHANGED <<buf, pool, cleanup>>
  <2>1. PICK pc \in {"failed", "closed"} : pc = "closed"
    OBVIOUS
  <2>2. Goes(q, pc) /\ Closes({task[q].fd}) /\ task[q].pc \in Active \ {"handshake"}
    BY <1>1, <1>2, <1>14, <2>1 DEF Active
  <2> QED BY <1>6, <1>14, <2>2, EndsClosed
<1>15. CASE Never(fd, 1) /\ Goes(q, "failed") /\ UNCHANGED <<buf, sock, handler, pool, cleanup>>
  <2>1. PICK pc \in {"failed", "closed"} : pc = "failed"
    OBVIOUS
  <2>2. PICK X \in SUBSET Fd : X = {}
    OBVIOUS
  <2>3. ClosesOnly(X) /\ Goes(q, pc) /\ task[q].pc # "handshake"
    BY <1>2, <1>15, <2>1, <2>2 DEF ClosesOnly
  <2>4. UNCHANGED <<buf, rclosed, tls, mail, wire, eof, inbox, served>> /\ UNCHANGED <<pool, cleanup>>
    BY <1>6, <1>15 DEF peerVars
  <2>5. \A g \in Fd : InPool(g)' <=> InPool(g) /\ g \notin X
    BY <1>15, <2>2 DEF InPool
  <2>6. \A g \in Fd : Holds(q, g) /\ sock[g] \in {"opening", "open"} => g \in X
    <3>1. sock[fd] \in {"shut", "gone"}
      BY <1>4, <1>15 DEF Never, HttpInv, Sockets, SocketOf
    <3> QED BY <1>1, <3>1 DEF Holds
  <2> QED BY <2>2, <2>3, <2>4, <2>5, <2>6, RequestEnds
<1>16. \/ /\ s.mode = "chunked" /\ Has(fd, 1) /\ Consumes(fd, 1)
          /\ IF Head(buf[fd]).k \in {"last", "broken"} THEN FinishStream(q, more) ELSE Goes2
       \/ s.mode = "length" /\ left = 0 /\ FinishStream(q, task[q].body) /\ UNCHANGED buf
       \/ /\ s.mode = "length" /\ left > 0 /\ Has(fd, 1) /\ Consumes(fd, 1)
          /\ IF left = 1 THEN FinishStream(q, more) ELSE Goes2
       \/ Closes({fd}) /\ Goes(q, "closed") /\ UNCHANGED <<buf, pool, cleanup>>
       \/ Never(fd, 1) /\ Goes(q, "failed") /\ UNCHANGED <<buf, sock, handler, pool, cleanup>>
  BY <1>1, <1>4 DEF StreamRead
<1> HIDE DEF more, left, Goes2
<1> QED BY <1>11, <1>12, <1>13, <1>14, <1>15, <1>16
-----------------------------------------------------------------------------
(* The network and the server move one socket.                              *)
NetMoves(fd) ==
    /\ UNCHANGED <<handler, buf, rclosed, tls, task, pool, cleanup>>
    /\ NetTypes' /\ served' \in [Task -> Seq(Fd)]
    /\ \A g \in Fd \ {fd} :
          /\ sock'[g] = sock[g] /\ wire'[g] = wire[g] /\ inbox'[g] = inbox[g]
          /\ \A q \in Task : g \in Range(served'[q]) <=> g \in Range(served[q])
    /\ \A q \in Task : Range(served[q]) \subseteq Range(served'[q])
    /\ mail' = mail \/ \E x \in Message : x.fd = fd /\ mail' = Append(mail, x)
    /\ sock'[fd] \in {"opening", "open"} => sock[fd] \in {"opening", "open"}
LEMMA MailGrows ==
    ASSUME NEW m \in Seq(Message), NEW x \in Message
    PROVE  /\ Append(m, x) \in Seq(Message) /\ DOMAIN m = 1 .. Len(m) /\ Len(m) \in Nat
           /\ DOMAIN Append(m, x) = 1 .. Len(m) + 1 /\ Append(m, x)[Len(m) + 1] = x
           /\ \A i \in DOMAIN m : i \in DOMAIN Append(m, x) /\ Append(m, x)[i] = m[i]
           /\ \A i \in DOMAIN Append(m, x) : i \in DOMAIN m \/ i = Len(m) + 1
           /\ \A i \in DOMAIN m : ~(Len(m) + 1 <= i)
<1>1. /\ Append(m, x) \in Seq(Message) /\ DOMAIN m = 1 .. Len(m) /\ Len(m) \in Nat
      /\ DOMAIN Append(m, x) = 1 .. Len(m) + 1 /\ Append(m, x)[Len(m) + 1] = x
      /\ \A i \in 1 .. Len(m) : Append(m, x)[i] = m[i]
  OBVIOUS
<1>2. \A i \in 1 .. Len(m) + 1 : i \in 1 .. Len(m) \/ i = Len(m) + 1
  BY <1>1
<1>3. \A i \in 1 .. Len(m) : i \in 1 .. Len(m) + 1 /\ ~(Len(m) + 1 <= i)
  BY <1>1
<1> QED BY <1>1, <1>2, <1>3
\* What is coming on another socket.
LEMMA OtherComing ==
    ASSUME HttpInv, NEW fd \in Fd, NetMoves(fd), NEW g \in Fd \ {fd}
    PROVE  /\ SilentIn(mail, g) => SilentIn(mail', g)
           /\ \A R \in Seq(Token), c \in Nat : Coming(g, R, c) => Coming(g, R, c)'
           /\ EndsLast(g)'
<1>1. /\ mail \in Seq(Message) /\ buf[g] \in Seq(Token) /\ wire[g] \in Seq(Token)
      /\ wire'[g] = wire[g] /\ buf' = buf /\ sock'[g] = sock[g] /\ EndsLast(g)
  BY DEF HttpInv, HttpTypes, NetTypes, Sockets, NetMoves
<1>2. CASE mail' = mail
  <2>1. \A R, c : Coming(g, R, c) => Coming(g, R, c)'
    BY <1>1, <1>2 DEF Coming
  <2>2. EndsLast(g)'
    BY <1>1, <1>2 DEF EndsLast
  <2> QED BY <1>2, <2>1, <2>2
<1>3. CASE mail' # mail
  <2>1. PICK x \in Message : x.fd = fd /\ mail' = Append(mail, x)
    BY <1>3 DEF NetMoves
  <2>2. ~IsData(x, g) /\ ~IsEnd(x, g)
    BY <2>1 DEF IsData, IsEnd
  <2>3. /\ DOMAIN mail' = 1 .. Len(mail) + 1 /\ mail'[Len(mail) + 1] = x
        /\ \A i \in DOMAIN mail : i \in DOMAIN mail' /\ mail'[i] = mail[i]
        /\ \A i \in DOMAIN mail' : i \in DOMAIN mail \/ i = Len(mail) + 1
    BY <1>1, <2>1, MailGrows
  <2>4. SilentIn(mail, g) => SilentIn(mail', g)
    BY <2>2, <2>3 DEF SilentIn
  <2>5. ASSUME NEW R \in Seq(Token), NEW c \in Nat, Coming(g, R, c) PROVE Coming(g, R, c)'
    <3>1. Flow(g, R, c, buf[g], Append(mail, x), wire[g])
      BY <1>1, <2>2, <2>5, FlowPosts DEF Coming
    <3> QED BY <1>1, <2>1, <3>1 DEF Coming
  <2>6. EndsLast(g)'
    <3>1. \A i \in DOMAIN mail : IsEnd(mail[i], g) =>
             sock[g] \in {"shut", "gone"} /\ \A j \in DOMAIN mail : i <= j => ~IsData(mail[j], g)
      BY <1>1 DEF EndsLast
    <3>2. \A i \in DOMAIN mail' : IsEnd(mail'[i], g) =>
             sock'[g] \in {"shut", "gone"} /\ \A j \in DOMAIN mail' : i <= j => ~IsData(mail'[j], g)
      BY <1>1, <2>2, <2>3, <3>1
    <3> QED BY <3>2 DEF EndsLast
  <2> QED BY <2>4, <2>5, <2>6
<1> QED BY <1>2, <1>3
LEMMA NetSame ==
    ASSUME NEW fd \in Fd, NetMoves(fd)
    PROVE  /\ \A g : InPool(g)' <=> InPool(g)
           /\ \A q, g : Holds(q, g)' <=> Holds(q, g)
           /\ \A g : Held(g)' <=> Held(g)
<1>1. task' = task /\ pool' = pool
  BY DEF NetMoves
<1>2. \A g : InPool(g)' <=> InPool(g)
  BY <1>1 DEF InPool
<1>3. \A q, g : Holds(q, g)' <=> Holds(q, g)
  BY <1>1 DEF Holds
<1> QED BY <1>2, <1>3 DEF Held
\* What is on its way on g is still on its way.
StillComing(g) ==
    /\ handler'[g] = "connecting" <=> handler[g] = "connecting"
    /\ tls'[g] = tls[g] /\ inbox'[g] = inbox[g]
    /\ Calm(g) => Calm(g)'
    /\ \A x \in Nat : Asked(g, x) => Asked(g, x)'
    /\ \A R \in Seq(Token), c \in Nat : Coming(g, R, c) => Coming(g, R, c)'
    /\ \A q \in Task : g \in Range(served[q]) => g \in Range(served'[q])
LEMMA StillRest ==
    ASSUME NEW g, StillComing(g)
    PROVE  (Rest(g) => Rest(g)') /\ \A R \in Seq(Token) : After(g, R) => After(g, R)'
<1>1. \A R \in Seq(Token) : Coming(g, R, 0) => Coming(g, R, 0)'
  BY DEF StillComing
<1>2. ASSUME Rest(g) PROVE Rest(g)'
  <2>1. PICK L : Left(L) /\ Coming(g, L, 0)
    BY <1>2 DEF Rest
  <2>2. L \in Seq(Token) /\ Left(L)'
    BY <2>1 DEF Left
  <2>3. Coming(g, L, 0)'
    BY <1>1, <2>1, <2>2
  <2> QED BY <2>2, <2>3 DEF Rest
<1>3. ASSUME NEW R \in Seq(Token), After(g, R) PROVE After(g, R)'
  <2>1. PICK L : Left(L) /\ Coming(g, L \o R, 0)
    BY <1>3 DEF After
  <2>2. L \in Seq(Token) /\ Left(L)'
    BY <2>1 DEF Left
  <2>3. PICK S \in Seq(Token) : S = L \o R
    BY <2>2, Joined
  <2>4. Coming(g, S, 0)'
    BY <1>1, <2>1, <2>3
  <2> QED BY <2>2, <2>3, <2>4 DEF After
<1> QED BY <1>2, <1>3
LEMMA CarriesSame ==
    ASSUME HttpInv, NEW q \in Task, NEW g \in Fd, Holds(q, g), task'[q] = task[q], StillComing(g)
    PROVE  CarriesOf(q, g)'
<1>1. CarriesOf(q, g)
  BY DEF HttpInv, Carries
<1>2. /\ handler'[g] = "connecting" <=> handler[g] = "connecting"
      /\ tls'[g] = tls[g] /\ inbox'[g] = inbox[g]
      /\ g \in Range(served[q]) => g \in Range(served'[q])
  BY DEF StillComing
<1>3. (Asked(g, Hello) => Asked(g, Hello)') /\ (Wanted(g, q) => Wanted(g, q)')
  <2>1. Hello \in Nat
    BY DEF Hello
  <2> QED BY <1>2, <2>1, StillRest DEF StillComing, Wanted
<1>4. ASSUME NEW R \in Seq(Token), NEW c \in Nat, Coming(g, R, c) PROVE Coming(g, R, c)'
  BY <1>4 DEF StillComing
<1>5. (\A R \in Nonsense : R \in Seq(Token)) /\ \A R \in Records : R \in Seq(Token)
  BY Tokens
<1>6. (\E R \in Records : Coming(g, R, 0)) => (\E R \in Records : Coming(g, R, 0))'
  BY <1>4, <1>5
<1>7. (\E R \in Nonsense : After(g, R)) => (\E R \in Nonsense : After(g, R))'
  <2>1. \A R \in Nonsense : After(g, R) => After(g, R)'
    BY <1>5, StillRest
  <2> QED BY <2>1 DEF Nonsense, WrongHead
<1>8. Taken(task[q]) \in Nat
  BY DEF HttpInv, HttpTypes, Request, Taken
<1>9. Answering(q, g) => Answering(q, g)'
  <2> SUFFICES ASSUME Answering(q, g) PROVE Answering(q, g)'
    OBVIOUS
  <2>0. PICK s \in Shape : \E R \in AnswersTo(task[q].kind, q, g, s) :
           /\ IF task[q].pc = "head" THEN After(g, R) ELSE Coming(g, R, Taken(task[q]))
           /\ HasRead(task[q], R, s) /\ g \in Range(served[q])
    BY DEF Answering
  <2>1. PICK R \in AnswersTo(task[q].kind, q, g, s) :
           /\ IF task[q].pc = "head" THEN After(g, R) ELSE Coming(g, R, Taken(task[q]))
           /\ HasRead(task[q], R, s) /\ g \in Range(served[q])
    BY <2>0
  <2>2. PICK c \in Nat : c = Taken(task[q])
    BY <1>8
  <2>3. PICK kind : kind = task[q].kind
    OBVIOUS
  <2>4. R \in AnswersTo(kind, q, g, s)
    BY <2>1, <2>3
  <2>5. R \in Seq(Token)
    BY <2>4, ResponseIs
  <2>6. IF task'[q].pc = "head" THEN After(g, R)' ELSE Coming(g, R, c)'
    BY <1>4, <2>1, <2>2, <2>5, StillRest
  <2>7. R \in AnswersTo(task[q].kind, q, g, s)'
    BY <2>3, <2>4 DEF AnswersTo, Response
  <2>8. c = Taken(task'[q])
    BY <2>2
  <2>9. IF task'[q].pc = "head" THEN After(g, R)' ELSE Coming(g, R, Taken(task[q]))'
    BY <2>6, <2>8
  <2>10. HasRead(task[q], R, s)' /\ (g \in Range(served[q]))'
    BY <1>2, <2>1
  <2> QED BY <2>7, <2>9, <2>10 DEF Answering
<1> QED BY <1>1, <1>2, <1>3, <1>6, <1>7, <1>9 DEF CarriesOf
LEMMA PoolSame ==
    ASSUME HttpInv, NEW g \in Fd, InPool(g), StillComing(g)
    PROVE  PoolOf(g)'
<1>1. PoolOf(g)
  BY DEF HttpInv, Carries
<1>2. Carried(g, Task) => Carried(g, Task)'
  BY DEF Carried, StillComing
<1> QED BY <1>1, <1>2, StillRest DEF PoolOf, StillComing
LEMMA NetKeeps ==
    ASSUME HttpInv, NEW fd \in Fd, NetMoves(fd), SocketOf(fd)', EndsLast(fd)', Sent',
           \A q \in Task : Holds(q, fd) => CarriesOf(q, fd)', InPool(fd) => PoolOf(fd)'
    PROVE  HttpInv'
<1>1. /\ \A g : InPool(g)' <=> InPool(g)
      /\ \A q, g : Holds(q, g)' <=> Holds(q, g)
      /\ \A g : Held(g)' <=> Held(g)
  BY NetSame
<1>2. /\ handler' = handler /\ buf' = buf /\ rclosed' = rclosed /\ tls' = tls
      /\ task' = task /\ pool' = pool /\ cleanup' = cleanup
  BY DEF NetMoves
<1>3. HttpTypes'
  BY <1>2 DEF NetMoves, HttpInv, HttpTypes
<1>4. Alone'
  BY <1>1 DEF HttpInv, Alone
<1>5. PoolOnce'
  BY <1>2 DEF HttpInv, PoolOnce
<1>6. Owned'
  <2>1. \A g \in Fd : sock'[g] \in {"opening", "open"} => sock[g] \in {"opening", "open"}
    BY DEF NetMoves
  <2> QED BY <1>1, <1>2, <2>1 DEF HttpInv, Owned
<1>7. Answers'
  BY <1>2 DEF HttpInv, Answers, AnswerOf
<1>8. ASSUME NEW g \in Fd \ {fd} PROVE SocketOf(g)' /\ EndsLast(g)'
  <2>1. SocketOf(g)
    BY DEF HttpInv, Sockets
  <2>2. EndsLast(g)' /\ (SilentIn(mail, g) => SilentIn(mail', g))
    BY OtherComing
  <2>3. sock'[g] = sock[g] /\ wire'[g] = wire[g] /\ inbox'[g] = inbox[g]
        /\ \A q \in Task : g \in Range(served'[q]) <=> g \in Range(served[q])
    BY DEF NetMoves
  <2>4. (Calm(g) => Calm(g)') /\ (NotServed(g) => NotServed(g)')
    BY <1>2, <2>2, <2>3 DEF Calm, NotServed
  <2> QED BY <1>1, <1>2, <2>1, <2>2, <2>3, <2>4 DEF SocketOf
<1>9. Sockets'
  BY <1>8 DEF Sockets
<1>10. ASSUME NEW g \in Fd \ {fd} PROVE StillComing(g)
  <2>1. wire'[g] = wire[g] /\ inbox'[g] = inbox[g]
        /\ \A q \in Task : g \in Range(served[q]) => g \in Range(served'[q])
    BY DEF NetMoves
  <2>2. SilentIn(mail, g) => SilentIn(mail', g)
    BY OtherComing
  <2>3. \A R \in Seq(Token), c \in Nat : Coming(g, R, c) => Coming(g, R, c)'
    BY OtherComing
  <2>4. (Calm(g) => Calm(g)') /\ \A x : Asked(g, x) => Asked(g, x)'
    BY <1>2, <2>1, <2>2 DEF Calm, Asked
  <2> QED BY <1>2, <2>1, <2>3, <2>4 DEF StillComing
<1>11. /\ \A q \in Task, g \in Fd \ {fd} : Holds(q, g) => CarriesOf(q, g)'
       /\ \A g \in Fd \ {fd} : InPool(g) => PoolOf(g)'
  BY <1>2, <1>10, CarriesSame, PoolSame
<1>12. Carries'
  BY <1>1, <1>11 DEF Carries
<1> QED BY <1>3, <1>4, <1>5, <1>6, <1>7, <1>9, <1>12 DEF HttpInv
\* Requests that were on their way still are, or the peer has dropped them.
LEMMA SentDrops ==
    ASSUME HttpInv, UNCHANGED <<task, served>>, \A q \in Task, g \in Fd : Waits(q, g)' => Waits(q, g)
    PROVE  Sent'
<1> SUFFICES ASSUME NEW q \in Task PROVE SentOf(q)'
  BY DEF Sent
<1>1. SentOf(q)
  BY DEF HttpInv, Sent
<1>2. \A g \in Fd : On(q, g)' => On(q, g)
  BY DEF On
<1>3. \A g, T : Carried(g, T)' <=> Carried(g, T)
  BY DEF Carried
<1>4. task[q].pc \in {"connecting", "handshake"} => task[q].fd \in Fd
  BY DEF HttpInv, HttpTypes, Active
<1> QED BY <1>1, <1>2, <1>3, <1>4 DEF SentOf
\* The socket layer tells that fd is connected, refused, closed or broken.
LEMMA PostsKeeps ==
    ASSUME HttpInv, NEW fd \in Fd, sock[fd] \in {"opening", "open"}, NEW x \in Message, x.fd = fd,
           x.type # "DATA", mail' = Append(mail, x), NEW st \in {"open", "shut"},
           sock' = [sock EXCEPT ![fd] = st], x.type # "CONNECT" => st = "shut",
           UNCHANGED <<handler, buf, rclosed, tls, wire, eof, inbox, task, pool, cleanup, served>>
    PROVE  HttpInv'
<1>1. HttpTypes
  BY DEF HttpInv
<1>2. /\ Append(mail, x) \in Seq(Message) /\ sock' \in [Fd -> {"none", "opening", "open", "shut", "gone"}]
      /\ sock'[fd] = st /\ \A g \in Fd \ {fd} : sock'[g] = sock[g]
  BY <1>1 DEF HttpTypes, NetTypes
<1>3. NetMoves(fd)
  <2>1. NetTypes'
    BY <1>1, <1>2 DEF HttpTypes, NetTypes
  <2>2. served' \in [Task -> Seq(Fd)]
    BY <1>1 DEF HttpTypes
  <2> QED BY <1>2, <2>1, <2>2 DEF NetMoves
<1>4. ~IsData(x, fd)
  BY DEF IsData
<1>5. /\ DOMAIN mail' = 1 .. Len(mail) + 1 /\ mail'[Len(mail) + 1] = x
      /\ \A i \in DOMAIN mail : i \in DOMAIN mail' /\ mail'[i] = mail[i]
      /\ \A i \in DOMAIN mail' : i \in DOMAIN mail \/ i = Len(mail) + 1
      /\ \A i \in DOMAIN mail : ~(Len(mail) + 1 <= i)
  BY <1>1, MailGrows DEF HttpTypes, NetTypes
<1>6. SilentIn(mail, fd) => SilentIn(mail', fd)
  BY <1>4, <1>5 DEF SilentIn
<1>7. StillComing(fd)
  <2>1. ASSUME NEW R \in Seq(Token), NEW c \in Nat, Coming(fd, R, c) PROVE Coming(fd, R, c)'
    <3>1. mail \in Seq(Message) /\ buf[fd] \in Seq(Token) /\ wire[fd] \in Seq(Token)
      BY <1>1 DEF HttpTypes, NetTypes
    <3>2. Flow(fd, R, c, buf[fd], Append(mail, x), wire[fd])
      BY <1>4, <2>1, <3>1, FlowPosts DEF Coming
    <3> QED BY <3>2 DEF Coming
  <2>2. (Calm(fd) => Calm(fd)') /\ \A y : Asked(fd, y) => Asked(fd, y)'
    BY <1>6 DEF Calm, Asked
  <2> QED BY <2>1, <2>2 DEF StillComing
<1>8. SocketOf(fd)'
  <2>1. SocketOf(fd)
    BY DEF HttpInv, Sockets
  <2>2. Calm(fd) => Calm(fd)'
    BY <1>6 DEF Calm
  <2>3. Held(fd)' <=> Held(fd)
    BY <1>3, NetSame
  <2>4. ~rclosed[fd] /\ sock[fd] # "gone"
    BY <2>1 DEF SocketOf
  <2> QED BY <1>2, <1>6, <2>1, <2>2, <2>3, <2>4 DEF SocketOf
<1>9. EndsLast(fd)'
  <2>1. \A i \in DOMAIN mail : ~IsEnd(mail[i], fd)
    BY DEF HttpInv, Sockets, EndsLast
  <2>2. \A i \in DOMAIN mail' : IsEnd(mail'[i], fd) =>
           sock'[fd] \in {"shut", "gone"} /\ \A j \in DOMAIN mail' : i <= j => ~IsData(mail'[j], fd)
    BY <1>2, <1>4, <1>5, <2>1 DEF IsEnd
  <2> QED BY <2>2 DEF EndsLast
<1>10. Sent'
  <2>1. \A q \in Task, g \in Fd : Waits(q, g)' => Waits(q, g)
    BY DEF Waits
  <2> QED BY <2>1, SentDrops
<1>11. \A q \in Task : Holds(q, fd) => CarriesOf(q, fd)'
  <2> SUFFICES ASSUME NEW q \in Task, Holds(q, fd) PROVE CarriesOf(q, fd)'
    OBVIOUS
  <2>1. task'[q] = task[q]
    OBVIOUS
  <2> QED BY <1>7, <2>1, CarriesSame
<1>12. InPool(fd) => PoolOf(fd)'
  BY <1>7, PoolSame
<1> QED BY <1>3, <1>8, <1>9, <1>10, <1>11, <1>12, NetKeeps
LEMMA EventTypes ==
    ASSUME NEW fd \in Fd, NEW data \in Seq(Token)
    PROVE  \A type \in {"CONNECT", "DATA", "CLOSE", "ERROR"} :
              [type |-> type, fd |-> fd, data |-> data] \in Message
BY DEF Message
LEMMA EstablishedKeeps ==
    ASSUME HttpInv, NEW fd \in Fd, Established(fd), UNCHANGED <<clientVars, served>>
    PROVE  HttpInv'
<1> DEFINE none == <<>>
<1>1. none \in Seq(Token)
  OBVIOUS
<1>2. mail' = Append(mail, [type |-> "CONNECT", fd |-> fd, data |-> none])
  BY DEF Established, Post
<1> HIDE DEF none
<1>3. PICK x \in Message : x = [type |-> "CONNECT", fd |-> fd, data |-> none]
  BY <1>1, EventTypes
<1>4. mail' = Append(mail, x) /\ x.fd = fd /\ x.type = "CONNECT"
  BY <1>2, <1>3
<1>5. PICK st \in {"open", "shut"} : st = "open"
  OBVIOUS
<1>6. sock[fd] = "opening" /\ sock' = [sock EXCEPT ![fd] = st]
      /\ UNCHANGED <<handler, buf, rclosed, tls, wire, eof, inbox, task, pool, cleanup, served>>
  BY <1>5 DEF Established, clientVars
<1> QED BY <1>4, <1>6, PostsKeeps
LEMMA ShutKeeps ==
    ASSUME HttpInv, NEW fd \in Fd, Refused(fd) \/ PeerGone(fd) \/ Reset(fd), UNCHANGED <<clientVars, served>>
    PROVE  HttpInv'
<1> DEFINE none == <<>>
<1>1. none \in Seq(Token)
  OBVIOUS
<1>2. \/ mail' = Append(mail, [type |-> "ERROR", fd |-> fd, data |-> none])
      \/ mail' = Append(mail, [type |-> "CLOSE", fd |-> fd, data |-> none])
  BY DEF Refused, PeerGone, Reset, Post
<1> HIDE DEF none
<1>3. PICK type \in {"ERROR", "CLOSE"} : mail' = Append(mail, [type |-> type, fd |-> fd, data |-> none])
  BY <1>2
<1>4. PICK x \in Message : x = [type |-> type, fd |-> fd, data |-> none]
  BY <1>1, EventTypes
<1>5. mail' = Append(mail, x) /\ x.fd = fd /\ x.type \notin {"CONNECT", "DATA"}
  BY <1>3, <1>4
<1>6. PICK st \in {"open", "shut"} : st = "shut"
  OBVIOUS
<1>7. sock[fd] \in {"opening", "open"} /\ sock' = [sock EXCEPT ![fd] = st]
      /\ UNCHANGED <<handler, buf, rclosed, tls, wire, eof, inbox, task, pool, cleanup, served>>
  BY <1>6 DEF Refused, PeerGone, Reset, clientVars
<1> QED BY <1>5, <1>6, <1>7, PostsKeeps
LEMMA DeliverKeeps ==
    ASSUME HttpInv, NEW fd \in Fd, Deliver(fd), UNCHANGED <<clientVars, served>>
    PROVE  HttpInv'
<1> DEFINE w == wire[fd]
<1>1. PICK k \in 1 .. Len(w) :
          /\ mail' = Append(mail, [type |-> "DATA", fd |-> fd, data |-> SubSeq(w, 1, k)])
          /\ wire' = [wire EXCEPT ![fd] = SubSeq(w, k + 1, Len(w))]
  BY DEF Deliver, Post
<1>2. /\ sock[fd] = "open" /\ w # <<>>
      /\ UNCHANGED <<sock, handler, buf, rclosed, tls, eof, inbox, task, pool, cleanup, served>>
  BY DEF Deliver, clientVars, socketVars
<1>3. HttpTypes
  BY DEF HttpInv
<1>4. w \in Seq(Token) /\ wire \in [Fd -> Seq(Token)] /\ buf[fd] \in Seq(Token) /\ mail \in Seq(Message)
  BY <1>3 DEF HttpTypes, NetTypes
<1> DEFINE d == SubSeq(w, 1, k)
           w2 == SubSeq(w, k + 1, Len(w))
<1>5. d \in Seq(Token) /\ w2 \in Seq(Token)
  <2>1. k \in Nat /\ Len(w) \in Nat /\ k <= Len(w) /\ 1 <= k
    BY <1>4
  <2> HIDE DEF w
  <2>2. SubSeq(w, 1, k) \in Seq(Token)
    BY <1>4, <2>1
  <2>3. SubSeq(w, k + 1, Len(w)) \in Seq(Token)
    BY <1>4, <2>1
  <2> QED BY <2>2, <2>3
<1>6. mail' = Append(mail, [type |-> "DATA", fd |-> fd, data |-> d]) /\ wire' = [wire EXCEPT ![fd] = w2]
  BY <1>1
<1>7. ASSUME NEW R \in Seq(Token), NEW c \in Nat, NEW x \in Message, IsData(x, fd), x.data = d,
             Flow(fd, R, c, buf[fd], mail, w)
      PROVE  Flow(fd, R, c, buf[fd], Append(mail, x), w2)
  <2> HIDE DEF w
  <2> QED BY <1>4, <1>7, FlowDelivers
<1> HIDE DEF d, w2
<1>8. PICK x \in Message : x = [type |-> "DATA", fd |-> fd, data |-> d]
  BY <1>5, EventTypes
<1>9. mail' = Append(mail, x) /\ x.fd = fd /\ IsData(x, fd) /\ ~IsEnd(x, fd) /\ x.data = d
  BY <1>6, <1>8 DEF IsData, IsEnd
<1>10. /\ Append(mail, x) \in Seq(Message) /\ wire' \in [Fd -> Seq(Token)]
       /\ wire'[fd] = w2 /\ \A g \in Fd \ {fd} : wire'[g] = wire[g]
  BY <1>4, <1>5, <1>6
<1>11. NetMoves(fd)
  <2>1. NetTypes'
    BY <1>2, <1>3, <1>9, <1>10 DEF HttpTypes, NetTypes
  <2>2. served' \in [Task -> Seq(Fd)]
    BY <1>2, <1>3 DEF HttpTypes
  <2> QED BY <1>2, <1>9, <1>10, <2>1, <2>2 DEF NetMoves
<1>12. ~Calm(fd) /\ \A y : ~Asked(fd, y)
  BY <1>2 DEF Calm, Asked
<1>13. StillComing(fd)
  <2>1. ASSUME NEW R \in Seq(Token), NEW c \in Nat, Coming(fd, R, c) PROVE Coming(fd, R, c)'
    <3>1. Flow(fd, R, c, buf[fd], Append(mail, x), w2)
      BY <1>7, <1>9, <2>1 DEF Coming
    <3> QED BY <1>2, <1>9, <1>10, <3>1 DEF Coming
  <2> QED BY <1>2, <1>12, <2>1 DEF StillComing
<1>14. SocketOf(fd)'
  <2>1. SocketOf(fd) /\ (Held(fd)' <=> Held(fd))
    BY <1>11, NetSame DEF HttpInv, Sockets
  <2> QED BY <1>2, <1>12, <2>1 DEF SocketOf
<1>15. EndsLast(fd)'
  <2>1. \A i \in DOMAIN mail : ~IsEnd(mail[i], fd)
    BY <1>2 DEF HttpInv, Sockets, EndsLast
  <2>2. /\ \A i \in DOMAIN mail : mail'[i] = mail[i]
        /\ \A i \in DOMAIN mail' : i \in DOMAIN mail \/ mail'[i] = x
    BY <1>4, <1>9, MailGrows
  <2> QED BY <1>9, <2>1, <2>2 DEF EndsLast
<1>16. Sent'
  <2>1. \A q \in Task, g \in Fd : Waits(q, g)' => Waits(q, g)
    BY <1>2 DEF Waits
  <2> QED BY <1>2, <2>1, SentDrops
<1>17. \A q \in Task : Holds(q, fd) => CarriesOf(q, fd)'
  BY <1>2, <1>13, CarriesSame
<1>18. InPool(fd) => PoolOf(fd)'
  BY <1>13, PoolSame
<1> QED BY <1>11, <1>14, <1>15, <1>16, <1>17, <1>18, NetKeeps
LEMMA ServerClosesKeeps ==
    ASSUME HttpInv, NEW fd \in Fd, ServerCloses(fd)
    PROVE  HttpInv'
<1> DEFINE w == wire[fd]
<1>1. PICK k \in 0 .. Len(w) : wire' = [wire EXCEPT ![fd] = SubSeq(w, 1, k)]
  BY DEF ServerCloses
<1>2. /\ eof' = [eof EXCEPT ![fd] = TRUE]
      /\ UNCHANGED <<sock, handler, buf, rclosed, tls, mail, inbox, task, pool, cleanup, served>>
  BY DEF ServerCloses, clientVars, socketVars
<1>3. HttpTypes
  BY DEF HttpInv
<1>4. w \in Seq(Token) /\ wire \in [Fd -> Seq(Token)] /\ buf[fd] \in Seq(Token) /\ mail \in Seq(Message)
      /\ eof' \in [Fd -> BOOLEAN]
  BY <1>2, <1>3 DEF HttpTypes, NetTypes
<1> DEFINE w2 == SubSeq(w, 1, k)
<1>5. w2 \in Seq(Token) /\ (w = <<>> => w2 = <<>>)
  <2>1. k \in Nat /\ Len(w) \in Nat /\ k <= Len(w)
    BY <1>4
  <2> HIDE DEF w
  <2>2. w2 \in Seq(Token) /\ Len(w2) = k
    BY <1>4, <2>1
  <2>3. w = <<>> => k = 0
    BY <2>1
  <2> HIDE DEF w2
  <2> QED BY <2>2, <2>3
<1>6. wire' = [wire EXCEPT ![fd] = w2]
  BY <1>1
<1>7. ASSUME NEW R \in Seq(Token), NEW c \in Nat, Flow(fd, R, c, buf[fd], mail, w)
      PROVE  Flow(fd, R, c, buf[fd], mail, w2)
  <2> HIDE DEF w
  <2> QED BY <1>4, <1>7, FlowCut
<1> HIDE DEF w2
<1>8. wire' \in [Fd -> Seq(Token)] /\ wire'[fd] = w2 /\ \A g \in Fd \ {fd} : wire'[g] = wire[g]
  BY <1>4, <1>5, <1>6
<1>9. NetMoves(fd)
  <2>1. NetTypes'
    BY <1>2, <1>3, <1>4, <1>8 DEF HttpTypes, NetTypes
  <2>2. served' \in [Task -> Seq(Fd)]
    BY <1>2, <1>3 DEF HttpTypes
  <2> QED BY <1>2, <1>8, <2>1, <2>2 DEF NetMoves
<1>10. (Calm(fd) => Calm(fd)') /\ \A y : Asked(fd, y) => Asked(fd, y)'
  BY <1>2, <1>5, <1>8 DEF Calm, Asked
<1>11. StillComing(fd)
  <2>1. ASSUME NEW R \in Seq(Token), NEW c \in Nat, Coming(fd, R, c) PROVE Coming(fd, R, c)'
    <3>1. Flow(fd, R, c, buf[fd], mail, w2)
      BY <1>7, <2>1 DEF Coming
    <3> QED BY <1>2, <1>8, <3>1 DEF Coming
  <2> QED BY <1>2, <1>10, <2>1 DEF StillComing
<1>12. SocketOf(fd)'
  <2>1. SocketOf(fd) /\ (Held(fd)' <=> Held(fd)) /\ (NotServed(fd) => NotServed(fd)')
    BY <1>2, <1>9, NetSame DEF HttpInv, Sockets, NotServed
  <2> QED BY <1>2, <1>10, <2>1 DEF SocketOf
<1>13. EndsLast(fd)'
  BY <1>2 DEF EndsLast, HttpInv, Sockets
<1>14. Sent'
  <2>1. \A q \in Task, g \in Fd : Waits(q, g)' => Waits(q, g)
    BY <1>2 DEF Waits
  <2> QED BY <1>2, <2>1, SentDrops
<1>15. \A q \in Task : Holds(q, fd) => CarriesOf(q, fd)'
  BY <1>2, <1>11, CarriesSame
<1>16. InPool(fd) => PoolOf(fd)'
  BY <1>11, PoolSame
<1> QED BY <1>9, <1>12, <1>13, <1>14, <1>15, <1>16, NetKeeps
LEMMA Single ==
    ASSUME NEW T, NEW m \in Seq(T), m # <<>>, Len(m) <= 1
    PROVE  Len(m) = 1 /\ Tail(m) = <<>> /\ Head(m) = m[1] /\ DOMAIN m = {1} /\ m[1] \in T
<1>1. Len(m) \in Nat /\ Len(m) # 0 /\ DOMAIN m = 1 .. Len(m)
  OBVIOUS
<1>2. Len(m) = 1
  BY <1>1
<1>3. Tail(m) \in Seq(T) /\ Len(Tail(m)) = 0
  BY <1>2
<1>4. Tail(m) = <<>>
  BY <1>3
<1>5. DOMAIN m = {1}
  BY <1>1, <1>2
<1> QED BY <1>2, <1>4, <1>5
\* The server has a request: whose it is, and that nothing else is on its way.
LEMMA WhoAsked ==
    ASSUME HttpInv, NEW fd \in Fd, inbox[fd] # <<>>
    PROVE  /\ ~Calm(fd) /\ ~InPool(fd) /\ sock[fd] # "none" /\ handler[fd] # "connecting"
           /\ inbox[fd] \in Seq(0 .. MaxTask) /\ Len(inbox[fd]) = 1
           /\ \A q \in Task : Holds(q, fd) =>
                 \/ task[q].pc = "handshake" /\ Head(inbox[fd]) = Hello /\ Asked(fd, Hello)
                 \/ task[q].pc = "head" /\ Head(inbox[fd]) = q /\ Wanted(fd, q)
           /\ sock[fd] = "open" \/ tls[fd] = "shaking" => Held(fd)
<1>1. ~Calm(fd)
  BY DEF Calm
<1>2. SocketOf(fd)
  BY DEF HttpInv, Sockets
<1>3. sock[fd] # "none" /\ handler[fd] # "connecting" /\ (tls[fd] = "shaking" => Held(fd))
  BY <1>1, <1>2 DEF SocketOf
<1>4. ~InPool(fd)
  BY <1>1 DEF HttpInv, Carries, PoolOf
<1>5. inbox[fd] \in Seq(0 .. MaxTask) /\ Len(inbox[fd]) <= 1
  BY <1>2 DEF SocketOf, HttpInv, HttpTypes, NetTypes
<1>6. Len(inbox[fd]) = 1
  <2>1. inbox[fd] \in Seq(0 .. MaxTask) /\ inbox[fd] # <<>> /\ Len(inbox[fd]) <= 1
    BY <1>5
  <2> QED BY <2>1, Single
<1>7. sock[fd] = "open" => Held(fd)
  BY <1>3 DEF HttpInv, Owned
<1>8. ASSUME NEW q \in Task, Holds(q, fd)
      PROVE  \/ task[q].pc = "handshake" /\ Asked(fd, Hello)
             \/ task[q].pc = "head" /\ Wanted(fd, q)
  <2>1. CarriesOf(q, fd) /\ task[q].pc \in Active
    BY <1>8 DEF HttpInv, Carries, Holds
  <2>2. task[q].pc # "connecting" /\ task[q].pc \notin {"body", "stream"}
    BY <1>3, <2>1 DEF CarriesOf
  <2> QED BY <2>1, <2>2 DEF CarriesOf, Active
<1>9. \A x : Asked(fd, x) \/ Wanted(fd, x) => Head(inbox[fd]) = x
  BY DEF Asked, Wanted
<1> QED BY <1>1, <1>3, <1>4, <1>5, <1>6, <1>7, <1>8, <1>9
LEMMA AnswersKeeps ==
    ASSUME HttpInv, NEW fd \in Fd, inbox[fd] # <<>>, NEW v \in Seq(Token),
           wire' = [wire EXCEPT ![fd] = wire[fd] \o v], NEW e \in BOOLEAN, eof' = [eof EXCEPT ![fd] = e],
           inbox' = [inbox EXCEPT ![fd] = <<>>], UNCHANGED <<socketVars, mail, clientVars>>,
           served' \in [Task -> Seq(Fd)], \A q \in Task : Range(served[q]) \subseteq Range(served'[q]),
           \A q \in Task, g \in Fd \ {fd} : g \in Range(served'[q]) <=> g \in Range(served[q]),
           \A q \in Task : Holds(q, fd) /\ task[q].pc = "handshake" => \E R \in Records : Begins(v, R),
           \A q \in Task : Holds(q, fd) /\ task[q].pc = "head" =>
               \/ \E R \in Nonsense : Begins(v, R)
               \/ /\ fd \in Range(served'[q])
                  /\ \E s \in Shape : \E R \in AnswersTo(task[q].kind, q, fd, s) : Begins(v, R),
           Sent'
    PROVE  HttpInv'
<1> DEFINE none == <<>>
<1>1. HttpTypes
  BY DEF HttpInv
<1>2. UNCHANGED <<sock, handler, buf, rclosed, tls, mail, task, pool, cleanup>>
  BY DEF socketVars, clientVars
<1>3. none \in Seq(0 .. MaxTask) /\ inbox' = [inbox EXCEPT ![fd] = none] /\ Len(none) = 0
  OBVIOUS
<1>4. /\ ~Calm(fd) /\ ~InPool(fd) /\ sock[fd] # "none" /\ handler[fd] # "connecting"
      /\ \A q \in Task : Holds(q, fd) =>
            \/ task[q].pc = "handshake" /\ Asked(fd, Hello)
            \/ task[q].pc = "head" /\ Wanted(fd, q)
      /\ tls[fd] = "shaking" => Held(fd)
  BY WhoAsked
<1>5. none = <<>>
  OBVIOUS
<1> HIDE DEF none
<1> DEFINE w == wire[fd] \o v
<1>a. w \in Seq(Token) /\ wire' = [wire EXCEPT ![fd] = w]
  BY <1>1 DEF HttpTypes, NetTypes
<1> HIDE DEF w
<1>6. /\ wire' \in [Fd -> Seq(Token)] /\ wire'[fd] = w /\ eof' \in [Fd -> BOOLEAN]
      /\ inbox' \in [Fd -> Seq(0 .. MaxTask)] /\ inbox'[fd] = none
      /\ \A g \in Fd \ {fd} : wire'[g] = wire[g] /\ inbox'[g] = inbox[g]
  BY <1>1, <1>3, <1>a DEF HttpTypes, NetTypes
<1>7. NetMoves(fd)
  <2>1. NetTypes'
    BY <1>1, <1>2, <1>6 DEF HttpTypes, NetTypes
  <2> QED BY <1>2, <1>6, <2>1 DEF NetMoves
<1>8. SocketOf(fd)'
  <2>1. SocketOf(fd) /\ (Held(fd)' <=> Held(fd))
    BY <1>7, NetSame DEF HttpInv, Sockets
  <2> QED BY <1>2, <1>3, <1>4, <1>6, <2>1 DEF SocketOf
<1>9. EndsLast(fd)'
  BY <1>2 DEF EndsLast, HttpInv, Sockets
<1>10. ASSUME NEW R \in Seq(Token), NEW x, Asked(fd, x), Begins(v, R) PROVE Coming(fd, R, 0)'
  <2>1. buf[fd] = <<>> /\ wire[fd] = <<>> /\ SilentIn(mail, fd) /\ mail \in Seq(Message)
    BY <1>1, <1>10 DEF Asked, HttpTypes, NetTypes
  <2>2. Flow(fd, R, 0, <<>>, mail, v)
    BY <1>10, <2>1, FlowStarts DEF Begins
  <2>3. w = v
    BY <2>1 DEF w
  <2> QED BY <1>2, <1>6, <2>1, <2>2, <2>3 DEF Coming
<1>11. (\A R \in Nonsense : R \in Seq(Token)) /\ \A R \in Records : R \in Seq(Token)
  BY Tokens
<1>13. ASSUME NEW R \in Seq(Token), Rest(fd), Begins(v, R) PROVE After(fd, R)'
  <2>1. NetTypes /\ buf'[fd] = buf[fd] /\ mail' = mail /\ wire'[fd] = wire[fd] \o v
    BY <1>1, <1>2, <1>6 DEF HttpTypes, w
  <2> QED BY <1>13, <2>1, RestThen
<1>12. ASSUME NEW q \in Task, Holds(q, fd) PROVE CarriesOf(q, fd)'
  <2>1. CarriesOf(q, fd)
    BY <1>12 DEF HttpInv, Carries
  <2>2. inbox'[fd] = <<>>
    BY <1>5, <1>6
  <2>3. CASE task[q].pc = "handshake"
    <3>1. PICK R \in Records : Begins(v, R)
      BY <1>12, <2>3
    <3>2. Coming(fd, R, 0)'
      BY <1>4, <1>10, <1>11, <1>12, <2>3, <3>1
    <3> QED BY <1>2, <2>1, <2>2, <2>3, <3>2 DEF CarriesOf
  <2>4. CASE task[q].pc = "head"
    <3>1. Rest(fd)
      BY <1>4, <1>12, <2>4 DEF Wanted
    <3>2. CASE \E R \in Nonsense : Begins(v, R)
      <4>1. PICK R \in Nonsense : Begins(v, R)
        BY <3>2
      <4>2. After(fd, R)'
        BY <1>11, <1>13, <3>1, <4>1
      <4>3. \E R2 \in Nonsense' : After(fd, R2)'
        BY <4>2 DEF Nonsense, WrongHead
      <4> QED BY <1>2, <2>1, <2>2, <2>4, <4>3 DEF CarriesOf
    <3>3. CASE ~\E R \in Nonsense : Begins(v, R)
      <4>0. PICK kind : kind = task[q].kind
        OBVIOUS
      <4>1. fd \in Range(served'[q]) /\ \E s \in Shape : \E R \in AnswersTo(kind, q, fd, s) : Begins(v, R)
        BY <1>12, <2>4, <3>3, <4>0
      <4>2. PICK s \in Shape : \E R \in AnswersTo(kind, q, fd, s) : Begins(v, R)
        BY <4>1
      <4>3. PICK R \in AnswersTo(kind, q, fd, s) : Begins(v, R)
        BY <4>2
      <4>4. After(fd, R)'
        BY <1>13, <3>1, <4>3, ResponseIs
      <4>5. HasRead(task[q], R, s)' /\ R \in AnswersTo(task[q].kind, q, fd, s)' /\ (task[q].pc = "head")'
        BY <1>2, <2>4, <4>0 DEF HasRead, AnswersTo, Response
      <4>6. Answering(q, fd)'
        BY <4>1, <4>4, <4>5 DEF Answering
      <4> QED BY <1>2, <2>1, <2>2, <2>4, <4>6 DEF CarriesOf
    <3> QED BY <3>2, <3>3
  <2> QED BY <1>4, <1>12, <2>3, <2>4
<1> QED BY <1>4, <1>7, <1>8, <1>9, <1>12, NetKeeps
\* The server has handled what q asked on fd.
LEMMA SentServed ==
    ASSUME HttpInv, NEW fd \in Fd, NEW q \in Task, Waits(q, fd), Len(inbox[fd]) = 1,
           inbox' = [inbox EXCEPT ![fd] = <<>>], served' = [served EXCEPT ![q] = Append(served[q], fd)],
           task' = task
    PROVE  /\ Sent' /\ served' \in [Task -> Seq(Fd)] /\ fd \in Range(served'[q])
           /\ \A p \in Task : Range(served[p]) \subseteq Range(served'[p])
           /\ \A p \in Task, g \in Fd \ {fd} : g \in Range(served'[p]) <=> g \in Range(served[p])
<1> DEFINE old == served[q]
           new == Append(old, fd)
<1>1. /\ served \in [Task -> Seq(Fd)] /\ old \in Seq(Fd) /\ inbox \in [Fd -> Seq(0 .. MaxTask)]
  BY DEF HttpInv, HttpTypes, NetTypes
<1>2. served' = [served EXCEPT ![q] = new]
  OBVIOUS
<1> HIDE DEF old
<1>3. /\ new \in Seq(Fd) /\ Len(old) \in Nat /\ DOMAIN old = 1 .. Len(old) /\ DOMAIN new = 1 .. Len(old) + 1
      /\ new[Len(old) + 1] = fd /\ \A i \in 1 .. Len(old) : new[i] = old[i]
  BY <1>1
<1> HIDE DEF new
<1>4. /\ served' \in [Task -> Seq(Fd)] /\ served'[q] = new
      /\ \A p \in Task \ {q} : served'[p] = served[p]
  BY <1>1, <1>2, <1>3
<1>5. \A i \in DOMAIN new : i \in DOMAIN old \/ i = Len(old) + 1
  BY <1>3
<1>6. \A i \in DOMAIN old : i \in DOMAIN new /\ new[i] = old[i]
  BY <1>3
<1>7. Len(old) + 1 \in DOMAIN new
  BY <1>3
<1>8. Range(new) = Range(old) \cup {fd}
  BY <1>3, <1>5, <1>6, <1>7 DEF Range
<1>9. \A p \in Task, g \in Fd : g \in Range(served'[p]) <=> g \in Range(served[p]) \/ (p = q /\ g = fd)
  BY <1>4, <1>8 DEF old
<1>10. /\ \A p \in Task, g \in Fd \ {fd} : Waits(p, g)' <=> Waits(p, g)
       /\ \A p \in Task : ~Waits(p, fd)' /\ (Waits(p, fd) <=> p = q)
  <2>1. \A g \in Fd \ {fd} : inbox'[g] = inbox[g]
    BY <1>1
  <2>2. inbox'[fd] = <<>>
    BY <1>1
  <2>3. \A p \in Task : ~Waits(p, fd)'
    BY <2>2 DEF Waits, Range
  <2>4. PICK i \in DOMAIN inbox[fd] : inbox[fd][i] = q
    BY DEF Waits, Range
  <2>5. DOMAIN inbox[fd] = {1}
    BY <1>1
  <2>6. \A p \in Task : Waits(p, fd) <=> p = q
    BY <2>4, <2>5 DEF Waits, Range
  <2> QED BY <2>1, <2>3, <2>6 DEF Waits
<1>11. \A p \in Task, g \in Fd : On(p, g)' <=> On(p, g)
  BY <1>9, <1>10 DEF On
<1>12. /\ \A p \in Task : Range(served[p]) \subseteq Range(served'[p])
       /\ \A g, T : T \subseteq Task /\ Carried(g, T) => Carried(g, T)'
  <2>1. \A p \in Task : Range(served[p]) \subseteq Range(served'[p])
    BY <1>4, <1>8 DEF old
  <2> QED BY <2>1 DEF Carried
<1>13. ASSUME NEW p \in Task PROVE SentOf(p)'
  <2>1. SentOf(p)
    BY DEF HttpInv, Sent
  <2>2. \A g \in Fd : ~(g \in Range(served'[p]) /\ Waits(p, g)')
    BY <1>9, <1>10, <2>1 DEF SentOf
  <2>3. \A i, j \in DOMAIN served'[p] : served'[p][i] = served'[p][j] => i = j
    <3>1. CASE p = q
      <4>1. fd \notin Range(old)
        BY <2>1, <3>1 DEF SentOf, old
      <4>2. \A i \in DOMAIN old : old[i] # fd
        BY <4>1 DEF Range
      <4>3. \A i, j \in DOMAIN old : old[i] = old[j] => i = j
        BY <2>1, <3>1 DEF SentOf, old
      <4> QED BY <1>3, <1>4, <1>5, <1>6, <3>1, <4>2, <4>3
    <3>2. CASE p # q
      BY <1>4, <2>1, <3>2 DEF SentOf
    <3> QED BY <3>1, <3>2
  <2>4. task[p].pc \in {"connecting", "handshake"} => task[p].fd \in Fd
    BY DEF HttpInv, HttpTypes, Active
  <2>5. \A g : Carried(g, Task \ {p}) => Carried(g, Task \ {p})'
    BY <1>12
  <2>6. task'[p] = task[p] /\ (task[p].fromPool => Carried(task[p].fd, Task \ {p})')
    BY <2>1, <2>5 DEF SentOf
  <2> QED BY <1>11, <2>1, <2>2, <2>3, <2>4, <2>5, <2>6 DEF SentOf
<1>14. fd \in Range(served'[q]) /\ \A p \in Task, g \in Fd \ {fd} : g \in Range(served'[p]) <=> g \in Range(served[p])
  BY <1>9
<1> QED BY <1>4, <1>12, <1>13, <1>14 DEF Sent
\* What the server sends to an open socket comes, the rest is lost.
Comes(v, R) == v = R \/ v = <<>>
LEMMA ComesBegins ==
    ASSUME NEW R \in Seq(Token), NEW v, Comes(v, R)
    PROVE  v \in Seq(Token) /\ Begins(v, R)
<1>1. CASE v = R
  BY <1>1 DEF Begins
<1>2. CASE v = <<>>
  BY <1>2 DEF Begins
<1> QED BY <1>1, <1>2 DEF Comes
LEMMA SendsSome ==
    ASSUME HttpInv, NEW fd \in Fd, NEW R \in Seq(Token), NEW open,
           wire' = IF open THEN [wire EXCEPT ![fd] = wire[fd] \o R] ELSE wire
    PROVE  \E v : Comes(v, R) /\ wire' = [wire EXCEPT ![fd] = wire[fd] \o v]
<1> DEFINE none == <<>>
<1>1. wire \in [Fd -> Seq(Token)] /\ wire[fd] \in Seq(Token)
  BY DEF HttpInv, HttpTypes, NetTypes
<1>2. CASE open
  BY <1>2 DEF Comes
<1>3. CASE ~open
  <2>1. wire[fd] \o none = wire[fd]
    BY <1>1
  <2>2. wire = [wire EXCEPT ![fd] = wire[fd]]
    BY <1>1
  <2>3. wire' = [wire EXCEPT ![fd] = wire[fd] \o none]
    BY <1>3, <2>1, <2>2
  <2>4. Comes(none, R)
    BY DEF Comes
  <2> QED BY <2>3, <2>4
<1> QED BY <1>2, <1>3
\* Whose request the server takes.
LEMMA OneAsked ==
    ASSUME HttpInv, NEW fd \in Fd, inbox[fd] # <<>>, inbox' = [inbox EXCEPT ![fd] = Tail(inbox[fd])]
    PROVE  /\ Len(inbox[fd]) = 1 /\ inbox' = [inbox EXCEPT ![fd] = <<>>]
           /\ Head(inbox[fd]) \in Range(inbox[fd])
           /\ \A q \in Task : Holds(q, fd) =>
                 \/ task[q].pc = "handshake" /\ Head(inbox[fd]) = Hello
                 \/ task[q].pc = "head" /\ Head(inbox[fd]) = q
           /\ \A p \in Task, g \in Fd : Waits(p, g)' => Waits(p, g)
<1>1. /\ inbox[fd] \in Seq(0 .. MaxTask) /\ Len(inbox[fd]) = 1
      /\ \A q \in Task : Holds(q, fd) =>
            \/ task[q].pc = "handshake" /\ Head(inbox[fd]) = Hello
            \/ task[q].pc = "head" /\ Head(inbox[fd]) = q
  BY WhoAsked
<1>2. Tail(inbox[fd]) = <<>> /\ Head(inbox[fd]) = inbox[fd][1] /\ DOMAIN inbox[fd] = {1}
  <2>1. inbox[fd] \in Seq(0 .. MaxTask) /\ inbox[fd] # <<>> /\ Len(inbox[fd]) <= 1
    BY <1>1
  <2> QED BY <2>1, Single
<1>3. inbox' = [inbox EXCEPT ![fd] = <<>>]
  BY <1>2
<1>4. \A p \in Task, g \in Fd : Waits(p, g)' => Waits(p, g)
  BY <1>3 DEF Waits, HttpInv, HttpTypes, NetTypes, Range
<1>5. Head(inbox[fd]) \in Range(inbox[fd])
  BY <1>2 DEF Range
<1> QED BY <1>1, <1>3, <1>4, <1>5
LEMMA RespondsKeeps ==
    ASSUME HttpInv, NEW fd \in Fd, inbox[fd] # <<>>, NEW q \in Task, q = Head(inbox[fd]),
           inbox' = [inbox EXCEPT ![fd] = Tail(inbox[fd])], UNCHANGED <<socketVars, mail, clientVars>>,
           NEW s \in Shape, NEW R \in AnswersTo(task[q].kind, q, fd, s), NEW v, Comes(v, R),
           wire' = [wire EXCEPT ![fd] = wire[fd] \o v], NEW e \in BOOLEAN, eof' = [eof EXCEPT ![fd] = e],
           served' = [served EXCEPT ![q] = Append(served[q], fd)]
    PROVE  HttpInv'
<1>0. q # Hello
  BY DEF Hello, Task
<1>1. /\ Len(inbox[fd]) = 1 /\ inbox' = [inbox EXCEPT ![fd] = <<>>] /\ Waits(q, fd)
      /\ \A p \in Task : Holds(p, fd) => p = q /\ task[p].pc = "head"
  <2>1. /\ Len(inbox[fd]) = 1 /\ inbox' = [inbox EXCEPT ![fd] = <<>>] /\ q \in Range(inbox[fd])
        /\ \A p \in Task : Holds(p, fd) => \/ task[p].pc = "handshake" /\ q = Hello
                                           \/ task[p].pc = "head" /\ q = p
    BY OneAsked
  <2> QED BY <1>0, <2>1 DEF Waits
<1>2. /\ Sent' /\ served' \in [Task -> Seq(Fd)] /\ fd \in Range(served'[q])
      /\ \A p \in Task : Range(served[p]) \subseteq Range(served'[p])
      /\ \A p \in Task, g \in Fd \ {fd} : g \in Range(served'[p]) <=> g \in Range(served[p])
  <2>1. task' = task
    BY DEF clientVars
  <2> QED BY <1>1, <2>1, SentServed
<1>3. R \in Seq(Token)
  BY ResponseIs
<1>4. v \in Seq(Token) /\ Begins(v, R)
  BY <1>3, ComesBegins
<1>5. \A p \in Task : Holds(p, fd) /\ task[p].pc = "handshake" => \E R2 \in Records : Begins(v, R2)
  BY <1>1
<1>6. \A p \in Task : Holds(p, fd) /\ task[p].pc = "head" =>
         \/ \E R2 \in Nonsense : Begins(v, R2)
         \/ /\ fd \in Range(served'[p])
            /\ \E s2 \in Shape : \E R2 \in AnswersTo(task[p].kind, p, fd, s2) : Begins(v, R2)
  BY <1>1, <1>2, <1>4
<1> QED BY <1>1, <1>2, <1>4, <1>5, <1>6, AnswersKeeps
LEMMA ServeKeeps ==
    ASSUME HttpInv, NEW fd \in Fd, Serve(fd)
    PROVE  HttpInv'
<1>1. /\ inbox[fd] # <<>> /\ inbox' = [inbox EXCEPT ![fd] = Tail(inbox[fd])]
      /\ UNCHANGED <<socketVars, mail, clientVars>>
  BY DEF Serve
<1>2. PICK q : q = Head(inbox[fd])
  OBVIOUS
<1>3. CASE q \in Task
  <2>0. Head(inbox[fd]) = q /\ q # Hello
    BY <1>2, <1>3 DEF Hello, Task
  <2>1. PICK s \in Shape :
           /\ wire' = IF sock[fd] # "open" THEN wire
                      ELSE [wire EXCEPT ![fd] = wire[fd] \o WriteResponse(q, fd, s)]
           /\ eof' = [eof EXCEPT ![fd] = ~s.keep \/ s.mode = "close"]
    BY <2>0 DEF Serve
  <2>2. served' = [served EXCEPT ![q] = Append(served[q], fd)]
    BY <2>0 DEF Serve
  <2>3. PICK R : R = Response(task[q].kind, q, fd, s)
    OBVIOUS
  <2>4. WriteResponse(q, fd, s) = R /\ R \in AnswersTo(task[q].kind, q, fd, s)
    BY <2>3 DEF WriteResponse, Response, AnswersTo
  <2>5. R \in Seq(Token)
    BY <1>3, <2>4, ResponseIs
  <2>6. PICK open \in BOOLEAN : open = (sock[fd] = "open")
    OBVIOUS
  <2>7. wire' = IF open THEN [wire EXCEPT ![fd] = wire[fd] \o R] ELSE wire
    BY <2>1, <2>4, <2>6
  <2>8. PICK v : Comes(v, R) /\ wire' = [wire EXCEPT ![fd] = wire[fd] \o v]
    BY <2>5, <2>7, SendsSome
  <2>9. PICK e \in BOOLEAN : e = (~s.keep \/ s.mode = "close")
    OBVIOUS
  <2>10. eof' = [eof EXCEPT ![fd] = e]
    BY <2>1, <2>9
  <2> QED BY <1>1, <1>3, <2>0, <2>2, <2>4, <2>8, <2>10, RespondsKeeps
<1>4. CASE q = Hello
  <2>0. Head(inbox[fd]) = Hello /\ Head(inbox[fd]) \notin Task
    BY <1>2, <1>4 DEF Hello, Task
  <2>1. PICK R \in Records : wire' = [wire EXCEPT ![fd] = wire[fd] \o R]
    <3> DEFINE t1 == [k |-> "tls"]
               t2 == [k |-> "bad"]
    <3>1. \/ wire' = [wire EXCEPT ![fd] = Append(wire[fd], t1)]
          \/ wire' = [wire EXCEPT ![fd] = Append(wire[fd], t2)]
      BY <2>0 DEF Serve
    <3>2. <<t1>> \in Records /\ <<t2>> \in Records /\ t1 \in Token /\ t2 \in Token
      BY DEF Records, Token
    <3> HIDE DEF t1, t2
    <3>3. wire[fd] \in Seq(Token)
      BY DEF HttpInv, HttpTypes, NetTypes
    <3>4. wire[fd] \o <<t1>> = Append(wire[fd], t1) /\ wire[fd] \o <<t2>> = Append(wire[fd], t2)
      BY <3>2, <3>3
    <3> QED BY <3>1, <3>2, <3>4
  <2>2. eof' = eof /\ served' = served /\ task' = task
    BY <1>1, <2>0 DEF Serve, clientVars
  <2>3. PICK e \in BOOLEAN : eof' = [eof EXCEPT ![fd] = e]
    BY <2>2 DEF HttpInv, HttpTypes, NetTypes
  <2>4. R \in Seq(Token) /\ Begins(R, R)
    BY Tokens DEF Begins
  <2>5. /\ inbox' = [inbox EXCEPT ![fd] = <<>>]
        /\ \A p \in Task : Holds(p, fd) => task[p].pc = "handshake"
        /\ \A p \in Task, g \in Fd : Waits(p, g)' => Waits(p, g)
    BY <1>1, <2>0, OneAsked
  <2>6. Sent'
    BY <2>2, <2>5, SentDrops
  <2>7. /\ served' \in [Task -> Seq(Fd)] /\ \A p \in Task : Range(served[p]) \subseteq Range(served'[p])
        /\ \A p \in Task, g \in Fd \ {fd} : g \in Range(served'[p]) <=> g \in Range(served[p])
    BY <2>2 DEF HttpInv, HttpTypes
  <2>8. \A p \in Task : Holds(p, fd) /\ task[p].pc = "handshake" => \E R2 \in Records : Begins(R, R2)
    BY <2>4
  <2>9. \A p \in Task : Holds(p, fd) /\ task[p].pc = "head" =>
           \/ \E R2 \in Nonsense : Begins(R, R2)
           \/ /\ fd \in Range(served'[p])
              /\ \E s2 \in Shape : \E R2 \in AnswersTo(task[p].kind, p, fd, s2) : Begins(R, R2)
    BY <2>5
  <2> QED BY <1>1, <2>1, <2>3, <2>4, <2>5, <2>6, <2>7, <2>8, <2>9, AnswersKeeps
<1> QED BY <1>2, <1>3, <1>4 DEF Serve
LEMMA GarbageIs ==
    ASSUME NEW q \in Task, NEW fd \in Fd, NEW R \in Garbage(q, fd)
    PROVE  R \in Nonsense
<1>1. PICK head \in {NoHead} \cup {HeadOf(q, fd, s) : s \in Shape} : R = <<[head EXCEPT !.k = "wrong"]>>
  BY DEF Garbage
<1>2. head \in HeadToken
  <2>1. NoHead \in HeadToken
    BY Limits DEF NoHead, HeadToken, Mode
  <2>2. ASSUME NEW s \in Shape PROVE HeadOf(q, fd, s) \in HeadToken
    <3>1. q \in Nat /\ fd \in Nat
      BY DEF Task, Fd
    <3> QED BY <3>1, ShapeTypes DEF HeadOf, HeadToken
  <2> QED BY <1>1, <2>1, <2>2
<1>3. [head EXCEPT !.k = "wrong"] \in WrongHead
  BY <1>2 DEF HeadToken, WrongHead
<1> QED BY <1>1, <1>3 DEF Nonsense
LEMMA GarbageKeeps ==
    ASSUME HttpInv, NEW fd \in Fd, ServesGarbage(fd)
    PROVE  HttpInv'
<1>1. /\ inbox[fd] # <<>> /\ Head(inbox[fd]) \in Task /\ inbox' = [inbox EXCEPT ![fd] = Tail(inbox[fd])]
      /\ UNCHANGED <<socketVars, mail, clientVars>> /\ eof' = eof /\ task' = task
  BY DEF ServesGarbage, clientVars
<1>2. PICK q \in Task : q = Head(inbox[fd])
  BY <1>1
<1>3. PICK e \in BOOLEAN : eof' = [eof EXCEPT ![fd] = e]
  BY <1>1 DEF HttpInv, HttpTypes, NetTypes
<1>4. PICK open \in BOOLEAN : open = (sock[fd] = "open")
  OBVIOUS
<1>5. CASE /\ served' = served
           /\ \E R \in Garbage(q, fd) : wire' = IF open THEN [wire EXCEPT ![fd] = wire[fd] \o R] ELSE wire
  <2>1. PICK R \in Garbage(q, fd) : wire' = IF open THEN [wire EXCEPT ![fd] = wire[fd] \o R] ELSE wire
    BY <1>5
  <2>2. R \in Nonsense /\ R \in Seq(Token)
    BY GarbageIs, Tokens
  <2>3. PICK v : Comes(v, R) /\ wire' = [wire EXCEPT ![fd] = wire[fd] \o v]
    BY <2>1, <2>2, SendsSome
  <2>4. v \in Seq(Token) /\ Begins(v, R)
    BY <2>2, <2>3, ComesBegins
  <2>5. /\ inbox' = [inbox EXCEPT ![fd] = <<>>]
        /\ \A p \in Task : Holds(p, fd) => task[p].pc = "head"
        /\ \A p \in Task, g \in Fd : Waits(p, g)' => Waits(p, g)
    <3>1. Head(inbox[fd]) # Hello
      BY <1>1 DEF Hello, Task
    <3>2. /\ inbox' = [inbox EXCEPT ![fd] = <<>>]
          /\ \A p \in Task : Holds(p, fd) => \/ task[p].pc = "handshake" /\ Head(inbox[fd]) = Hello
                                             \/ task[p].pc = "head" /\ Head(inbox[fd]) = p
          /\ \A p \in Task, g \in Fd : Waits(p, g)' => Waits(p, g)
      BY <1>1, OneAsked
    <3> QED BY <3>1, <3>2
  <2>6. Sent'
    BY <1>1, <1>5, <2>5, SentDrops
  <2>7. /\ served' \in [Task -> Seq(Fd)] /\ \A p \in Task : Range(served[p]) \subseteq Range(served'[p])
        /\ \A p \in Task, g \in Fd \ {fd} : g \in Range(served'[p]) <=> g \in Range(served[p])
    BY <1>5 DEF HttpInv, HttpTypes
  <2>8. \A p \in Task : Holds(p, fd) /\ task[p].pc = "handshake" => \E R2 \in Records : Begins(v, R2)
    BY <2>5
  <2>9. \A p \in Task : Holds(p, fd) /\ task[p].pc = "head" =>
           \/ \E R2 \in Nonsense : Begins(v, R2)
           \/ /\ fd \in Range(served'[p])
              /\ \E s2 \in Shape : \E R2 \in AnswersTo(task[p].kind, p, fd, s2) : Begins(v, R2)
    BY <2>2, <2>4
  <2> QED BY <1>1, <1>3, <2>3, <2>4, <2>5, <2>6, <2>7, <2>8, <2>9, AnswersKeeps
<1>6. CASE /\ served' = [served EXCEPT ![q] = Append(served[q], fd)]
           /\ \E R \in Broken(q, fd) : wire' = IF open THEN [wire EXCEPT ![fd] = wire[fd] \o R] ELSE wire
  <2>1. PICK R \in Broken(q, fd) : wire' = IF open THEN [wire EXCEPT ![fd] = wire[fd] \o R] ELSE wire
    BY <1>6
  <2>2. PICK s \in Shape : task[q].kind # "head" /\ s.mode = "chunked" /\ R \in BrokenBody(q, fd, s)
    BY <2>1 DEF Broken
  <2>3. R \in AnswersTo(task[q].kind, q, fd, s)
    BY <2>2 DEF AnswersTo
  <2>4. R \in Seq(Token)
    BY <2>3, ResponseIs
  <2>5. PICK v : Comes(v, R) /\ wire' = [wire EXCEPT ![fd] = wire[fd] \o v]
    BY <2>1, <2>4, SendsSome
  <2> QED BY <1>1, <1>2, <1>3, <1>6, <2>3, <2>5, RespondsKeeps
<1> QED BY <1>2, <1>4, <1>5, <1>6 DEF ServesGarbage
-----------------------------------------------------------------------------
(* An event is handled: it is about one socket, and moves at most the       *)
(* request that holds it.                                                   *)
HandleMoves(fd) ==
    /\ mail # <<>> /\ mail' = Tail(mail) /\ Head(mail).fd = fd
    /\ UNCHANGED <<sock, wire, eof, pool, cleanup, served>> /\ NetTypes'
    /\ \A g \in Fd \ {fd} : /\ handler'[g] = handler[g] /\ tls'[g] = tls[g] /\ buf'[g] = buf[g]
                            /\ rclosed'[g] = rclosed[g] /\ inbox'[g] = inbox[g]
    /\ task' \in [Task -> Request]
    /\ \A q \in Task : \/ task'[q] = task[q]
                       \/ /\ Holds(q, fd) /\ task'[q].fd = fd
                          /\ task'[q].key = task[q].key /\ task'[q].kind = task[q].kind
                          /\ task'[q].pc \in {"handshake", "head", "failed"}
LEMMA MailShrinks ==
    ASSUME NEW m \in Seq(Message), m # <<>>
    PROVE  /\ Tail(m) \in Seq(Message) /\ 1 \in DOMAIN m /\ Head(m) = m[1] /\ Head(m) \in Message
           /\ \A i \in DOMAIN Tail(m) : i + 1 \in DOMAIN m /\ Tail(m)[i] = m[i + 1] /\ i \in Nat
           /\ \A i \in DOMAIN m : 1 <= i /\ i \in Nat
           /\ \A g : SilentIn(m, g) => SilentIn(Tail(m), g)
<1>1. Len(m) \in Nat /\ Len(m) >= 1 /\ DOMAIN m = 1 .. Len(m)
  OBVIOUS
<1>2. Tail(m) \in Seq(Message) /\ Len(Tail(m)) = Len(m) - 1 /\ Head(m) = m[1] /\ m[1] \in Message
  BY <1>1
<1>3. DOMAIN Tail(m) = 1 .. Len(m) - 1
  BY <1>1, <1>2
<1>4. \A i \in 1 .. Len(m) - 1 : i + 1 \in 1 .. Len(m) /\ Tail(m)[i] = m[i + 1] /\ i \in Nat
  BY <1>1
<1>5. \A i \in DOMAIN Tail(m) : i + 1 \in DOMAIN m /\ Tail(m)[i] = m[i + 1] /\ i \in Nat
  BY <1>1, <1>3, <1>4
<1>6. \A g : SilentIn(m, g) => SilentIn(Tail(m), g)
  BY <1>5 DEF SilentIn
<1>7. 1 \in DOMAIN m /\ \A i \in DOMAIN m : 1 <= i /\ i \in Nat
  BY <1>1
<1> QED BY <1>2, <1>5, <1>6, <1>7
LEMMA PassesBy ==
    ASSUME HttpInv, NEW g \in Fd, mail # <<>>, mail' = Tail(mail), ~IsData(Head(mail), g),
           buf'[g] = buf[g], wire'[g] = wire[g], inbox'[g] = inbox[g], tls'[g] = tls[g],
           handler'[g] = "connecting" <=> handler[g] = "connecting", served' = served
    PROVE  StillComing(g)
<1>1. mail \in Seq(Message) /\ buf[g] \in Seq(Token) /\ wire[g] \in Seq(Token)
  BY DEF HttpInv, HttpTypes, NetTypes
<1>2. SilentIn(mail, g) => SilentIn(mail', g)
  BY <1>1, MailShrinks
<1>3. ASSUME NEW R \in Seq(Token), NEW c \in Nat, Coming(g, R, c) PROVE Coming(g, R, c)'
  <2>1. Flow(g, R, c, buf[g], Tail(mail), wire[g])
    BY <1>1, <1>3, FlowPasses DEF Coming
  <2> QED BY <2>1 DEF Coming
<1>4. (Calm(g) => Calm(g)') /\ \A x : Asked(g, x) => Asked(g, x)'
  BY <1>2 DEF Calm, Asked
<1> QED BY <1>3, <1>4 DEF StillComing
LEMMA HandleKeeps ==
    ASSUME HttpInv, NEW fd \in Fd, HandleMoves(fd), SocketOf(fd)', Sent',
           sock[fd] \in {"opening", "open"} => Held(fd)' \/ tls'[fd] = "shaking",
           \A q \in Task : Holds(q, fd)' => CarriesOf(q, fd)', InPool(fd) => PoolOf(fd)'
    PROVE  HttpInv'
<1>1. HttpTypes /\ mail \in Seq(Message) /\ mail # <<>> /\ mail' = Tail(mail) /\ Head(mail).fd = fd
  BY DEF HttpInv, HttpTypes, NetTypes, HandleMoves
<1>2. UNCHANGED <<sock, wire, eof, pool, cleanup, served>>
  BY DEF HandleMoves
<1>3. ASSUME NEW q \in Task
      PROVE  \/ task'[q] = task[q]
             \/ /\ Holds(q, fd) /\ task'[q].fd = fd
                /\ task'[q].key = task[q].key /\ task'[q].kind = task[q].kind
                /\ task'[q].pc \in {"handshake", "head", "failed"}
  BY DEF HandleMoves
<1>4. \A g : InPool(g)' <=> InPool(g)
  BY <1>2 DEF InPool
<1>5. /\ \A q \in Task, g \in Fd \ {fd} : Holds(q, g)' <=> Holds(q, g)
      /\ \A q \in Task : Holds(q, fd)' => Holds(q, fd)
  BY <1>3 DEF Holds
<1>6. \A g \in Fd \ {fd} : Held(g)' <=> Held(g)
  BY <1>4, <1>5 DEF Held
<1>7. HttpTypes'
  <2>1. NetTypes' /\ task' \in [Task -> Request]
    BY DEF HandleMoves
  <2>2. ASSUME NEW q \in Task, task'[q].pc \in Active
        PROVE  task'[q].fd \in Fd /\ task'[q].key \in Key /\ task'[q].kind # "none"
    <3>1. task[q].pc \in Active => task[q].fd \in Fd /\ task[q].key \in Key /\ task[q].kind # "none"
      BY <1>1 DEF HttpTypes
    <3> QED BY <1>3, <2>2, <3>1 DEF Holds
  <2> QED BY <1>1, <1>2, <2>1, <2>2 DEF HttpTypes
<1>8. Alone'
  <2>1. \A q \in Task, g \in Fd : Holds(q, g)' => Holds(q, g)
    BY <1>5
  <2> QED BY <1>4, <2>1 DEF HttpInv, Alone
<1>9. PoolOnce'
  BY <1>2 DEF HttpInv, PoolOnce
<1>10. Owned'
  <2>1. \A g \in Fd \ {fd} : tls'[g] = tls[g]
    BY DEF HandleMoves
  <2> QED BY <1>2, <1>6, <2>1 DEF HttpInv, Owned
<1>11. Answers'
  <2> SUFFICES ASSUME NEW q \in Task PROVE AnswerOf(q, task'[q])
    BY DEF Answers, AnswerOf
  <2>1. AnswerOf(q, task[q])
    BY DEF HttpInv, Answers
  <2> QED BY <1>3, <2>1 DEF AnswerOf
<1>12. ASSUME NEW g \in Fd \ {fd} PROVE StillComing(g)
  <2>1. ~IsData(Head(mail), g)
    BY <1>1 DEF IsData
  <2>2. buf'[g] = buf[g] /\ wire'[g] = wire[g] /\ inbox'[g] = inbox[g] /\ tls'[g] = tls[g]
        /\ (handler'[g] = "connecting" <=> handler[g] = "connecting")
    BY <1>2 DEF HandleMoves
  <2> QED BY <1>1, <1>2, <2>1, <2>2, PassesBy
<1>13. ASSUME NEW g \in Fd PROVE EndsLast(g)'
  <2>1. EndsLast(g)
    BY DEF HttpInv, Sockets
  <2>2. \A i \in DOMAIN mail' : i + 1 \in DOMAIN mail /\ mail'[i] = mail[i + 1] /\ i \in Nat
    BY <1>1, MailShrinks
  <2>3. ASSUME NEW i \in DOMAIN mail', IsEnd(mail'[i], g)
        PROVE  sock[g] \in {"shut", "gone"} /\ \A j \in DOMAIN mail' : i <= j => ~IsData(mail'[j], g)
    <3>1. sock[g] \in {"shut", "gone"} /\ \A j \in DOMAIN mail : i + 1 <= j => ~IsData(mail[j], g)
      BY <2>1, <2>2, <2>3 DEF EndsLast
    <3>2. \A j \in DOMAIN mail' : i <= j => i + 1 <= j + 1
      BY <2>2
    <3> QED BY <2>2, <3>1, <3>2
  <2> QED BY <1>2, <2>3 DEF EndsLast
<1>14. ASSUME NEW g \in Fd \ {fd} PROVE SocketOf(g)'
  <2>1. SocketOf(g)
    BY DEF HttpInv, Sockets
  <2>2. /\ handler'[g] = handler[g] /\ tls'[g] = tls[g] /\ buf'[g] = buf[g]
        /\ rclosed'[g] = rclosed[g] /\ inbox'[g] = inbox[g]
    BY DEF HandleMoves
  <2>3. (Calm(g) => Calm(g)') /\ (NotServed(g) => NotServed(g)')
    BY <1>2, <1>12 DEF StillComing, NotServed
  <2>4. SilentIn(mail, g) => SilentIn(mail', g)
    BY <1>1, MailShrinks
  <2> QED BY <1>2, <1>6, <2>1, <2>2, <2>3, <2>4 DEF SocketOf
<1>15. Sockets'
  BY <1>13, <1>14 DEF Sockets
<1>16. Carries'
  <2>1. ASSUME NEW q \in Task, NEW g \in Fd \ {fd}, Holds(q, g)' PROVE CarriesOf(q, g)'
    <3>1. Holds(q, g)
      BY <1>5, <2>1
    <3>2. task'[q] = task[q]
      BY <1>3, <3>1 DEF Holds
    <3> QED BY <1>12, <3>1, <3>2, CarriesSame
  <2>2. \A g \in Fd \ {fd} : InPool(g) => PoolOf(g)'
    BY <1>12, PoolSame
  <2> QED BY <1>4, <2>1, <2>2 DEF Carries
<1> QED BY <1>7, <1>8, <1>9, <1>10, <1>11, <1>15, <1>16 DEF HttpInv
\* The peer is told y, if it can be.
Tells(fd, y) ==
    inbox' = inbox \/ (inbox[fd] = <<>> /\ inbox' = [inbox EXCEPT ![fd] = <<y>>])
\* q, connected or secured, asks y, or it cannot, or it fails.
LEMMA SentMoves ==
    ASSUME HttpInv, NEW fd \in Fd, NEW q \in Task, task[q].pc \in {"connecting", "handshake"},
           task[q].fd = fd, NEW pc \in {"handshake", "head", "failed"}, Goes(q, pc), served' = served,
           NEW y \in 0 .. MaxTask, (y = q /\ pc = "head") \/ y = Hello, Tells(fd, y)
    PROVE  Sent'
<1>0. inbox' = inbox \/ (inbox[fd] = <<>> /\ inbox' = [inbox EXCEPT ![fd] = <<y>>])
  BY DEF Tells
<1>1. task \in [Task -> Request] /\ inbox \in [Fd -> Seq(0 .. MaxTask)]
  BY DEF HttpInv, HttpTypes, NetTypes
<1>2. /\ task'[q].pc = pc /\ task'[q].fd = fd /\ task'[q].fromPool = task[q].fromPool
      /\ task'[q].kind = task[q].kind /\ task'[q].before = task[q].before
      /\ \A p \in Task \ {q} : task'[p] = task[p]
  BY <1>1 DEF Goes, Request
<1>3. ASSUME NEW p \in Task, NEW g \in Fd, Waits(p, g)', ~Waits(p, g)
      PROVE  p = y /\ g = fd /\ p = q /\ pc = "head"
  <2>1. inbox' # inbox
    BY <1>3 DEF Waits
  <2>2. inbox' = [inbox EXCEPT ![fd] = <<y>>]
    BY <1>0, <2>1
  <2>3. g = fd
    BY <1>1, <1>3, <2>2 DEF Waits
  <2>4. p = y
    BY <1>1, <1>3, <2>2, <2>3 DEF Waits, Range
  <2>5. p # Hello
    BY DEF Task, Hello
  <2> QED BY <2>3, <2>4, <2>5
<1>4. ASSUME NEW p \in Task, NEW g \in Fd, Waits(p, g) PROVE Waits(p, g)'
  <2>1. inbox' # inbox => g # fd
    BY <1>0, <1>4 DEF Waits, Range
  <2> QED BY <1>0, <1>1, <1>4, <2>1 DEF Waits
<1>5. \A g, T : Carried(g, T)' <=> Carried(g, T)
  BY DEF Carried
<1>6. ASSUME NEW p \in Task \ {q} PROVE SentOf(p)'
  <2>1. SentOf(p) /\ task'[p] = task[p]
    BY <1>2 DEF HttpInv, Sent
  <2>2. \A g \in Fd : (Waits(p, g)' <=> Waits(p, g)) /\ (On(p, g)' <=> On(p, g))
    BY <1>3, <1>4 DEF On
  <2>3. task[p].pc \in {"connecting", "handshake"} => task[p].fd \in Fd
    BY DEF HttpInv, HttpTypes, Active
  <2> QED BY <1>5, <2>1, <2>2, <2>3 DEF SentOf
<1>7. SentOf(q)'
  <2>1. SentOf(q)
    BY DEF HttpInv, Sent
  <2>2. ~On(q, fd) /\ ~task[q].fromPool
    BY <2>1 DEF SentOf
  <2>3. \A g \in Fd \ {fd} : (Waits(q, g)' <=> Waits(q, g)) /\ (On(q, g)' <=> On(q, g))
    BY <1>3, <1>4 DEF On
  <2>4. fd \notin Range(served[q]) /\ (pc # "head" => ~On(q, fd)')
    BY <1>3, <2>2 DEF On
  <2>5. \A g \in Fd : ~(g \in Range(served'[q]) /\ Waits(q, g)')
    BY <2>1, <2>3, <2>4 DEF SentOf
  <2>6. \A g \in Fd : On(q, g)' /\ g # fd =>
           /\ ~task'[q].fromPool /\ Carried(g, Task \ {q})' /\ task'[q].kind # "stream"
           /\ \A h \in Fd : On(q, h)' /\ h # fd => h = g
    BY <1>2, <1>5, <2>1, <2>3 DEF SentOf
  <2> QED BY <1>2, <2>1, <2>2, <2>4, <2>5, <2>6 DEF SentOf
<1> QED BY <1>6, <1>7 DEF Sent
LEMMA FlowOfNothing ==
    ASSUME NEW fd, NEW R \in Seq(Token), NEW m \in Seq(Message), SilentIn(m, fd)
    PROVE  Flow(fd, R, 0, <<>>, m, <<>>)
<1>1. PICK w : w = <<>>
  OBVIOUS
<1>a. w \in Seq(Token)
  BY <1>1
<1>2. Len(w) = 0 /\ DOMAIN w = {} /\ Len(R) \in Nat
  BY <1>1
<1>3. Len(w) <= Len(R) /\ \A k \in DOMAIN w : w[k] = R[k]
  BY <1>2
<1>4. Flow(fd, R, 0, <<>>, m, w)
  BY <1>a, <1>3, FlowStarts
<1> QED BY <1>1, <1>4
\* Nothing is on its way on fd but what was asked, if it could be.
LEMMA AsksNow ==
    ASSUME NetTypes', NEW fd \in Fd, buf'[fd] = <<>>, wire'[fd] = <<>>, SilentIn(mail', fd),
           NEW R \in Seq(Token)
    PROVE  Coming(fd, R, 0)'
<1>1. mail' \in Seq(Message)
  BY DEF NetTypes
<1>2. PICK m \in Seq(Message) : m = mail'
  BY <1>1
<1>3. SilentIn(m, fd)
  BY <1>2
<1>4. Flow(fd, R, 0, <<>>, m, <<>>)
  BY <1>2, <1>3, FlowOfNothing
<1> QED BY <1>2, <1>4 DEF Coming
LEMMA RestNow ==
    ASSUME NetTypes', NEW fd \in Fd, buf'[fd] = <<>>, wire'[fd] = <<>>, SilentIn(mail', fd),
           NEW R \in Seq(Token)
    PROVE  Rest(fd)' /\ After(fd, R)'
<1> DEFINE none == <<>>
<1>1. none \in Seq(Token) /\ Len(none) = 0 /\ DOMAIN none = {} /\ none \o R = R
  OBVIOUS
<1> HIDE DEF none
<1>2. Left(none)'
  BY <1>1 DEF Left
<1>3. Coming(fd, none, 0)' /\ Coming(fd, R, 0)'
  BY <1>1, AsksNow
<1>4. Coming(fd, none \o R, 0)'
  BY <1>1, <1>3
<1>5. Rest(fd)'
  BY <1>2, <1>3 DEF Rest
<1>6. After(fd, R)'
  BY <1>2, <1>4 DEF After
<1> QED BY <1>5, <1>6
\* The request is under way on a connection on which nothing else was.
LEMMA AsksCarries ==
    ASSUME NetTypes', NEW fd \in Fd, buf'[fd] = <<>>, wire'[fd] = <<>>, SilentIn(mail', fd),
           NEW q \in Task, task'[q].body = <<>>, handler'[fd] # "connecting",
           \/ task'[q].pc = "handshake" /\ tls'[fd] = "shaking"
              /\ (inbox'[fd] = <<>> \/ inbox'[fd] = <<Hello>>)
           \/ task'[q].pc = "head" /\ tls'[fd] # "shaking" /\ (inbox'[fd] = <<>> \/ inbox'[fd] = <<q>>)
    PROVE  CarriesOf(q, fd)'
<1>1. CASE task'[q].pc = "handshake"
  <2>1. PICK R \in Records : TRUE
    BY DEF Records
  <2>2. R \in Seq(Token)
    BY Tokens
  <2>3. Coming(fd, R, 0)'
    BY <2>2, AsksNow
  <2>4. (inbox'[fd] = <<Hello>>) => Asked(fd, Hello)'
    BY DEF Asked
  <2> QED BY <1>1, <2>3, <2>4 DEF CarriesOf
<1>2. CASE task'[q].pc = "head"
  <2>1. PICK R \in Nonsense : TRUE
    BY Tokens
  <2>2. R \in Seq(Token)
    BY Tokens
  <2>3. Rest(fd)' /\ After(fd, R)'
    BY <2>2, RestNow
  <2>4. \E R2 \in Nonsense' : After(fd, R2)'
    BY <2>3 DEF Nonsense, WrongHead
  <2>5. inbox'[fd] = <<q>> => Wanted(fd, q)'
    BY <2>3 DEF Wanted
  <2> QED BY <1>2, <2>4, <2>5 DEF CarriesOf
<1> QED BY <1>1, <1>2
Handled(fd) ==
    /\ mail # <<>> /\ mail' = Tail(mail) /\ fd = Head(mail).fd
    /\ UNCHANGED <<sock, wire, eof, pool, cleanup, served>>
\* What is known of the socket of an event.
LEMMA HandledIs ==
    ASSUME HttpInv, NEW fd \in Fd, Handled(fd)
    PROVE  /\ HttpTypes /\ NetTypes /\ SocketOf(fd) /\ EndsLast(fd) /\ mail \in Seq(Message)
           /\ mail' \in Seq(Message) /\ Head(mail) \in Message /\ (SilentIn(mail, fd) => SilentIn(mail', fd))
           /\ \A q \in Task : Holds(q, fd) => CarriesOf(q, fd) /\ ~InPool(fd)
           /\ \A p, q \in Task : Holds(p, fd) /\ Holds(q, fd) => p = q
           /\ InPool(fd) => PoolOf(fd)
           /\ sock[fd] \in {"opening", "open"} => Held(fd) \/ tls[fd] = "shaking"
<1>1. HttpTypes /\ NetTypes /\ SocketOf(fd) /\ EndsLast(fd) /\ mail \in Seq(Message)
  BY DEF HttpInv, HttpTypes, NetTypes, Sockets
<1>2. mail' \in Seq(Message) /\ Head(mail) \in Message /\ (SilentIn(mail, fd) => SilentIn(mail', fd))
  BY <1>1, MailShrinks DEF Handled
<1>3. \A q \in Task : Holds(q, fd) => CarriesOf(q, fd) /\ ~InPool(fd)
  BY DEF HttpInv, Alone, Carries
<1>4. \A p, q \in Task : Holds(p, fd) /\ Holds(q, fd) => p = q
  BY DEF HttpInv, Alone
<1>5. (InPool(fd) => PoolOf(fd)) /\ (sock[fd] \in {"opening", "open"} => Held(fd) \/ tls[fd] = "shaking")
  BY DEF HttpInv, Carries, Owned
<1> QED BY <1>1, <1>2, <1>3, <1>4, <1>5
\* An event on which nothing is done.
LEMMA IgnoresKeeps ==
    ASSUME HttpInv, NEW fd \in Fd, Handled(fd), UNCHANGED <<handler, buf, rclosed, tls, inbox, task>>,
           ~IsData(Head(mail), fd) \/ ~Held(fd)
    PROVE  HttpInv'
<1>1. /\ HttpTypes /\ NetTypes /\ SocketOf(fd) /\ mail \in Seq(Message) /\ mail' \in Seq(Message)
      /\ SilentIn(mail, fd) => SilentIn(mail', fd)
      /\ sock[fd] \in {"opening", "open"} => Held(fd) \/ tls[fd] = "shaking"
  BY HandledIs
<1>2. mail # <<>> /\ mail' = Tail(mail) /\ UNCHANGED <<sock, wire, eof, pool, cleanup, served>>
  BY DEF Handled
<1>3. HandleMoves(fd)
  BY <1>1, <1>2 DEF Handled, HandleMoves, NetTypes, HttpTypes
<1>4. /\ \A g : InPool(g)' <=> InPool(g)
      /\ \A q, g : Holds(q, g)' <=> Holds(q, g)
      /\ \A g : Held(g)' <=> Held(g)
  BY <1>2 DEF InPool, Holds, Held
<1>5. SocketOf(fd)'
  <2>1. (Calm(fd) => Calm(fd)') /\ (NotServed(fd) => NotServed(fd)')
    BY <1>1, <1>2 DEF Calm, NotServed
  <2> QED BY <1>1, <1>2, <1>4, <2>1 DEF SocketOf
<1>6. Sent'
  <2>1. \A q \in Task, g \in Fd : Waits(q, g)' => Waits(q, g)
    BY DEF Waits
  <2> QED BY <1>2, <2>1, SentDrops
<1>7. (\A q \in Task : Holds(q, fd)' => CarriesOf(q, fd)') /\ (InPool(fd) => PoolOf(fd)')
  <2>1. Held(fd) => StillComing(fd)
    BY <1>2, PassesBy
  <2>2. \A q \in Task : Holds(q, fd) \/ InPool(fd) => Held(fd)
    BY DEF Held
  <2>3. ASSUME NEW q \in Task, Holds(q, fd)' PROVE CarriesOf(q, fd)'
    BY <1>4, <2>1, <2>2, <2>3, CarriesSame
  <2>4. InPool(fd) => PoolOf(fd)'
    BY <2>1, PoolSame DEF Held
  <2> QED BY <2>3, <2>4
<1> QED BY <1>1, <1>3, <1>4, <1>5, <1>6, <1>7, HandleKeeps
LEMMA Told ==
    ASSUME NEW y \in 0 .. MaxTask
    PROVE  <<y>> \in Seq(0 .. MaxTask) /\ Len(<<y>>) <= 1 /\ Len(<<>>) <= 1
<1>1. Len(<<y>>) = 1 /\ Len(<<>>) = 0
  OBVIOUS
<1> QED BY <1>1
LEMMA ConnectKeeps ==
    ASSUME HttpInv, NEW fd \in Fd, Handled(fd), NEW q \in Task, task[q].pc = "connecting", task[q].fd = fd,
           handler[fd] = "connecting", handler' = [handler EXCEPT ![fd] = "reader"],
           UNCHANGED <<buf, rclosed>>, NEW pc \in {"handshake", "head"}, Goes(q, pc),
           Upgrades(fd, pc = "handshake"), NEW y \in 0 .. MaxTask,
           pc = "head" => y = q, pc # "head" => y = Hello, Writes(fd, y)
    PROVE  HttpInv'
<1>1. /\ HttpTypes /\ NetTypes /\ SocketOf(fd) /\ mail \in Seq(Message) /\ mail' \in Seq(Message)
      /\ SilentIn(mail, fd) => SilentIn(mail', fd)
  BY HandledIs
<1>2. mail # <<>> /\ mail' = Tail(mail) /\ fd = Head(mail).fd /\ UNCHANGED <<sock, wire, eof, pool, cleanup, served>>
  BY DEF Handled
<1>3. Holds(q, fd) /\ CarriesOf(q, fd) /\ ~InPool(fd) /\ \A p \in Task : Holds(p, fd) => p = q
  <2>1. Holds(q, fd)
    BY DEF Holds, Active
  <2> QED BY <2>1, HandledIs
<1>4. Calm(fd) /\ tls[fd] = "plain" /\ task[q].body = <<>> /\ sock[fd] \notin {"none", "gone"}
  <2>1. Held(fd)
    BY <1>3 DEF Held
  <2> QED BY <1>1, <1>3, <2>1 DEF SocketOf, CarriesOf
<1>5. Tells(fd, y)
  BY <1>4 DEF Writes, Calm, Tells
<1>6. Sent'
  <2>1. (y = q /\ pc = "head") \/ y = Hello
    OBVIOUS
  <2> QED BY <1>2, <1>5, <2>1, SentMoves
<1>7. /\ task' \in [Task -> Request] /\ task'[q].pc = pc /\ task'[q].fd = fd /\ task'[q].key = task[q].key
      /\ task'[q].kind = task[q].kind /\ task'[q].body = <<>>
      /\ \A p \in Task \ {q} : task'[p] = task[p]
  BY ZenonT(40), <1>1, <1>4 DEF HttpTypes, Goes, Request, Pc
<1>8. /\ inbox' \in [Fd -> Seq(0 .. MaxTask)] /\ \A g \in Fd \ {fd} : inbox'[g] = inbox[g]
      /\ inbox'[fd] = <<>> \/ inbox'[fd] = <<y>>
  <2>1. inbox \in [Fd -> Seq(0 .. MaxTask)] /\ inbox[fd] = <<>>
    BY <1>1, <1>4 DEF NetTypes, Calm
  <2>2. PICK w \in Seq(0 .. MaxTask) : w = <<y>>
    BY Told
  <2>3. inbox' = inbox \/ inbox' = [inbox EXCEPT ![fd] = w]
    BY <1>5, <2>2 DEF Tells
  <2>4. CASE inbox' = inbox
    BY <2>1, <2>4
  <2>5. CASE inbox' = [inbox EXCEPT ![fd] = w]
    BY <2>1, <2>2, <2>5
  <2> QED BY <2>3, <2>4, <2>5
<1>9. /\ handler'[fd] = "reader" /\ \A g \in Fd \ {fd} : handler'[g] = handler[g]
      /\ tls'[fd] = IF pc = "handshake" THEN "shaking" ELSE "plain"
      /\ \A g \in Fd \ {fd} : tls'[g] = tls[g]
      /\ tls' \in [Fd -> {"plain", "shaking", "on"}] /\ handler' \in [Fd -> {"none", "connecting", "reader"}]
  BY <1>1 DEF NetTypes, Upgrades
<1>10. NetTypes'
  BY <1>1, <1>2, <1>8, <1>9 DEF NetTypes
<1>11. HandleMoves(fd)
  <2>1. \A p \in Task : \/ task'[p] = task[p]
                        \/ /\ Holds(p, fd) /\ task'[p].fd = fd
                           /\ task'[p].key = task[p].key /\ task'[p].kind = task[p].kind
                           /\ task'[p].pc \in {"handshake", "head", "failed"}
    BY <1>3, <1>7
  <2> QED BY <1>2, <1>7, <1>8, <1>9, <1>10, <2>1 DEF HandleMoves
<1>12. Holds(q, fd)' /\ Held(fd)' /\ \A p \in Task : Holds(p, fd)' => p = q
  <2>1. Holds(q, fd)'
    BY <1>7 DEF Holds, Active
  <2>2. \A p \in Task \ {q} : Holds(p, fd)' => Holds(p, fd)
    BY <1>7 DEF Holds
  <2> QED BY <1>3, <2>1, <2>2 DEF Held
<1>13. Len(inbox'[fd]) <= 1
  BY <1>8, Told
<1>14. SocketOf(fd)'
  BY <1>1, <1>2, <1>4, <1>9, <1>12, <1>13 DEF SocketOf
<1>15. CarriesOf(q, fd)'
  <2>1. buf'[fd] = <<>> /\ wire'[fd] = <<>> /\ SilentIn(mail', fd) /\ handler'[fd] # "connecting"
    BY <1>1, <1>2, <1>4, <1>9 DEF Calm
  <2>2. \/ task'[q].pc = "handshake" /\ tls'[fd] = "shaking" /\ (inbox'[fd] = <<>> \/ inbox'[fd] = <<Hello>>)
        \/ task'[q].pc = "head" /\ tls'[fd] # "shaking" /\ (inbox'[fd] = <<>> \/ inbox'[fd] = <<q>>)
    BY <1>7, <1>8, <1>9
  <2> QED BY <1>7, <1>10, <2>1, <2>2, AsksCarries
<1> QED BY <1>3, <1>6, <1>11, <1>12, <1>14, <1>15, HandleKeeps
\* The socket has ended: nothing comes after.
LEMMA EndIs ==
    ASSUME HttpInv, NEW fd \in Fd, Handled(fd), Head(mail).type \in {"CLOSE", "ERROR"}
    PROVE  sock[fd] \in {"shut", "gone"} /\ SilentIn(mail, fd) /\ SilentIn(mail', fd) /\ ~IsData(Head(mail), fd)
<1>1. EndsLast(fd) /\ mail \in Seq(Message) /\ (SilentIn(mail, fd) => SilentIn(mail', fd))
  BY HandledIs
<1>2. 1 \in DOMAIN mail /\ Head(mail) = mail[1] /\ \A i \in DOMAIN mail : 1 <= i
  BY <1>1, MailShrinks DEF Handled
<1>3. IsEnd(mail[1], fd)
  BY <1>2 DEF IsEnd, Handled
<1> QED BY <1>1, <1>2, <1>3 DEF EndsLast, SilentIn, IsData
LEMMA EndTypes ==
    ASSUME HttpInv, NEW fd \in Fd, Handled(fd), OnEnd(fd), UNCHANGED <<buf, tls, inbox>>
    PROVE  /\ NetTypes' /\ handler'[fd] = "none" /\ \A g \in Fd \ {fd} : handler'[g] = handler[g]
           /\ \A g \in Fd \ {fd} : rclosed'[g] = rclosed[g]
<1>1. NetTypes /\ mail' \in Seq(Message)
  BY HandledIs
<1>2. /\ handler' \in [Fd -> {"none", "connecting", "reader"}] /\ handler'[fd] = "none"
      /\ \A g \in Fd \ {fd} : handler'[g] = handler[g]
  BY <1>1 DEF NetTypes, OnEnd
<1>3. rclosed' \in [Fd -> BOOLEAN] /\ \A g \in Fd \ {fd} : rclosed'[g] = rclosed[g]
  BY <1>1 DEF NetTypes, OnEnd, ReaderEnds
<1>4. NetTypes'
  BY <1>1, <1>2, <1>3 DEF NetTypes, Handled
<1> QED BY <1>2, <1>3, <1>4
LEMMA ReaderEndKeeps ==
    ASSUME HttpInv, NEW fd \in Fd, Handled(fd), Head(mail).type \in {"CLOSE", "ERROR"}, OnEnd(fd),
           handler[fd] # "connecting", UNCHANGED <<buf, tls, inbox, task>>
    PROVE  HttpInv'
<1>1. HttpTypes /\ SocketOf(fd)
  BY HandledIs
<1>2. mail # <<>> /\ mail' = Tail(mail) /\ fd = Head(mail).fd /\ UNCHANGED <<sock, wire, eof, pool, cleanup, served>>
  BY DEF Handled
<1>3. sock[fd] \in {"shut", "gone"} /\ SilentIn(mail, fd) /\ SilentIn(mail', fd) /\ ~IsData(Head(mail), fd)
  BY EndIs
<1>4. /\ NetTypes' /\ handler'[fd] = "none" /\ \A g \in Fd \ {fd} : handler'[g] = handler[g]
      /\ \A g \in Fd \ {fd} : rclosed'[g] = rclosed[g]
  BY EndTypes
<1>5. HandleMoves(fd)
  BY <1>1, <1>2, <1>4 DEF HandleMoves, HttpTypes
<1>6. /\ \A q, g : Holds(q, g)' <=> Holds(q, g)
      /\ \A g : InPool(g)' <=> InPool(g)
      /\ Held(fd)' <=> Held(fd)
  BY <1>2 DEF InPool, Holds, Held
<1>7. SocketOf(fd)'
  <2>1. Calm(fd) => Calm(fd)'
    BY <1>2, <1>3 DEF Calm
  <2> QED BY <1>1, <1>2, <1>3, <1>4, <1>6, <2>1 DEF SocketOf
<1>8. Sent'
  <2>1. \A q \in Task, g \in Fd : Waits(q, g)' => Waits(q, g)
    BY DEF Waits
  <2> QED BY <1>2, <2>1, SentDrops
<1>9. StillComing(fd)
  <2>1. handler'[fd] = "connecting" <=> handler[fd] = "connecting"
    BY <1>4
  <2> QED BY <1>2, <1>3, <2>1, PassesBy
<1>10. ASSUME NEW q \in Task, Holds(q, fd)' PROVE CarriesOf(q, fd)'
  BY <1>6, <1>9, <1>10, CarriesSame
<1>11. InPool(fd) => PoolOf(fd)'
  BY <1>9, PoolSame
<1> QED BY <1>3, <1>5, <1>7, <1>8, <1>10, <1>11, HandleKeeps
LEMMA ConnectEndKeeps ==
    ASSUME HttpInv, NEW fd \in Fd, Handled(fd), Head(mail).type \in {"CLOSE", "ERROR"}, OnEnd(fd),
           handler[fd] = "connecting", UNCHANGED <<buf, tls, inbox>>,
           task' = [q \in Task |-> IF q \in Owner(fd, {"connecting"})
                                   THEN [task[q] EXCEPT !.pc = "failed"] ELSE task[q]]
    PROVE  HttpInv'
<1>1. HttpTypes /\ SocketOf(fd)
  BY HandledIs
<1>2. mail # <<>> /\ mail' = Tail(mail) /\ fd = Head(mail).fd /\ UNCHANGED <<sock, wire, eof, pool, cleanup, served>>
  BY DEF Handled
<1>3. sock[fd] \in {"shut", "gone"} /\ SilentIn(mail, fd) /\ SilentIn(mail', fd) /\ ~IsData(Head(mail), fd)
  BY EndIs
<1>4. /\ NetTypes' /\ handler'[fd] = "none" /\ \A g \in Fd \ {fd} : handler'[g] = handler[g]
      /\ \A g \in Fd \ {fd} : rclosed'[g] = rclosed[g]
  BY EndTypes
<1>5. rclosed' = rclosed
  BY DEF OnEnd
<1>6. \A q \in Task : q \in Owner(fd, {"connecting"}) <=> Holds(q, fd)
  <2>1. \A q \in Task : Holds(q, fd) => task[q].pc = "connecting"
    BY HandledIs DEF CarriesOf
  <2> QED BY <2>1 DEF Owner, Holds, Active
<1>7. ASSUME NEW q \in Task
      PROVE  /\ Holds(q, fd) => task'[q] = [task[q] EXCEPT !.pc = "failed"]
             /\ ~Holds(q, fd) => task'[q] = task[q]
  BY <1>6
<1>8. ASSUME NEW q \in Task
      PROVE  /\ task'[q] \in Request
             /\ Holds(q, fd) => /\ task'[q].pc = "failed" /\ task'[q].fd = fd
                                /\ task'[q].key = task[q].key /\ task'[q].kind = task[q].kind
  <2>1. PICK t \in Request : t = task[q]
    BY <1>1 DEF HttpTypes
  <2>2. [t EXCEPT !.pc = "failed"] \in Request
    BY DEF Request, Pc
  <2>3. /\ [t EXCEPT !.pc = "failed"].pc = "failed" /\ [t EXCEPT !.pc = "failed"].fd = t.fd
        /\ [t EXCEPT !.pc = "failed"].key = t.key /\ [t EXCEPT !.pc = "failed"].kind = t.kind
    BY DEF Request
  <2> QED BY <1>7, <2>1, <2>2, <2>3 DEF Holds
<1>9. HandleMoves(fd)
  <2>1. task' \in [Task -> Request]
    BY <1>8
  <2> QED BY <1>2, <1>4, <1>5, <1>7, <1>8, <2>1 DEF HandleMoves
<1>10. \A q \in Task : ~Holds(q, fd)'
  <2>1. ASSUME NEW q \in Task, Holds(q, fd)' PROVE FALSE
    <3>1. Holds(q, fd) => ~(task'[q].pc \in Active)
      BY <1>8 DEF Active
    <3>2. ~Holds(q, fd) => task'[q] = task[q]
      BY <1>7
    <3> QED BY <2>1, <3>1, <3>2 DEF Holds
  <2> QED BY <2>1
<1>11. ~InPool(fd) /\ ~InPool(fd)' /\ ~Held(fd)'
  <2>1. ~InPool(fd)
    BY HandledIs DEF PoolOf
  <2> QED BY <1>2, <1>10, <2>1 DEF InPool, Held
<1>12. SocketOf(fd)'
  <2>1. tls[fd] = "plain" /\ Calm(fd)'
    BY <1>1, <1>2, <1>3 DEF SocketOf, Calm
  <2> QED BY <1>1, <1>2, <1>3, <1>4, <1>5, <1>11, <2>1 DEF SocketOf
<1>13. Sent'
  <2>1. CASE \E q \in Task : Holds(q, fd)
    <3>1. PICK q \in Task : Holds(q, fd)
      BY <2>1
    <3>2. \A p \in Task : Holds(p, fd) <=> p = q
      BY <3>1, HandledIs
    <3>3. Goes(q, "failed")
      <4>1. \A p \in Task \ {q} : task'[p] = task[p]
        BY <1>7, <3>2
      <4>2. task'[q] = [task[q] EXCEPT !.pc = "failed"]
        BY <1>7, <3>1
      <4> QED BY <1>1, <4>1, <4>2 DEF Goes, HttpTypes
    <3>4. task[q].pc \in {"connecting", "handshake"} /\ task[q].fd = fd
      BY <1>6, <3>1 DEF Owner
    <3>5. Tells(fd, Hello) /\ Hello \in 0 .. MaxTask
      BY Limits DEF Tells, Hello
    <3>6. served' = served
      BY <1>2
    <3> QED BY <3>3, <3>4, <3>5, <3>6, SentMoves
  <2>2. CASE \A q \in Task : ~Holds(q, fd)
    <3>1. task' = task
      BY <1>1, <1>7, <2>2 DEF HttpTypes
    <3>2. \A q \in Task, g \in Fd : Waits(q, g)' => Waits(q, g)
      BY DEF Waits
    <3> QED BY <1>2, <3>1, <3>2, SentDrops
  <2> QED BY <2>1, <2>2
<1> QED BY <1>3, <1>9, <1>10, <1>11, <1>12, <1>13, HandleKeeps
\* Data come to a reader, or to nobody.
LEMMA DataIs ==
    ASSUME HttpInv, NEW fd \in Fd, Handled(fd), Head(mail).type = "DATA"
    PROVE  /\ IsData(Head(mail), fd) /\ Head(mail).data \in Seq(Token)
           /\ ~SilentIn(mail, fd) /\ ~Calm(fd) /\ sock[fd] # "none"
           /\ handler[fd] # "connecting" /\ \A x : ~Asked(fd, x)
           /\ handler[fd] = "none" => ~Held(fd)
           /\ tls[fd] = "shaking" => \E q \in Task : Holds(q, fd)
<1>1. SocketOf(fd) /\ mail \in Seq(Message) /\ Head(mail) \in Message /\ (InPool(fd) => PoolOf(fd))
  BY HandledIs
<1>2. 1 \in DOMAIN mail /\ Head(mail) = mail[1]
  BY <1>1, MailShrinks DEF Handled
<1>3. IsData(Head(mail), fd) /\ Head(mail).data \in Seq(Token)
  BY <1>1 DEF IsData, Handled, Message
<1>4. ~SilentIn(mail, fd)
  BY <1>2, <1>3 DEF SilentIn
<1>5. ~Calm(fd) /\ \A x : ~Asked(fd, x)
  BY <1>4 DEF Calm, Asked
<1>6. (InPool(fd) => tls[fd] # "shaking") /\ handler[fd] # "connecting" /\ sock[fd] # "none"
  BY <1>1, <1>5 DEF PoolOf, SocketOf
<1>7. handler[fd] = "none" => ~Held(fd)
  BY <1>1, <1>4 DEF SocketOf
<1>8. tls[fd] = "shaking" => \E q \in Task : Holds(q, fd)
  BY <1>1, <1>5, <1>6 DEF SocketOf, Held
<1> QED BY <1>3, <1>4, <1>5, <1>6, <1>7, <1>8
LEMMA FeedsKeeps ==
    ASSUME HttpInv, NEW fd \in Fd, Handled(fd), Head(mail).type = "DATA", tls[fd] # "shaking",
           Feeds(fd, Head(mail).data), UNCHANGED <<handler, rclosed, tls, inbox, task>>
    PROVE  HttpInv'
<1>1. HttpTypes /\ NetTypes /\ SocketOf(fd) /\ mail \in Seq(Message) /\ mail' \in Seq(Message)
      /\ (sock[fd] \in {"opening", "open"} => Held(fd) \/ tls[fd] = "shaking")
  BY HandledIs
<1>2. mail # <<>> /\ mail' = Tail(mail) /\ fd = Head(mail).fd /\ UNCHANGED <<sock, wire, eof, pool, cleanup, served>>
  BY DEF Handled
<1>3. /\ IsData(Head(mail), fd) /\ Head(mail).data \in Seq(Token) /\ ~SilentIn(mail, fd) /\ ~Calm(fd)
      /\ sock[fd] # "none" /\ handler[fd] # "connecting" /\ \A x : ~Asked(fd, x)
  BY DataIs
<1>4. PICK b \in Seq(Token) : b = buf[fd] \o Head(mail).data
  <2>1. buf[fd] \in Seq(Token)
    BY <1>1 DEF NetTypes
  <2>2. buf[fd] \o Head(mail).data \in Seq(Token)
    BY <1>3, <2>1, Joined
  <2> QED BY <2>2
<1>5. /\ buf' \in [Fd -> Seq(Token)] /\ buf'[fd] = b /\ \A g \in Fd \ {fd} : buf'[g] = buf[g]
  BY <1>1, <1>4 DEF Feeds, NetTypes
<1>6. HandleMoves(fd)
  <2>1. NetTypes'
    BY <1>1, <1>2, <1>5 DEF NetTypes
  <2> QED BY <1>1, <1>2, <1>5, <2>1 DEF HandleMoves, HttpTypes
<1>7. /\ \A q, g : Holds(q, g)' <=> Holds(q, g)
      /\ \A g : InPool(g)' <=> InPool(g)
      /\ Held(fd)' <=> Held(fd)
  BY <1>2 DEF InPool, Holds, Held
<1>8. SocketOf(fd)'
  <2>1. (SilentIn(mail, fd) => SilentIn(mail', fd))
    BY HandledIs
  <2> QED BY <1>1, <1>2, <1>3, <1>7, <2>1 DEF SocketOf
<1>9. Sent'
  <2>1. \A q \in Task, g \in Fd : Waits(q, g)' => Waits(q, g)
    BY DEF Waits
  <2> QED BY <1>2, <2>1, SentDrops
<1>10. ASSUME NEW R \in Seq(Token), NEW c \in Nat, Coming(fd, R, c) PROVE Coming(fd, R, c)'
  <2>1. PICK w \in Seq(Token) : w = wire[fd]
    BY <1>1 DEF NetTypes
  <2>2. PICK b0 \in Seq(Token) : b0 = buf[fd]
    BY <1>1 DEF NetTypes
  <2>3. Flow(fd, R, c, b0, mail, w)
    BY <1>10, <2>1, <2>2 DEF Coming
  <2>4. Flow(fd, R, c, b0 \o Head(mail).data, Tail(mail), w)
    BY <1>1, <1>2, <1>3, <2>3, FlowFeeds
  <2>5. Flow(fd, R, c, b, Tail(mail), w)
    BY <1>4, <2>2, <2>4
  <2> QED BY <1>2, <1>5, <2>1, <2>5 DEF Coming
<1>11. StillComing(fd)
  BY <1>2, <1>3, <1>10 DEF StillComing
<1>12. ASSUME NEW q \in Task, Holds(q, fd)' PROVE CarriesOf(q, fd)'
  BY <1>7, <1>11, <1>12, CarriesSame
<1>13. InPool(fd) => PoolOf(fd)'
  BY <1>11, PoolSame
<1> QED BY <1>1, <1>3, <1>6, <1>7, <1>8, <1>9, <1>12, <1>13, HandleKeeps
\* The record that ends the handshake is all there is.
LEMMA RecordIs ==
    ASSUME HttpInv, NEW fd \in Fd, Handled(fd), Head(mail).type = "DATA",
           NEW q \in Task, Holds(q, fd), task[q].pc = "handshake"
    PROVE  /\ buf[fd] = <<>> /\ wire[fd] = <<>> /\ inbox[fd] = <<>> /\ SilentIn(mail', fd)
           /\ Tail(Head(mail).data) = <<>>
<1>1. NetTypes /\ mail \in Seq(Message) /\ mail' \in Seq(Message) /\ CarriesOf(q, fd)
  BY HandledIs
<1>2. mail # <<>> /\ mail' = Tail(mail)
  BY DEF Handled
<1>3. IsData(Head(mail), fd) /\ Head(mail).data \in Seq(Token) /\ \A x : ~Asked(fd, x)
  BY DataIs
<1>4. inbox[fd] = <<>> /\ \E R \in Records : Coming(fd, R, 0)
  BY <1>1, <1>3 DEF CarriesOf
<1>5. PICK R \in Records : Coming(fd, R, 0)
  BY <1>4
<1>6. R \in Seq(Token) /\ Len(R) = 1
  BY Tokens
<1>7. PICK w \in Seq(Token) : w = wire[fd]
  BY <1>1 DEF NetTypes
<1>8. PICK b \in Seq(Token) : b = buf[fd]
  BY <1>1 DEF NetTypes
<1>9. PICK d \in Seq(Token) : d = Head(mail).data
  BY <1>3
<1>10. PICK c \in Nat : c = 0
  OBVIOUS
<1>11. Flow(fd, R, c, b, mail, w)
  BY <1>5, <1>7, <1>8, <1>10 DEF Coming
<1>12. Flow(fd, R, c, b \o d, mail', w) /\ d # <<>> /\ c + Len(b) + Len(d) <= Len(R)
  <2>1. PICK m0 \in Seq(Message) : m0 = mail
    BY <1>1
  <2>2. /\ Flow(fd, R, c, b \o Head(m0).data, Tail(m0), w)
        /\ Head(m0).data # <<>> /\ c + Len(b) + Len(Head(m0).data) <= Len(R)
    <3>1. m0 # <<>> /\ IsData(Head(m0), fd) /\ Flow(fd, R, c, b, m0, w)
      BY <1>2, <1>3, <1>11, <2>1
    <3>2. Flow(fd, R, c, b \o Head(m0).data, Tail(m0), w)
      BY <1>6, <3>1, FlowFeeds
    <3>3. Head(m0).data # <<>>
      <4>1. PICK e \in [0 .. Len(m0) -> 0 .. Len(R)] : FlowBy(e, fd, R, c, b, m0, w)
        BY <3>1 DEF Flow
      <4>2. 1 \in DOMAIN m0 /\ m0[1] = Head(m0)
        BY <3>1, MailShrinks
      <4>3. IsData(m0[1], fd)
        BY <3>1, <4>2
      <4>4. m0[1].data # <<>>
        BY <4>1, <4>2, <4>3 DEF FlowBy
      <4> QED BY <4>2, <4>4
    <3>4. c + Len(b) + Len(Head(m0).data) <= Len(R)
      BY <1>6, <3>1, FlowFeeds
    <3> QED BY <3>2, <3>3, <3>4
  <2>3. Head(m0).data = d /\ Tail(m0) = mail'
    BY <1>2, <1>9, <2>1
  <2> QED BY <2>2, <2>3
<1>13. Len(d) = 1 /\ Len(b) = 0
  BY <1>6, <1>10, <1>12
<1>14. PICK bd \in Seq(Token) : bd = b \o d /\ Len(bd) = 1
  <2>1. b \o d \in Seq(Token) /\ Len(b \o d) = Len(b) + Len(d)
    BY Joined
  <2> QED BY <1>13, <2>1
<1>15. PICK m \in Seq(Message) : m = mail'
  BY <1>1
<1>16. Flow(fd, R, c, bd, m, w) /\ 1 \in 0 .. Len(bd)
  BY <1>12, <1>14, <1>15
<1>17. Flow(fd, R, c + 1, SubSeq(bd, 1 + 1, Len(bd)), m, w)
  BY <1>6, <1>16, FlowTaken
<1>18. SubSeq(bd, 1 + 1, Len(bd)) \in Seq(Token) /\ c + 1 \in Nat /\ c + 1 = Len(R)
  BY <1>6, <1>10, <1>14
<1>19. w = <<>> /\ SilentIn(m, fd)
  BY <1>6, <1>17, <1>18, FlowDone
<1>20. Tail(d) = <<>> /\ b = <<>>
  <2>1. d # <<>> /\ Len(d) <= 1
    BY <1>12, <1>13
  <2>2. Tail(d) = <<>>
    BY <2>1, Single
  <2> QED BY <1>13, <2>2
<1> QED BY <1>4, <1>7, <1>8, <1>9, <1>15, <1>19, <1>20
\* The one request that holds fd moves.
OneMoves(q, pc) ==
    /\ task' \in [Task -> Request] /\ task'[q].pc = pc /\ task'[q].fd = task[q].fd
    /\ task'[q].key = task[q].key /\ task'[q].kind = task[q].kind /\ task'[q].body = task[q].body
    /\ \A p \in Task \ {q} : task'[p] = task[p]
LEMMA GoesMoves ==
    ASSUME HttpInv, NEW q \in Task, NEW pc \in {"handshake", "head", "failed"}, Goes(q, pc)
    PROVE  OneMoves(q, pc)
<1>1. task \in [Task -> Request]
  BY DEF HttpInv, HttpTypes
<1>2. PICK t \in Request : t = task[q]
  BY <1>1
<1>3. [t EXCEPT !.pc = pc] \in Request
  BY DEF Request, Pc
<1>4. /\ [t EXCEPT !.pc = pc].pc = pc /\ [t EXCEPT !.pc = pc].fd = t.fd /\ [t EXCEPT !.pc = pc].key = t.key
      /\ [t EXCEPT !.pc = pc].kind = t.kind /\ [t EXCEPT !.pc = pc].body = t.body
  BY DEF Request
<1>5. task' = [task EXCEPT ![q] = [t EXCEPT !.pc = pc]]
  BY <1>2 DEF Goes
<1>6. task'[q] = [t EXCEPT !.pc = pc] /\ \A p \in Task \ {q} : task'[p] = task[p]
  BY <1>1, <1>5
<1>7. task' \in [Task -> Request]
  BY <1>1, <1>3, <1>5
<1> QED BY <1>2, <1>4, <1>6, <1>7 DEF OneMoves
LEMMA HandshakeBreaksKeeps ==
    ASSUME HttpInv, NEW fd \in Fd, Handled(fd), Head(mail).type = "DATA",
           NEW q \in Task, Holds(q, fd), task[q].pc = "handshake", Goes(q, "failed"),
           UNCHANGED <<buf, tls, inbox, handler, rclosed>>
    PROVE  HttpInv'
<1>1. /\ HttpTypes /\ NetTypes /\ SocketOf(fd) /\ mail' \in Seq(Message)
      /\ CarriesOf(q, fd) /\ ~InPool(fd) /\ \A p \in Task : Holds(p, fd) => p = q
  BY HandledIs
<1>2. mail # <<>> /\ mail' = Tail(mail) /\ fd = Head(mail).fd /\ UNCHANGED <<sock, wire, eof, pool, cleanup, served>>
  BY DEF Handled
<1>3. buf[fd] = <<>> /\ wire[fd] = <<>> /\ inbox[fd] = <<>> /\ SilentIn(mail', fd)
  BY RecordIs
<1>4. OneMoves(q, "failed")
  BY GoesMoves
<1>5. HandleMoves(fd)
  <2>1. NetTypes'
    BY <1>1, <1>2 DEF NetTypes
  <2>2. \A p \in Task : \/ task'[p] = task[p]
                        \/ /\ Holds(p, fd) /\ task'[p].fd = fd
                           /\ task'[p].key = task[p].key /\ task'[p].kind = task[p].kind
                           /\ task'[p].pc \in {"handshake", "head", "failed"}
    BY <1>4 DEF OneMoves, Holds
  <2>3. task' \in [Task -> Request]
    BY <1>4 DEF OneMoves
  <2> QED BY <1>2, <2>1, <2>2, <2>3 DEF HandleMoves
<1>6. \A p \in Task : ~Holds(p, fd)'
  <2>1. ~Holds(q, fd)'
    BY <1>4 DEF OneMoves, Holds, Active
  <2>2. \A p \in Task \ {q} : Holds(p, fd)' => Holds(p, fd)
    BY <1>4 DEF OneMoves, Holds
  <2> QED BY <1>1, <2>1, <2>2
<1>7. ~InPool(fd)' /\ ~Held(fd)'
  BY <1>1, <1>2, <1>6 DEF InPool, Held
<1>8. tls[fd] = "shaking" /\ handler[fd] # "connecting" /\ sock[fd] # "none"
  BY <1>1, DataIs DEF CarriesOf
<1>9. SocketOf(fd)'
  <2>1. Calm(fd)'
    BY <1>2, <1>3 DEF Calm
  <2> QED BY <1>1, <1>2, <1>3, <1>7, <1>8, <2>1 DEF SocketOf
<1>10. Sent'
  <2>1. Tells(fd, Hello) /\ Hello \in 0 .. MaxTask
    BY Limits DEF Tells, Hello
  <2>2. served' = served /\ task[q].fd = fd
    BY <1>2 DEF Holds
  <2> QED BY <2>1, <2>2, SentMoves
<1> QED BY <1>1, <1>5, <1>6, <1>8, <1>9, <1>10, HandleKeeps
LEMMA HandshakeEndsKeeps ==
    ASSUME HttpInv, NEW fd \in Fd, Handled(fd), Head(mail).type = "DATA",
           NEW q \in Task, Holds(q, fd), task[q].pc = "handshake", Goes(q, "head"), Sends(q, fd),
           Feeds(fd, Tail(Head(mail).data)), tls' = [tls EXCEPT ![fd] = "on"], UNCHANGED <<handler, rclosed>>
    PROVE  HttpInv'
<1>1. /\ HttpTypes /\ NetTypes /\ SocketOf(fd) /\ mail' \in Seq(Message)
      /\ CarriesOf(q, fd) /\ ~InPool(fd) /\ \A p \in Task : Holds(p, fd) => p = q
  BY HandledIs
<1>2. mail # <<>> /\ mail' = Tail(mail) /\ fd = Head(mail).fd /\ UNCHANGED <<sock, wire, eof, pool, cleanup, served>>
  BY DEF Handled
<1>3. buf[fd] = <<>> /\ wire[fd] = <<>> /\ inbox[fd] = <<>> /\ SilentIn(mail', fd)
      /\ Tail(Head(mail).data) = <<>>
  BY RecordIs
<1>4. OneMoves(q, "head") /\ task[q].body = <<>> /\ task[q].fd = fd
  BY <1>1, GoesMoves DEF CarriesOf, Holds
<1>5. tls[fd] = "shaking" /\ handler[fd] # "connecting" /\ sock[fd] # "none"
  BY <1>1, DataIs DEF CarriesOf
<1>6. buf' \in [Fd -> Seq(Token)] /\ buf'[fd] = <<>> /\ \A g \in Fd \ {fd} : buf'[g] = buf[g]
  <2>1. PICK b \in Seq(Token) : b = buf[fd]
    BY <1>1 DEF NetTypes
  <2>2. b \o b = b
    BY <1>3, <2>1
  <2>3. Tail(Head(mail).data) = b /\ buf[fd] = b
    BY <1>3, <2>1
  <2>4. buf[fd] \o Tail(Head(mail).data) = b
    BY <2>2, <2>3
  <2>5. buf' = [buf EXCEPT ![fd] = b]
    BY <2>4 DEF Feeds
  <2> QED BY <1>1, <1>3, <2>1, <2>5 DEF NetTypes
<1>7. Tells(fd, q) /\ q \in 0 .. MaxTask
  <2>1. q \in 0 .. MaxTask
    BY Limits DEF Task
  <2> QED BY <1>3, <2>1 DEF Sends, Writes, Tells
<1>8. /\ inbox' \in [Fd -> Seq(0 .. MaxTask)] /\ \A g \in Fd \ {fd} : inbox'[g] = inbox[g]
      /\ inbox'[fd] = <<>> \/ inbox'[fd] = <<q>>
  <2>1. inbox \in [Fd -> Seq(0 .. MaxTask)] /\ inbox[fd] = <<>>
    BY <1>1, <1>3 DEF NetTypes
  <2>2. PICK w \in Seq(0 .. MaxTask) : w = <<q>>
    BY <1>7, Told
  <2>3. inbox' = inbox \/ inbox' = [inbox EXCEPT ![fd] = w]
    BY <1>7, <2>2 DEF Tells
  <2>4. CASE inbox' = inbox
    BY <2>1, <2>4
  <2>5. CASE inbox' = [inbox EXCEPT ![fd] = w]
    BY <2>1, <2>2, <2>5
  <2> QED BY <2>3, <2>4, <2>5
<1>9. /\ tls'[fd] = "on" /\ \A g \in Fd \ {fd} : tls'[g] = tls[g]
      /\ tls' \in [Fd -> {"plain", "shaking", "on"}]
  BY <1>1 DEF NetTypes
<1>10. NetTypes'
  BY <1>1, <1>2, <1>6, <1>8, <1>9 DEF NetTypes
<1>11. HandleMoves(fd)
  <2>2. \A p \in Task : \/ task'[p] = task[p]
                        \/ /\ Holds(p, fd) /\ task'[p].fd = fd
                           /\ task'[p].key = task[p].key /\ task'[p].kind = task[p].kind
                           /\ task'[p].pc \in {"handshake", "head", "failed"}
    BY <1>4 DEF OneMoves, Holds
  <2>3. task' \in [Task -> Request]
    BY <1>4 DEF OneMoves
  <2> QED BY <1>2, <1>6, <1>8, <1>9, <1>10, <2>2, <2>3 DEF HandleMoves
<1>12. Holds(q, fd)' /\ Held(fd)' /\ Held(fd) /\ \A p \in Task : Holds(p, fd)' => p = q
  <2>1. Holds(q, fd)'
    BY <1>4 DEF Holds, Active, OneMoves
  <2>2. \A p \in Task \ {q} : Holds(p, fd)' => Holds(p, fd)
    BY <1>4 DEF OneMoves, Holds
  <2> QED BY <1>1, <2>1, <2>2 DEF Held
<1>13. Len(inbox'[fd]) <= 1
  BY <1>7, <1>8, Told
<1>14. SocketOf(fd)'
  BY <1>1, <1>2, <1>3, <1>5, <1>9, <1>12, <1>13 DEF SocketOf
<1>15. Sent'
  <2>1. served' = served /\ task[q].fd = fd
    BY <1>2 DEF Holds
  <2> QED BY <1>7, <2>1, SentMoves
<1>16. CarriesOf(q, fd)'
  <2>1. buf'[fd] = <<>> /\ wire'[fd] = <<>> /\ SilentIn(mail', fd) /\ handler'[fd] # "connecting"
    BY <1>2, <1>3, <1>5, <1>6
  <2>2. task'[q].pc = "head" /\ tls'[fd] # "shaking" /\ (inbox'[fd] = <<>> \/ inbox'[fd] = <<q>>)
        /\ task'[q].body = <<>>
    BY <1>4, <1>8, <1>9 DEF OneMoves
  <2> QED BY <1>10, <2>1, <2>2, AsksCarries
<1> QED BY <1>1, <1>11, <1>12, <1>14, <1>15, <1>16, HandleKeeps
LEMMA DataKeeps ==
    ASSUME HttpInv, NEW fd \in Fd, Handled(fd), Head(mail).type = "DATA", OnData(fd, Head(mail).data),
           \/ Owner(fd, {"handshake"}) = {} /\ UNCHANGED <<inbox, task>>
           \/ \E q \in Owner(fd, {"handshake"}) :
                 IF HandshakeFails(fd, Head(mail).data) THEN Goes(q, "failed") /\ UNCHANGED inbox
                 ELSE Goes(q, "head") /\ Sends(q, fd),
           UNCHANGED <<sock, handler, rclosed>>
    PROVE  HttpInv'
<1>1. \A q \in Task : Holds(q, fd) => (task[q].pc = "handshake" <=> tls[fd] = "shaking")
  BY HandledIs DEF CarriesOf
<1>2. /\ IsData(Head(mail), fd) /\ handler[fd] # "connecting" /\ (handler[fd] = "none" => ~Held(fd))
      /\ (tls[fd] = "shaking" => \E q \in Task : Holds(q, fd))
  BY DataIs
<1>3. /\ \A q \in Owner(fd, {"handshake"}) : q \in Task /\ Holds(q, fd) /\ task[q].pc = "handshake"
      /\ \A q \in Task : Holds(q, fd) /\ task[q].pc = "handshake" => q \in Owner(fd, {"handshake"})
  BY DEF Owner, Holds, Active
<1>4. handler[fd] \in {"none", "connecting", "reader"}
  BY HandledIs DEF NetTypes
<1>5. CASE handler[fd] = "none"
  <2>1. Owner(fd, {"handshake"}) = {}
    BY <1>2, <1>3, <1>5 DEF Held
  <2>2. UNCHANGED <<inbox, task, buf, tls>>
    BY <1>5, <2>1 DEF OnData
  <2> QED BY <1>2, <1>5, <2>2, IgnoresKeeps
<1>6. CASE handler[fd] = "reader" /\ tls[fd] # "shaking"
  <2>1. Owner(fd, {"handshake"}) = {}
    BY <1>1, <1>3, <1>6
  <2>2. UNCHANGED <<inbox, task, tls>> /\ Feeds(fd, Head(mail).data)
    BY <1>6, <2>1 DEF OnData
  <2> QED BY <1>6, <2>2, FeedsKeeps
<1>7. CASE handler[fd] = "reader" /\ tls[fd] = "shaking"
  <2>1. Owner(fd, {"handshake"}) # {}
    BY <1>1, <1>2, <1>3, <1>7
  <2>2. PICK q \in Owner(fd, {"handshake"}) :
                 IF HandshakeFails(fd, Head(mail).data) THEN Goes(q, "failed") /\ UNCHANGED inbox
                 ELSE Goes(q, "head") /\ Sends(q, fd)
    BY <2>1
  <2>3. q \in Task /\ Holds(q, fd) /\ task[q].pc = "handshake"
    BY <1>3
  <2>4. CASE Head(Head(mail).data).k = "bad"
    <3>1. UNCHANGED <<buf, tls>>
      BY <1>7, <2>4 DEF OnData
    <3>2. Goes(q, "failed") /\ UNCHANGED inbox
      BY <1>7, <2>2, <2>4 DEF HandshakeFails
    <3> QED BY <2>3, <3>1, <3>2, HandshakeBreaksKeeps
  <2>5. CASE Head(Head(mail).data).k # "bad"
    <3>1. Feeds(fd, Tail(Head(mail).data)) /\ tls' = [tls EXCEPT ![fd] = "on"]
      BY <1>7, <2>5 DEF OnData
    <3>2. Goes(q, "head") /\ Sends(q, fd)
      BY <2>2, <2>5 DEF HandshakeFails
    <3> QED BY <2>3, <3>1, <3>2, HandshakeEndsKeeps
  <2> QED BY <2>4, <2>5
<1> QED BY <1>2, <1>4, <1>5, <1>6, <1>7
ConnectsTo(fd, q) ==
    /\ Reads(fd) /\ Upgrades(fd, task[q].key = "https")
    /\ Writes(fd, IF task[q].key = "https" THEN Hello ELSE q)
    /\ Goes(q, IF task[q].key = "https" THEN "handshake" ELSE "head")
LEMMA ConnectsToKeeps ==
    ASSUME HttpInv, NEW fd \in Fd, Handled(fd), NEW q \in Owner(fd, {"connecting"}),
           handler[fd] = "connecting", ConnectsTo(fd, q), UNCHANGED <<buf, rclosed>>
    PROVE  HttpInv'
<1>1. q \in Task /\ task[q].pc = "connecting" /\ task[q].fd = fd
  BY DEF Owner
<1>2. handler' = [handler EXCEPT ![fd] = "reader"]
  BY DEF ConnectsTo, Reads
<1>3. q \in 0 .. MaxTask /\ Hello \in 0 .. MaxTask
  BY <1>1, Limits DEF Task, Hello
<1>4. CASE task[q].key = "https"
  <2>1. Goes(q, "handshake") /\ Writes(fd, Hello)
    BY <1>4 DEF ConnectsTo
  <2>2. Upgrades(fd, "handshake" = "handshake")
    BY <1>4 DEF ConnectsTo, Upgrades
  <2> QED BY <1>1, <1>2, <1>3, <2>1, <2>2, ConnectKeeps
<1>5. CASE task[q].key # "https"
  <2>1. Goes(q, "head") /\ Writes(fd, q)
    BY <1>5 DEF ConnectsTo
  <2>2. Upgrades(fd, "head" = "handshake")
    BY <1>5 DEF ConnectsTo, Upgrades
  <2> QED BY <1>1, <1>2, <1>3, <2>1, <2>2, ConnectKeeps
<1> QED BY <1>4, <1>5
LEMMA HandleStepKeeps ==
    ASSUME HttpInv, Handle
    PROVE  HttpInv'
<1>1. mail \in Seq(Message) /\ mail # <<>>
  BY DEF HttpInv, HttpTypes, NetTypes, Handle
<1>2. Head(mail) \in Message
  BY <1>1, MailShrinks
<1>3. PICK fd \in Fd : fd = Head(mail).fd
  BY <1>2 DEF Message
<1>4. Handled(fd)
  BY <1>1, <1>3 DEF Handle, Handled, Event
<1>5. CASE Head(mail).type = "CONNECT"
  <2>1. UNCHANGED <<buf, rclosed>>
    BY <1>5 DEF Handle, Event
  <2>2. \/ handler[fd] = "connecting" /\ \E q \in Owner(fd, {"connecting"}) : ConnectsTo(fd, q)
        \/ UNCHANGED <<handler, tls, inbox, task>>
    BY <1>3, <1>5 DEF Handle, Event, ConnectsTo
  <2>3. ~IsData(Head(mail), fd)
    BY <1>5 DEF IsData
  <2>4. CASE UNCHANGED <<handler, tls, inbox, task>>
    BY <1>4, <2>1, <2>3, <2>4, IgnoresKeeps
  <2>5. CASE handler[fd] = "connecting" /\ \E q \in Owner(fd, {"connecting"}) : ConnectsTo(fd, q)
    BY <1>4, <2>1, <2>5, ConnectsToKeeps
  <2> QED BY <2>2, <2>4, <2>5
<1>6. CASE Head(mail).type = "DATA"
  <2>1. OnData(fd, Head(mail).data) /\ UNCHANGED <<sock, handler, rclosed>>
    BY <1>3, <1>6 DEF Handle, Event
  <2>2. \/ Owner(fd, {"handshake"}) = {} /\ UNCHANGED <<inbox, task>>
        \/ \E q \in Owner(fd, {"handshake"}) :
              IF HandshakeFails(fd, Head(mail).data) THEN Goes(q, "failed") /\ UNCHANGED inbox
              ELSE Goes(q, "head") /\ Sends(q, fd)
    BY <1>3, <1>6 DEF Handle, Event
  <2> QED BY <1>4, <1>6, <2>1, <2>2, DataKeeps
<1>7. CASE Head(mail).type \in {"CLOSE", "ERROR"}
  <2>1. OnEnd(fd) /\ UNCHANGED <<sock, buf, tls, inbox>>
    BY <1>3, <1>7 DEF Handle, Event
  <2>2. task' = [q \in Task |-> IF handler[fd] = "connecting" /\ q \in Owner(fd, {"connecting"})
                                THEN [task[q] EXCEPT !.pc = "failed"] ELSE task[q]]
    BY <1>3, <1>7 DEF Handle, Event
  <2>3. CASE handler[fd] = "connecting"
    <3>1. task' = [q \in Task |-> IF q \in Owner(fd, {"connecting"})
                                  THEN [task[q] EXCEPT !.pc = "failed"] ELSE task[q]]
      BY <2>2, <2>3
    <3> QED BY <1>4, <1>7, <2>1, <2>3, <3>1, ConnectEndKeeps
  <2>4. CASE handler[fd] # "connecting"
    <3>1. task' = task
      BY <2>2, <2>4 DEF HttpInv, HttpTypes
    <3> QED BY <1>4, <1>7, <2>1, <2>4, <3>1, ReaderEndKeeps
  <2> QED BY <2>3, <2>4
<1> QED BY <1>2, <1>5, <1>6, <1>7 DEF Message
-----------------------------------------------------------------------------
LEMMA HttpInitInv == HttpInit => HttpInv
<1> SUFFICES ASSUME HttpInit PROVE HttpInv
  OBVIOUS
<1> USE DEF HttpInit, NetInit
<1>1. PICK none : none = <<>>
  OBVIOUS
<1>2. \A T : none \in Seq(T)
  BY <1>1
<1>3. Len(none) = 0 /\ DOMAIN none = {} /\ Range(none) = {}
  BY <1>1 DEF Range
<1>4. /\ \A fd \in Fd : buf[fd] = none /\ wire[fd] = none /\ inbox[fd] = none
      /\ \A q \in Task : served[q] = none /\ task[q].body = none /\ task[q].pc = "idle" /\ ~task[q].fromPool
      /\ \A key \in Key : pool[key] = none
      /\ mail = none
  BY <1>1
<1>5. \A fd \in Fd : /\ sock[fd] = "none" /\ handler[fd] = "none" /\ tls[fd] = "plain"
                     /\ ~rclosed[fd]
  OBVIOUS
<1>6. NetTypes
  <2>1. buf \in [Fd -> Seq(Token)]
    BY <1>2, <1>4
  <2>2. wire \in [Fd -> Seq(Token)] /\ mail \in Seq(Message)
    BY <1>2, <1>4
  <2>3. inbox \in [Fd -> Seq(0 .. MaxTask)]
    BY <1>2, <1>4
  <2>4. sock \in [Fd -> {"none", "opening", "open", "shut", "gone"}]
        /\ handler \in [Fd -> {"none", "connecting", "reader"}] /\ eof \in [Fd -> BOOLEAN]
    OBVIOUS
  <2>5. rclosed \in [Fd -> BOOLEAN] /\ tls \in [Fd -> {"plain", "shaking", "on"}]
    OBVIOUS
  <2> QED BY <2>1, <2>2, <2>3, <2>4, <2>5 DEF NetTypes
<1>7. HttpTypes
  <2>1. NoHead \in HeadToken /\ NoHead \in HeadRead
    BY Limits DEF NoHead, HeadToken, HeadRead, Mode
  <2>2. 0 \in 0 .. MaxFd
    BY NetAssumption
  <2>3. ASSUME NEW q \in Task PROVE task[q] \in Request
    <3>1. task[q] = [pc |-> "idle", kind |-> "none", key |-> "none", fd |-> 0, fromPool |-> FALSE,
                     before |-> NoHead, head |-> NoHead, body |-> none]
      BY <1>1
    <3>2. none \in Seq(Token)
      BY <1>2
    <3> QED BY <2>1, <2>2, <3>1, <3>2 DEF Request, Pc
  <2>4. task \in [Task -> Request]
    BY <2>3
  <2>5. pool \in [Key -> Seq(Conn)] /\ served \in [Task -> Seq(Fd)]
    BY <1>2, <1>4
  <2>6. cleanup \in BOOLEAN
    OBVIOUS
  <2>7. \A q \in Task : task[q].pc \notin Active
    BY <1>4 DEF Active
  <2> QED BY <1>6, <2>4, <2>5, <2>6, <2>7 DEF HttpTypes
<1>8. (\A q \in Task, fd \in Fd : ~Holds(q, fd)) /\ (\A fd \in Fd : ~InPool(fd) /\ ~Held(fd))
  BY <1>3, <1>4 DEF Holds, Active, InPool, Held
<1>9. Alone /\ Owned /\ Carries
  BY <1>5, <1>8 DEF Alone, Owned, Carries
<1>10. PoolOnce
  BY <1>3, <1>4, Limits DEF PoolOnce
<1>11. Sockets
  <2>1. ASSUME NEW fd \in Fd PROVE SocketOf(fd) /\ EndsLast(fd)
    <3>1. SilentIn(mail, fd) /\ EndsLast(fd)
      BY <1>3, <1>4 DEF SilentIn, EndsLast
    <3>2. Calm(fd)
      BY <1>1, <1>4, <3>1 DEF Calm
    <3>3. NotServed(fd)
      BY <1>3, <1>4 DEF NotServed
    <3>4. Len(inbox[fd]) <= 1
      BY <1>3, <1>4
    <3> QED BY <1>5, <1>8, <3>1, <3>2, <3>3, <3>4 DEF SocketOf
  <2> QED BY <2>1 DEF Sockets
<1>12. Sent
  <2>1. ASSUME NEW q \in Task PROVE SentOf(q)
    <3>1. \A fd \in Fd : ~On(q, fd) /\ ~Waits(q, fd)
      BY <1>3, <1>4 DEF On, Waits
    <3>2. task[q].body = <<>> /\ task[q].before = NoHead
      BY <1>1, <1>4
    <3> QED BY <1>3, <1>4, <3>1, <3>2 DEF SentOf
  <2> QED BY <2>1 DEF Sent
<1>13. Answers
  BY <1>4 DEF Answers, AnswerOf
<1> QED BY <1>7, <1>9, <1>10, <1>11, <1>12, <1>13 DEF HttpInv
LEMMA HttpSameInv ==
    ASSUME HttpInv, UNCHANGED httpVars
    PROVE  HttpInv'
<1> USE DEF httpVars, netVars, socketVars, peerVars, clientVars
<1>1. NetTypes' <=> NetTypes
  BY DEF NetTypes
<1>2. HttpTypes'
  BY <1>1 DEF HttpInv, HttpTypes
<1>3. /\ \A q, fd : Holds(q, fd)' <=> Holds(q, fd)
      /\ \A fd : InPool(fd)' <=> InPool(fd)
      /\ \A fd : Held(fd)' <=> Held(fd)
  BY DEF Holds, InPool, Held
<1>4. Alone' /\ PoolOnce' /\ Owned'
  BY <1>3 DEF HttpInv, Alone, PoolOnce, Owned
<1>5. Sockets'
  <2>1. ASSUME NEW fd \in Fd PROVE SocketOf(fd)' /\ EndsLast(fd)'
    <3>1. SocketOf(fd) /\ EndsLast(fd)
      BY DEF HttpInv, Sockets
    <3>2. (Calm(fd)' <=> Calm(fd)) /\ (NotServed(fd)' <=> NotServed(fd))
      BY DEF Calm, NotServed
    <3> QED BY <1>3, <3>1, <3>2 DEF SocketOf, EndsLast
  <2> QED BY <2>1 DEF Sockets
<1>6. Carries'
  <2>1. ASSUME NEW fd \in Fd PROVE StillComing(fd)
    BY DEF StillComing, Calm, Asked, Coming
  <2>2. ASSUME NEW q \in Task, NEW fd \in Fd, Holds(q, fd)' PROVE CarriesOf(q, fd)'
    BY <1>3, <2>1, <2>2, CarriesSame
  <2>3. ASSUME NEW fd \in Fd, InPool(fd)' PROVE PoolOf(fd)'
    BY <1>3, <2>1, <2>3, PoolSame
  <2> QED BY <2>2, <2>3 DEF Carries
<1>7. Sent'
  <2>1. \A q \in Task, g \in Fd : Waits(q, g)' => Waits(q, g)
    BY DEF Waits
  <2> QED BY <2>1, SentDrops
<1>8. Answers'
  BY DEF HttpInv, Answers, AnswerOf
<1> QED BY <1>2, <1>4, <1>5, <1>6, <1>7, <1>8 DEF HttpInv
LEMMA FirstOf ==
    ASSUME NEW A, NEW B
    PROVE  \A c \in A \X B : c[1] \in A
OBVIOUS
\* How requests may be made.
LEMMA CallIs ==
    ASSUME NEW q \in Task, NEW call \in Calls[q]
    PROVE  /\ call[1] \in {"request", "head", "stream"}
           /\ Protocol(call[2]) \in DefaultPort => Protocol(call[2]) \in Key
<1> DEFINE Kinds == {"request", "head", "stream"}
           Protocols == {"", "http", "https", "ftp"}
           Pairs == Kinds \X Protocols
<1>1. q \in 1 .. MaxTask
  BY DEF Task
<1>2. Calls \in [1 .. MaxTask -> SUBSET Pairs]
  BY HttpAssumption, ZenonT(40)
<1>3. \A c \in Pairs : c[1] \in Kinds
  <2> HIDE DEF Kinds, Protocols
  <2>1. \A c \in Kinds \X Protocols : c[1] \in Kinds
    BY FirstOf, ZenonT(20)
  <2> QED BY <2>1
<1>4. \A p \in 1 .. MaxTask : \A c \in Calls[p] : Protocol(c[2]) \in Key \cup {"ftp"}
  BY HttpAssumption, ZenonT(40) DEF Protocol
<1> HIDE DEF Pairs, Kinds
<1>5. call[1] \in Kinds
  BY <1>1, <1>2, <1>3
<1>6. Protocol(call[2]) \in Key \cup {"ftp"}
  BY <1>1, <1>4
<1>7. "ftp" \notin DefaultPort
  BY DEF DefaultPort
<1> QED BY <1>5, <1>6, <1>7 DEF Kinds
LEMMA HttpNextInv ==
    ASSUME HttpInv, [HttpNext]_httpVars
    PROVE  HttpInv'
<1>1. CASE UNCHANGED httpVars
  BY <1>1, HttpSameInv
<1>2. ASSUME NEW q \in Task, Made(q), NEW call \in Calls[q], Start(q, call[1], Protocol(call[2]))
      PROVE  HttpInv'
  <2>1. Protocol(call[2]) \in DefaultPort
    BY <1>2 DEF Start
  <2>2. PICK kind \in {"request", "head", "stream"} : kind = call[1]
    BY CallIs
  <2>3. PICK key \in Key : key = Protocol(call[2])
    BY <2>1, CallIs
  <2>4. Start(q, kind, key)
    BY <1>2, <2>2, <2>3
  <2> QED BY <1>2, <2>4, StartKeeps
<1>3. ASSUME NEW q \in Task, Made(q), NEW call \in Calls[q], Throws(q, call[2]) PROVE HttpInv'
  BY <1>3, ThrowsKeeps
<1>4. ASSUME NEW q \in Task, StreamRead(q) \/ StreamClose(q) \/ Job(q) \/ ConnectTimeout(q) PROVE HttpInv'
  BY <1>4, StreamReadKeeps, StreamCloseKeeps, ReadHeadKeeps, ReadBodyKeeps, ConnectTimeoutKeeps DEF Job
<1>5. CASE Handle \/ Cleanup \/ CloseAllKeepalive
  BY <1>5, HandleStepKeeps, CleanupKeeps, CloseAllKeeps
<1>6. ASSUME NEW key \in Key, NEW i \in DOMAIN pool[key], Expire(key, i) PROVE HttpInv'
  BY <1>6, ExpireKeeps
<1>7. ASSUME NEW fd \in Fd, Serve(fd) \/ ServesGarbage(fd) \/ ServerCloses(fd) PROVE HttpInv'
  BY <1>7, ServeKeeps, GarbageKeeps, ServerClosesKeeps
<1>8. ASSUME NEW fd \in Fd, RefusedFault(fd) PROVE HttpInv'
  BY <1>8, ShutKeeps DEF RefusedFault
<1>9. ASSUME NEW fd \in Fd, NetStep(fd) PROVE HttpInv'
  BY <1>9, EstablishedKeeps, DeliverKeeps, ShutKeeps DEF NetStep, SocketSteps
<1>10. CASE HttpNext
  BY <1>2, <1>3, <1>4, <1>5, <1>6, <1>7, <1>8, <1>9, <1>10 DEF HttpNext
<1> QED BY <1>1, <1>10
\* Every state of the client is one of HttpInv, whose first part is its types.
THEOREM HttpAlways == HttpSpec => []HttpInv
<1>1. HttpInit => HttpInv
  BY HttpInitInv
<1>2. HttpInv /\ [HttpNext]_httpVars => HttpInv'
  BY HttpNextInv
<1> QED BY <1>1, <1>2, PTL DEF HttpSpec
-----------------------------------------------------------------------------
(* What follows from it.                                                    *)
LEMMA OneAtMost ==
    ASSUME NEW S, \A x, y \in S : x = y
    PROVE  Cardinality(S) = IF S = {} THEN 0 ELSE 1
<1>1. CASE S = {}
  BY <1>1, FS_EmptySet
<1>2. CASE S # {}
  <2>1. PICK x : S = {x}
    BY <1>2
  <2> QED BY <1>2, <2>1, FS_Singleton
<1> QED BY <1>1, <1>2
LEMMA OneOwner == HttpInv => ConnectionsOwned
<1> SUFFICES ASSUME HttpInv, NEW fd \in Fd
             PROVE  /\ Cardinality(Owner(fd, Active)) + Cardinality(Pooled(fd)) <= 1
                    /\ sock[fd] \in {"opening", "open"} =>
                          \/ Cardinality(Owner(fd, Active)) + Cardinality(Pooled(fd)) = 1
                          \/ tls[fd] = "shaking"
  BY DEF ConnectionsOwned
<1> DEFINE S == Owner(fd, Active)
           P == Pooled(fd)
<1>1. S = {q \in Task : Holds(q, fd)}
  BY DEF Owner, Holds
<1>2. \A x, y \in S : x = y
  BY <1>1 DEF HttpInv, Alone
<1>3. ASSUME NEW x \in P
      PROVE  /\ x = <<x[1], x[2]>> /\ x[1] \in Key /\ x[2] \in DOMAIN pool[x[1]]
             /\ pool[x[1]][x[2]].fd = fd
  <2>1. x \in Key \X (1 .. MaxPerHost) /\ x[2] <= Len(pool[x[1]]) /\ pool[x[1]][x[2]].fd = fd
    BY <1>3 DEF Pooled
  <2>2. x = <<x[1], x[2]>> /\ x[1] \in Key /\ x[2] \in 1 .. MaxPerHost
    BY <2>1
  <2>3. pool[x[1]] \in Seq(Conn)
    BY <2>2 DEF HttpInv, HttpTypes
  <2>4. x[2] \in DOMAIN pool[x[1]]
    BY <2>1, <2>2, <2>3, Limits
  <2> QED BY <2>1, <2>2, <2>4
<1>4. ASSUME NEW x \in P, NEW y \in P PROVE x = y
  <2>1. x[1] = y[1] /\ x[2] = y[2]
    BY <1>3 DEF HttpInv, PoolOnce
  <2> QED BY <1>3, <2>1
<1>5. S # {} => P = {}
  <2>1. P # {} => InPool(fd)
    BY <1>3 DEF InPool
  <2> QED BY <1>1, <2>1 DEF HttpInv, Alone
<1>6. InPool(fd) => P # {}
  <2>1. ASSUME InPool(fd) PROVE P # {}
    <3>1. PICK key \in Key : \E i \in DOMAIN pool[key] : pool[key][i].fd = fd
      BY <2>1 DEF InPool
    <3>2. PICK i \in DOMAIN pool[key] : pool[key][i].fd = fd
      BY <3>1
    <3>3. pool[key] \in Seq(Conn) /\ Len(pool[key]) <= MaxPerHost
      BY DEF HttpInv, HttpTypes, PoolOnce
    <3>4. i \in 1 .. MaxPerHost /\ i <= Len(pool[key])
      BY <3>2, <3>3, Limits
    <3>5. <<key, i>> \in Key \X (1 .. MaxPerHost)
      BY <3>4
    <3>6. <<key, i>> \in P
      BY <3>2, <3>4, <3>5 DEF Pooled
    <3> QED BY <3>6
  <2> QED BY <2>1
<1>7. sock[fd] \in {"opening", "open"} => S # {} \/ P # {} \/ tls[fd] = "shaking"
  BY <1>1, <1>6 DEF HttpInv, Owned, Held
<1> HIDE DEF S, P
<1>8. Cardinality(S) = IF S = {} THEN 0 ELSE 1
  BY <1>2, OneAtMost
<1>9. Cardinality(P) = IF P = {} THEN 0 ELSE 1
  BY <1>4, OneAtMost
<1>10. Cardinality(S) + Cardinality(P) <= 1
  BY <1>5, <1>8, <1>9
<1>11. S # {} \/ P # {} => Cardinality(S) + Cardinality(P) = 1
  BY <1>5, <1>8, <1>9
<1> QED BY <1>7, <1>10, <1>11 DEF S, P
\* A connection is in the pool once, or used by one request, never both, and
\* one that is open has such an owner, whatever is retried, evicted, timed out,
\* reset or closed in between.
THEOREM ConnectionsHaveOwners == HttpSpec => []ConnectionsOwned
BY HttpAlways, OneOwner, PTL
LEMMA OwnAnswers == HttpInv => OwnAnswer
BY DEF HttpInv, Answers, AnswerOf, OwnAnswer
\* A request gets what a server answered to it, on the connection it is on,
\* and all of it, on however many connections others' answers came before.
THEOREM AnswersAreOwn == HttpSpec => []OwnAnswer
BY HttpAlways, OwnAnswers, PTL
LEMMA TwiceAtMost == HttpInv => SentAtMostTwice
<1> SUFFICES ASSUME HttpInv, NEW q \in Task
             PROVE  /\ Len(served[q]) <= IF task[q].kind = "stream" THEN 1 ELSE 2
                    /\ Len(served[q]) = 2 =>
                          /\ served[q][1] # served[q][2]
                          /\ \E p \in Task \ {q} : Range(served[q]) \cap Range(served[p]) # {}
  BY DEF SentAtMostTwice
<1>1. PICK s \in Seq(Fd) : s = served[q]
  BY DEF HttpInv, HttpTypes
<1>2. SentOf(q)
  BY DEF HttpInv, Sent
<1>3. \A i, j \in DOMAIN s : s[i] = s[j] => i = j
  BY <1>1, <1>2 DEF SentOf
<1>4. \A i \in DOMAIN s : s[i] \in Fd /\ s[i] \in Range(s) /\ On(q, s[i])
  BY <1>1 DEF On, Range
<1>5. ASSUME NEW i \in DOMAIN s, s[i] # task[q].fd
      PROVE  /\ task[q].kind # "stream" /\ Carried(s[i], Task \ {q})
             /\ \A j \in DOMAIN s : s[j] # task[q].fd => j = i
  <2>1. task[q].kind # "stream" /\ Carried(s[i], Task \ {q})
        /\ \A g \in Fd : On(q, g) /\ g # task[q].fd => g = s[i]
    BY <1>2, <1>4, <1>5 DEF SentOf
  <2> QED BY <1>3, <1>4, <2>1
<1>6. \A i, j \in DOMAIN s : s[i] = task[q].fd /\ s[j] = task[q].fd => i = j
  BY <1>3
<1>7. Len(s) \in Nat /\ DOMAIN s = 1 .. Len(s)
  OBVIOUS
<1>8. Len(s) <= 2
  <2> SUFFICES ASSUME Len(s) > 2 PROVE FALSE
    BY <1>7
  <2>1. 1 \in DOMAIN s /\ 2 \in DOMAIN s /\ 3 \in DOMAIN s
    BY <1>7
  <2> QED BY <1>5, <1>6, <2>1
<1>9. Len(s) = 2 => /\ s[1] # s[2] /\ task[q].kind # "stream"
                    /\ \E i \in DOMAIN s : Carried(s[i], Task \ {q})
  <2> SUFFICES ASSUME Len(s) = 2
               PROVE  /\ s[1] # s[2] /\ task[q].kind # "stream"
                      /\ \E i \in DOMAIN s : Carried(s[i], Task \ {q})
    OBVIOUS
  <2>1. 1 \in DOMAIN s /\ 2 \in DOMAIN s /\ 1 # 2
    BY <1>7
  <2>2. s[1] # s[2]
    BY <1>3, <2>1
  <2>3. \E i \in DOMAIN s : s[i] # task[q].fd
    BY <2>1, <2>2
  <2> QED BY <1>5, <2>2, <2>3
<1>10. ASSUME NEW i \in DOMAIN s, Carried(s[i], Task \ {q})
       PROVE  \E p \in Task \ {q} : Range(s) \cap Range(served[p]) # {}
  BY <1>4, <1>10 DEF Carried
<1>11. task[q].kind = "stream" => Len(s) <= 1
  BY <1>7, <1>8, <1>9
<1>12. Len(s) <= IF task[q].kind = "stream" THEN 1 ELSE 2
  BY <1>8, <1>11
<1> QED BY <1>1, <1>9, <1>10, <1>12
\* A server handles a request once; twice only when one of its connections had
\* carried another request, and never one that is streamed.
THEOREM SentTwiceAtMost == HttpSpec => []SentAtMostTwice
BY HttpAlways, TwiceAtMost, PTL
=============================================================================

---------------------------- MODULE StreamProofs ----------------------------
(***************************************************************************)
(* What the streams deliver, for every source, size, stage and failure.    *)
(*                                                                         *)
(* PipelineDelivers, from where the chunks stand between the producer and  *)
(* the last stage.  Read from the last stage back, what arrived, what each *)
(* stage has queued and what it holds for the next one are adjacent pieces *)
(* of 1, 2, 3, ...                                                         *)
(*                                                                         *)
(* PipeDelivers, from what the pipe has in its hands: what its reads gave  *)
(* it is what its writes gave the sink, but for a chunk it holds or a      *)
(* write that has not begun.                                               *)
(*                                                                         *)
(* ReadableKeepsBytes, from maps that take every byte of the queue, of a   *)
(* reader's hands and of what was returned to one byte of the source, one  *)
(* to one, and from what is left of the source while no two reads met.     *)
(***************************************************************************)
EXTENDS StreamProperties, FiniteSetTheorems, FunctionTheorems, SequenceTheorems,
        WellFoundedInduction, TLAPS

\* The chunks after the x first ones, up to chunk y.
Upto(x, y) == [n \in 1 .. y - x |-> x + n]

LEMMA UptoSeq ==
    ASSUME NEW x \in Nat, NEW y \in Nat, x <= y
    PROVE  /\ Upto(x, y) \in Seq(Nat) /\ Len(Upto(x, y)) = y - x
           /\ \A n \in 1 .. y - x : Upto(x, y)[n] = x + n
<1>1. y - x \in Nat /\ \A n \in 1 .. y - x : x + n \in Nat
  OBVIOUS
<1>2. Upto(x, y) \in [1 .. y - x -> Nat]
  BY <1>1 DEF Upto
<1>3. Upto(x, y) \in Seq(Nat)
  BY <1>1, <1>2, SeqDef
<1>4. DOMAIN Upto(x, y) = 1 .. y - x /\ DOMAIN Upto(x, y) = 1 .. Len(Upto(x, y))
  BY <1>2, <1>3, LenProperties
<1>5. Len(Upto(x, y)) \in Nat
  BY <1>3, LenProperties
<1> QED BY <1>1, <1>3, <1>4, <1>5 DEF Upto
LEMMA UptoEmpty ==
    ASSUME NEW x \in Nat, NEW y \in Nat, x <= y
    PROVE  Upto(x, y) = <<>> <=> x = y
<1>1. Len(Upto(x, y)) = y - x /\ Upto(x, y) \in Seq(Nat)
  BY UptoSeq
<1>2. Upto(x, y) = <<>> <=> Len(Upto(x, y)) = 0
  BY <1>1, EmptySeq
<1> QED BY <1>1, <1>2
LEMMA UptoNext ==
    ASSUME NEW x \in Nat, NEW y \in Nat, x <= y
    PROVE  Append(Upto(x, y), y + 1) = Upto(x, y + 1) /\ <<y + 1>> = Upto(y, y + 1)
<1>1. /\ Upto(x, y) \in Seq(Nat) /\ Len(Upto(x, y)) = y - x
      /\ \A n \in 1 .. y - x : Upto(x, y)[n] = x + n
  BY UptoSeq
<1>2. y + 1 \in Nat /\ x <= y + 1
  OBVIOUS
<1>3. /\ Upto(x, y + 1) \in Seq(Nat) /\ Len(Upto(x, y + 1)) = y + 1 - x
      /\ \A n \in 1 .. y + 1 - x : Upto(x, y + 1)[n] = x + n
  BY <1>2, UptoSeq
<1>4. Append(Upto(x, y), y + 1) = Upto(x, y + 1)
  <2>1. PICK s \in Seq(Nat) : s = Upto(x, y)
    BY <1>1
  <2>2. /\ Append(s, y + 1) \in Seq(Nat) /\ Len(Append(s, y + 1)) = y - x + 1
        /\ \A n \in 1 .. y - x + 1 : Append(s, y + 1)[n] = IF n <= y - x THEN s[n] ELSE y + 1
    <3>1. PICK z \in Nat : z = y + 1
      BY <1>2
    <3>2. /\ Append(s, z) \in Seq(Nat) /\ Len(Append(s, z)) = Len(s) + 1
          /\ \A n \in 1 .. Len(s) : Append(s, z)[n] = s[n]
          /\ Append(s, z)[Len(s) + 1] = z
      BY ONLY s \in Seq(Nat), <3>1, AppendProperties
    <3>3. Len(s) = y - x /\ y - x \in Nat
      BY <1>1, <2>1
    <3>4. ASSUME NEW n \in 1 .. y - x + 1
          PROVE  Append(s, z)[n] = IF n <= y - x THEN s[n] ELSE z
      <4>1. CASE n <= y - x
        BY <3>2, <3>3, <4>1
      <4>2. CASE ~(n <= y - x)
        <5>1. n = y - x + 1
          BY <3>3, <4>2
        <5> QED BY <3>2, <3>3, <4>2, <5>1
      <4> QED BY <4>1, <4>2
    <3> QED BY <3>1, <3>2, <3>3, <3>4
  <2>3. ASSUME NEW n \in 1 .. y - x + 1 PROVE Append(s, y + 1)[n] = x + n
    <3>1. n \in Int /\ 1 <= n /\ n <= y - x + 1
      OBVIOUS
    <3>2. CASE n <= y - x
      <4>1. n \in 1 .. y - x
        BY ONLY <3>1, <3>2, x \in Nat, y \in Nat
      <4>2. s[n] = x + n
        BY <1>1, <2>1, <4>1
      <4> QED BY <2>2, <3>2, <4>2
    <3>3. CASE ~(n <= y - x)
      <4>1. y + 1 = x + n
        BY ONLY <3>1, <3>3, x \in Nat, y \in Nat
      <4> QED BY <2>2, <3>3, <4>1
    <3> QED BY <3>2, <3>3
  <2>4. PICK t \in Seq(Nat) : t = Append(s, y + 1)
    BY <2>2
  <2>5. PICK u \in Seq(Nat) : u = Upto(x, y + 1)
    BY <1>3
  <2>6. Len(t) = Len(u) /\ \A n \in 1 .. Len(t) : t[n] = u[n]
    BY <1>3, <2>2, <2>3, <2>4, <2>5
  <2> QED BY <2>1, <2>4, <2>5, <2>6, SeqEqual
<1>5. <<y + 1>> = Upto(y, y + 1)
  <2>1. /\ Upto(y, y + 1) \in Seq(Nat) /\ Len(Upto(y, y + 1)) = 1 /\ Upto(y, y + 1)[1] = y + 1
    <3>1. y <= y + 1 /\ y + 1 - y = 1
      OBVIOUS
    <3>2. PICK z \in Nat : z = y + 1
      BY <1>2
    <3>3. /\ Upto(y, z) \in Seq(Nat) /\ Len(Upto(y, z)) = z - y
          /\ \A n \in 1 .. z - y : Upto(y, z)[n] = y + n
      BY ONLY <3>1, <3>2, y \in Nat, UptoSeq
    <3> QED BY <3>1, <3>2, <3>3
  <2>2. <<y + 1>> \in Seq(Nat) /\ Len(<<y + 1>>) = 1 /\ <<y + 1>>[1] = y + 1
    BY <1>2
  <2> QED BY <2>1, <2>2, SeqEqual
<1> QED BY <1>4, <1>5
LEMMA UptoJoin ==
    ASSUME NEW x \in Nat, NEW y \in Nat, NEW z \in Nat, x <= y, y <= z
    PROVE  Upto(x, y) \o Upto(y, z) = Upto(x, z)
<1>1. PICK s \in Seq(Nat) : s = Upto(x, y) /\ Len(s) = y - x /\ \A n \in 1 .. y - x : s[n] = x + n
  BY UptoSeq
<1>2. PICK t \in Seq(Nat) : t = Upto(y, z) /\ Len(t) = z - y /\ \A n \in 1 .. z - y : t[n] = y + n
  BY ONLY y \in Nat, z \in Nat, y <= z, UptoSeq
<1>3. PICK u \in Seq(Nat) : u = Upto(x, z) /\ Len(u) = z - x /\ \A n \in 1 .. z - x : u[n] = x + n
  <2>1. x <= z
    OBVIOUS
  <2> QED BY ONLY <2>1, x \in Nat, z \in Nat, UptoSeq
<1>4. /\ s \o t \in Seq(Nat) /\ Len(s \o t) = Len(s) + Len(t)
      /\ \A n \in 1 .. Len(s) + Len(t) : (s \o t)[n] = IF n <= Len(s) THEN s[n] ELSE t[n - Len(s)]
  BY ConcatProperties
<1>5. Len(s \o t) = Len(u)
  BY <1>1, <1>2, <1>3, <1>4
<1>6. ASSUME NEW n \in 1 .. Len(s \o t) PROVE (s \o t)[n] = u[n]
  <2>1. n \in Int /\ 1 <= n /\ n <= z - x /\ u[n] = x + n /\ Len(s) = y - x
    BY <1>1, <1>2, <1>3, <1>4, <1>6
  <2>2. CASE n <= y - x
    <3>1. (s \o t)[n] = s[n] /\ s[n] = x + n
      BY <1>1, <1>2, <1>4, <2>1, <2>2
    <3> QED BY <2>1, <3>1
  <2>3. CASE ~(n <= y - x)
    <3>1. (s \o t)[n] = t[n - (y - x)]
      BY <1>1, <1>2, <1>4, <2>1, <2>3
    <3>3. n - (y - x) \in 1 .. z - y
      BY ONLY <2>1, <2>3, x \in Nat, y \in Nat, z \in Nat
    <3>2. y + (n - (y - x)) = x + n
      BY <2>1
    <3> QED BY <1>2, <2>1, <3>1, <3>2, <3>3
  <2> QED BY <2>2, <2>3
<1>7. s \o t = u
  BY <1>4, <1>5, <1>6, SeqEqual
<1> QED BY <1>1, <1>2, <1>3, <1>7
LEMMA UptoHead ==
    ASSUME NEW x \in Nat, NEW y \in Nat, x <= y, Upto(x, y) # <<>>
    PROVE  x < y /\ Head(Upto(x, y)) = x + 1 /\ Tail(Upto(x, y)) = Upto(x + 1, y)
<1>1. x < y /\ x + 1 \in Nat /\ x + 1 <= y
  BY UptoEmpty
<1>2. PICK s \in Seq(Nat) : s = Upto(x, y) /\ Len(s) = y - x /\ \A n \in 1 .. y - x : s[n] = x + n
  BY UptoSeq
<1>3. PICK u \in Seq(Nat) :
          /\ u = Upto(x + 1, y) /\ Len(u) = y - (x + 1)
          /\ \A n \in 1 .. y - (x + 1) : u[n] = x + 1 + n
  BY <1>1, UptoSeq
<1>4. /\ Tail(s) \in Seq(Nat) /\ Len(Tail(s)) = Len(s) - 1
      /\ \A n \in 1 .. Len(Tail(s)) : Tail(s)[n] = s[n + 1]
  BY <1>2, HeadTailProperties
<1>5. Len(Tail(s)) = Len(u)
  BY <1>1, <1>2, <1>3, <1>4
<1>6. \A n \in 1 .. Len(Tail(s)) : Tail(s)[n] = u[n]
  BY <1>1, <1>2, <1>3, <1>4
<1>7. Tail(s) = u
  BY <1>3, <1>4, <1>5, <1>6, SeqEqual
<1>8. Head(s) = x + 1
  BY <1>1, <1>2
<1> QED BY <1>1, <1>2, <1>3, <1>7, <1>8
-----------------------------------------------------------------------------
(* The inductive invariant.                                                *)

NodeTypes ==
    /\ use \in {"pipeline", "iterate"} /\ wired \in {"no", "yes", "late"} /\ produced \in Nat
    /\ rbuf \in [Stage -> Seq(Nat)] /\ flowing \in [Stage -> BOOLEAN]
    /\ rended \in [Stage -> BOOLEAN] /\ wchain \in [Stage -> Seq(Nat)]
    /\ wbusy \in [Stage -> BOOLEAN] /\ wended \in [Stage -> BOOLEAN]
    /\ finished \in [Stage -> BOOLEAN] /\ arrived \in Seq(Nat) /\ got \in Seq(Nat)
    /\ iterating \in {"yes", "done", "gave up"}
    /\ settled \in {"no", "resolved", "rejected"} /\ lossy \in BOOLEAN
Behind == 2 .. K
\* A stage ends after the stages before it, with nothing left to write.
Ends ==
    /\ \A i \in Behind : finished[i] => wended[i] /\ wchain[i] = <<>>
    /\ \A i \in Behind : wended[i] => rended[1] /\ \A j \in 2 .. i - 1 : finished[j]
    /\ \A i \in Behind : i < K /\ rended[i] => finished[i]
    /\ \A i \in Behind : wbusy[i] => wchain[i] # <<>>
    /\ rended[1] => produced = Chunks
    /\ settled = "resolved" => finished[K] \/ lossy
Unwired ==
    wired = "no" => settled = "no" /\ \A i \in Behind : wchain[i] = <<>> /\ ~wended[i]
\* The first b[i] chunks reached the readable side of stage i, and a[i] of them
\* went on to the next stage.
Placed(a, b) ==
    /\ b[1] = produced /\ arrived = Upto(0, b[K])
    /\ \A i \in 1 .. K - 1 :
          /\ a[i] <= b[i] /\ b[i + 1] <= a[i]
          /\ rbuf[i] = Upto(a[i], b[i]) /\ wchain[i + 1] = Upto(b[i + 1], a[i])
          /\ rended[i] => a[i] = Chunks
          /\ wended[i + 1] => a[i] = Chunks
    /\ \A i \in Behind : finished[i] => b[i] = Chunks
Count == [Stage -> 0 .. Chunks]
Whole == use = "pipeline" /\ settled # "rejected" /\ ~lossy
InOrder == Whole => \E a, b \in Count : Placed(a, b)
Iterated ==
    /\ use = "iterate" =>
          /\ wired = "no" /\ produced <= Chunks
          /\ got = Upto(0, Len(got)) /\ Len(got) <= produced
          /\ rbuf[1] = Upto(Len(got), produced)
    /\ use = "pipeline" => got = <<>> /\ iterating = "yes"
    /\ iterating = "done" => rended[1] /\ rbuf[1] = <<>>
NodeInv == NodeTypes /\ Ends /\ Unwired /\ InOrder /\ Iterated

LEMMA NodeConstants ==
    /\ Chunks \in Nat /\ K \in Nat /\ K > 1
    /\ 1 \in Stage /\ K \in Stage /\ K \in Behind /\ 1 \in 1 .. K - 1
    /\ \A i \in Behind : i \in Stage /\ i # 1
    /\ \A i \in 1 .. K - 1 : i \in Stage /\ i + 1 \in Stage /\ i + 1 \in Behind /\ i + 1 # i
BY NodeAssumption DEF Stage, Behind
LEMMA InitInv == NodeInit => NodeInv
<1> SUFFICES ASSUME NodeInit PROVE NodeInv
  OBVIOUS
<1>1. NodeTypes
  BY EmptySeq DEF NodeInit, NodeTypes
<1>2. Upto(0, 0) = <<>>
  BY UptoEmpty
<1>3. Ends /\ Unwired
  BY NodeConstants DEF NodeInit, Ends, Unwired, Behind
<1>4. InOrder
  <2>1. PICK a \in Count : a = [i \in Stage |-> 0]
    <3>1. 0 \in 0 .. Chunks
      BY NodeConstants
    <3> QED BY <3>1 DEF Count
  <2>2. Placed(a, a)
    BY <1>2, <2>1, NodeConstants DEF NodeInit, Placed
  <2> QED BY <2>1, <2>2 DEF InOrder
<1>5. Iterated
  BY <1>2, NodeConstants DEF NodeInit, Iterated
<1> QED BY <1>1, <1>3, <1>4, <1>5 DEF NodeInv
\* A pipeline that resolved without loss has ended at every stage.
LEMMA AllEnded ==
    ASSUME NodeInv, ~lossy, settled = "resolved"
    PROVE  rended[1] /\ \A i \in Behind : finished[i] /\ wended[i] /\ wchain[i] = <<>>
<1>1. Ends /\ K \in Behind
  BY NodeConstants DEF NodeInv
<1>2. finished[K] /\ wended[K]
  BY <1>1 DEF Ends
<1>3. rended[1] /\ \A j \in 2 .. K - 1 : finished[j]
  BY <1>1, <1>2 DEF Ends
<1>4. ASSUME NEW i \in Behind PROVE finished[i]
  <2>1. i = K \/ i \in 2 .. K - 1
    BY NodeConstants DEF Behind
  <2> QED BY <1>2, <1>3, <2>1
<1> QED BY <1>1, <1>3, <1>4 DEF Ends
\* What moves from stage i to the next one, or reaches stage i, leaves the
\* pieces adjacent.
LEMMA Moves ==
    ASSUME NodeTypes, NEW a \in Count, NEW b \in Count, Placed(a, b),
           NEW i \in 1 .. K - 1, NEW x \in 0 .. Chunks, NEW y \in 0 .. Chunks,
           a[i] <= x, x <= y, b[i] <= y, i # 1 => y <= a[i - 1],
           produced' = (IF i = 1 THEN y ELSE produced), arrived' = arrived,
           rbuf' = [rbuf EXCEPT ![i] = Upto(x, y)],
           wchain'[i + 1] = Upto(b[i + 1], x), i # 1 => wchain'[i] = Upto(y, a[i - 1]),
           \A j \in Behind : j # i /\ j # i + 1 => wchain'[j] = wchain[j],
           UNCHANGED <<rended, wended, finished>>
    PROVE  InOrder'
<1>1. PICK f \in Count : f = [a EXCEPT ![i] = x]
  BY NodeConstants DEF Count
<1>2. PICK g \in Count : g = [b EXCEPT ![i] = y]
  BY NodeConstants DEF Count
<1>3. /\ f[i] = x /\ g[i] = y /\ i \in Stage /\ i # K /\ K \in Stage
      /\ \A j \in Stage : (j # i => f[j] = a[j] /\ g[j] = b[j]) /\ a[j] \in 0 .. Chunks /\ b[j] \in 0 .. Chunks
  BY <1>1, <1>2, NodeConstants DEF Count
<1>4. g[1] = produced'
  BY <1>3, NodeConstants DEF Placed
<1>5. arrived' = Upto(0, g[K])
  BY <1>3 DEF Placed
<1>6. ASSUME NEW j \in 1 .. K - 1
      PROVE  /\ f[j] <= g[j] /\ g[j + 1] <= f[j]
             /\ rbuf'[j] = Upto(f[j], g[j]) /\ wchain'[j + 1] = Upto(g[j + 1], f[j])
             /\ rended[j] => f[j] = Chunks
             /\ wended[j + 1] => f[j] = Chunks
  <2>1. /\ j \in Stage /\ j + 1 \in Stage /\ j + 1 \in Behind /\ j + 1 # j
        /\ a[j] <= b[j] /\ b[j + 1] <= a[j]
        /\ rbuf[j] = Upto(a[j], b[j]) /\ wchain[j + 1] = Upto(b[j + 1], a[j])
        /\ rended[j] => a[j] = Chunks
        /\ wended[j + 1] => a[j] = Chunks
    BY NodeConstants DEF Placed
  <2>2. a[j] \in 0 .. Chunks /\ b[j] \in 0 .. Chunks /\ b[j + 1] \in 0 .. Chunks /\ Chunks \in Nat
    BY <1>3, <2>1, NodeConstants
  <2>3. CASE j = i
    <3>1. f[j] = x /\ g[j] = y /\ g[j + 1] = b[j + 1] /\ rbuf'[j] = Upto(x, y)
      BY <1>3, <2>1, <2>3 DEF NodeTypes
    <3>2. (rended[j] => x = Chunks) /\ (wended[j + 1] => x = Chunks) /\ b[j + 1] <= x
      BY <2>1, <2>2, <2>3
    <3>3. wchain'[j + 1] = Upto(b[j + 1], x)
      BY <2>3
    <3> QED BY <3>1, <3>2, <3>3
  <2>4. CASE j # i
    <3>1. f[j] = a[j] /\ g[j] = b[j] /\ rbuf'[j] = rbuf[j]
      BY <1>3, <2>1, <2>4 DEF NodeTypes
    <3>2. CASE j + 1 = i
      <4>1. i # 1 /\ i - 1 = j
        BY <2>1, <3>2 DEF Behind
      <4>2. g[j + 1] = y /\ y <= a[j] /\ wchain'[j + 1] = Upto(y, a[j])
        BY <1>3, <3>2, <4>1
      <4> QED BY <2>1, <3>1, <4>2
    <3>3. CASE j + 1 # i
      <4>1. g[j + 1] = b[j + 1]
        BY <1>3, <2>1, <3>3
      <4>2. j + 1 # i + 1
        BY <2>4
      <4>3. wchain'[j + 1] = wchain[j + 1]
        BY <2>1, <3>3, <4>2
      <4> QED BY <2>1, <3>1, <4>1, <4>3
    <3> QED BY <3>2, <3>3
  <2> QED BY <2>3, <2>4
<1>7. ASSUME NEW j \in Behind, finished[j] PROVE g[j] = Chunks
  <2>1. b[j] = Chunks /\ j \in Stage
    BY <1>7, NodeConstants DEF Placed
  <2>2. Chunks \in Nat
    BY NodeConstants
  <2> QED BY <1>3, <2>1, <2>2
<1>8. Placed(f, g)'
  BY <1>1, <1>2, <1>4, <1>5, <1>6, <1>7 DEF Placed
<1> QED BY <1>1, <1>2, <1>8 DEF InOrder, Count
\* Of a whole pipeline, a write to a stage that has ended has nothing to write.
Joins(a, b, i, z) ==
    /\ wended[i + 1] => Upto(a[i], z) = <<>>
    /\ wchain[i + 1] \o Upto(a[i], z) = Upto(b[i + 1], z)
    /\ Upto(a[i], z) = <<>> => wchain[i + 1] = Upto(b[i + 1], z)
LEMMA Written ==
    ASSUME NodeTypes, Whole, NEW a \in Count, NEW b \in Count, Placed(a, b),
           NEW i \in 1 .. K - 1, NEW z \in 0 .. Chunks, a[i] <= z
    PROVE  Joins(a, b, i, z)
<1>1. /\ i \in Stage /\ i + 1 \in Stage /\ Chunks \in Nat
      /\ b[i + 1] <= a[i] /\ wchain[i + 1] = Upto(b[i + 1], a[i])
      /\ wended[i + 1] => a[i] = Chunks
  BY NodeConstants DEF Placed
<1>2. a[i] \in 0 .. Chunks /\ b[i + 1] \in 0 .. Chunks
  BY <1>1 DEF Count
<1>3. PICK u \in Nat : u = a[i]
  BY <1>1, <1>2
<1>4. PICK v \in Nat : v = b[i + 1]
  BY <1>1, <1>2
<1>5. z \in Nat /\ u <= z /\ v <= u /\ (wended[i + 1] => u = z)
  BY <1>1, <1>2, <1>3, <1>4
<1>6. Upto(u, z) = <<>> <=> u = z
  BY ONLY <1>3, <1>5, UptoEmpty
<1>7. Upto(v, u) \o Upto(u, z) = Upto(v, z)
  BY ONLY <1>3, <1>4, <1>5, UptoJoin
<1> QED BY <1>1, <1>3, <1>4, <1>5, <1>6, <1>7 DEF Joins
\* A step that moves no chunk and ends no stage.
LEMMA NothingMoves ==
    ASSUME NodeInv, NodeTypes',
           UNCHANGED <<use, wired, produced, rbuf, rended, wchain, wended, finished, arrived, got,
                       iterating>>,
           \A i \in Behind : wbusy'[i] => wchain[i] # <<>>,
           settled' = settled \/ wired # "no",
           settled = "rejected" => settled' = "rejected", lossy => lossy',
           settled' = "resolved" => settled = "resolved" \/ lossy'
    PROVE  NodeInv'
<1>1. Ends'
  BY DEF NodeInv, Ends
<1>2. Unwired'
  BY DEF NodeInv, Unwired
<1>3. InOrder'
  BY DEF NodeInv, InOrder, Whole, Placed
<1>4. Iterated'
  BY DEF NodeInv, Iterated
<1> QED BY <1>1, <1>2, <1>3, <1>4 DEF NodeInv
LEMMA PauseInv == ASSUME NodeInv, NEW i \in Stage, Pause(i) PROVE NodeInv'
<1>1. NodeTypes'
  BY DEF NodeInv, NodeTypes, Pause, queue
<1> QED BY <1>1, NothingMoves DEF NodeInv, Ends, Pause, queue
LEMMA DestroyInv == ASSUME NodeInv, NEW i \in Stage, Destroy(i) PROVE NodeInv'
<1>1. NodeTypes'
  BY DEF NodeInv, NodeTypes, Destroy, Settle, flow, queue
<1> QED BY <1>1, NothingMoves DEF NodeInv, Ends, Destroy, Settle, flow, queue
LEMMA RunInv == ASSUME NodeInv, NEW i \in Behind, Run(i) PROVE NodeInv'
<1>1. NodeTypes'
  BY NodeConstants DEF NodeInv, NodeTypes, Run, flow
<1>2. \A j \in Behind : wbusy'[j] => wchain[j] # <<>>
  BY NodeConstants DEF NodeInv, NodeTypes, Ends, Run
<1> QED BY <1>1, <1>2, NothingMoves DEF Run, flow
LEMMA ProduceFailsInv == ASSUME NodeInv, ProduceFails PROVE NodeInv'
<1>1. NodeTypes'
  <2>1. produced' \in Nat
    BY NodeConstants DEF ProduceFails
  <2>2. settled' \in {"no", "resolved", "rejected"}
    BY DEF NodeInv, NodeTypes, ProduceFails, Settle
  <2> QED BY <2>1, <2>2 DEF NodeInv, NodeTypes, ProduceFails, flow, queue
<1>2. ~Whole'
  BY AllEnded DEF NodeInv, NodeTypes, ProduceFails, Settle, Whole
<1>3. InOrder'
  BY <1>2 DEF InOrder
<1>4. Ends' /\ Unwired' /\ Iterated'
  BY DEF NodeInv, Ends, Unwired, Iterated, ProduceFails, Settle, flow, queue
<1> QED BY <1>1, <1>3, <1>4 DEF NodeInv
\* What _flush or the producer leaves behind when a stage ends.
LEMMA ProduceEndInv == ASSUME NodeInv, ProduceEnd PROVE NodeInv'
<1>1. /\ produced = Chunks /\ ~rended[1] /\ rended' = [rended EXCEPT ![1] = TRUE]
      /\ lossy' = (lossy \/ (use = "pipeline" /\ rbuf[1] # <<>>))
      /\ wended' = IF wired # "no" THEN [wended EXCEPT ![2] = TRUE] ELSE wended
      /\ UNCHANGED <<use, wired, produced, rbuf, flowing, wchain, wbusy, finished, arrived, got,
                     iterating, settled, whims>>
  BY NodeConstants DEF ProduceEnd, PushesEnd, PassesEnd, Wired
<1>2. 2 \in Stage /\ 1 \in Stage
  BY NodeConstants DEF Behind
<1>3. NodeTypes'
  BY <1>1, <1>2 DEF NodeInv, NodeTypes
<1>4. \A i \in Behind : rended'[i] = rended[i] /\ (i # 2 => wended'[i] = wended[i])
  BY <1>1, <1>2, NodeConstants DEF NodeInv, NodeTypes
<1>5. rended'[1] /\ (wired = "no" => wended' = wended) /\ (wended[2] => wended'[2])
  BY <1>1, <1>2 DEF NodeInv, NodeTypes
<1>6. Ends'
  <2>1. Ends
    BY DEF NodeInv
  <2>2. \A i \in Behind : wended[i] => wended'[i]
    BY <1>4, <1>5
  <2>3. \A i \in Behind : wended'[i] => \A j \in 2 .. i - 1 : finished[j]
    BY <1>4, <2>1 DEF Ends
  <2> QED BY <1>1, <1>4, <1>5, <2>1, <2>2, <2>3 DEF Ends
<1>7. Unwired'
  BY <1>1, <1>5 DEF NodeInv, Unwired
<1>8. InOrder'
  <2> SUFFICES ASSUME Whole' PROVE \E a, b \in Count : Placed(a, b)'
    BY DEF InOrder, Count
  <2>1. Whole /\ rbuf[1] = <<>>
    BY <1>1 DEF Whole, NodeInv, NodeTypes
  <2>2. PICK a \in Count, b \in Count : Placed(a, b)
    BY <2>1 DEF NodeInv, InOrder
  <2>3. a[1] = Chunks
    <3>1. a[1] \in Nat /\ b[1] \in Nat /\ a[1] <= b[1] /\ rbuf[1] = Upto(a[1], b[1]) /\ b[1] = Chunks
      BY <1>1, <1>2, <2>2, NodeConstants DEF Placed, Count
    <3> QED BY <2>1, <3>1, UptoEmpty
  <2>4. \A i \in 1 .. K - 1 : i # 1 => i \in Behind /\ i + 1 # 2 /\ i + 1 \in Behind
    BY NodeConstants DEF Behind
  <2>5. ASSUME NEW i \in 1 .. K - 1
        PROVE  (rended'[i] => a[i] = Chunks) /\ (wended'[i + 1] => a[i] = Chunks)
    BY <1>4, <2>2, <2>3, <2>4 DEF Placed
  <2>6. Placed(a, b)'
    BY <1>1, <2>2, <2>5 DEF Placed
  <2> QED BY <2>6
<1>9. Iterated'
  BY <1>1, <1>5 DEF NodeInv, Iterated
<1> QED BY <1>3, <1>6, <1>7, <1>8, <1>9 DEF NodeInv
\* The producer pushes: what flows is written to the stage behind.
LEMMA ProduceInv == ASSUME NodeInv, Produce PROVE NodeInv'
<1>0. produced \in Nat /\ rbuf[1] \in Seq(Nat)
  BY NodeConstants DEF NodeInv, NodeTypes
<1>1. PICK p \in Nat : p = produced + 1
  BY <1>0
<1>2. PICK all \in Seq(Nat) : all = rbuf[1] \o <<p>>
  <2>1. <<p>> \in Seq(Nat)
    OBVIOUS
  <2> QED BY <1>0, <2>1, ConcatProperties
<1>3. PICK flows \in BOOLEAN : flows = (flowing[1] /\ wired # "no")
  OBVIOUS
<1>4. /\ produced < Chunks /\ ~rended[1] /\ produced' = p
      /\ rbuf' = [rbuf EXCEPT ![1] = IF flows THEN <<>> ELSE all]
      /\ IF flows THEN Writes(2, all) ELSE UNCHANGED <<wchain, settled>>
      /\ UNCHANGED <<use, wired, flowing, rended, wbusy, wended, finished, arrived, got, iterating,
                     lossy>>
  <2>1. Pushes(1, <<p>>) /\ produced < Chunks /\ ~rended[1] /\ produced' = p
    BY <1>1 DEF Produce
  <2>2. flows <=> flowing[1] /\ Wired(1)
    BY <1>3, NodeConstants DEF Wired
  <2>3. /\ rbuf' = [rbuf EXCEPT ![1] = IF flowing[1] /\ Wired(1) THEN <<>> ELSE all]
        /\ IF flowing[1] /\ Wired(1) THEN Writes(1 + 1, all) ELSE UNCHANGED <<wchain, settled>>
    BY <1>2, <2>1 DEF Pushes
  <2>4. 1 + 1 = 2
    OBVIOUS
  <2> QED BY <2>1, <2>2, <2>3, <2>4 DEF Produce
<1>5. /\ ~wended[2] /\ \A i \in Behind : ~wended[i] /\ ~finished[i]
      /\ settled = "resolved" => lossy
  BY <1>4, AllEnded, NodeConstants DEF NodeInv, Ends, Behind
<1>6. wchain' = (IF flows THEN [wchain EXCEPT ![2] = @ \o all] ELSE wchain) /\ settled' = settled
  <2>1. CASE flows
    <3>1. all # <<>>
      <4>1. PICK s \in Seq(Nat) : s = rbuf[1]
        BY NodeConstants DEF NodeInv, NodeTypes
      <4>2. Len(s) \in Nat /\ Len(all) = Len(s) + 1
        BY <1>2, <4>1, ConcatProperties, LenProperties
      <4> QED BY <4>2
    <3> QED BY <1>4, <1>5, <2>1, <3>1 DEF Writes
  <2> QED BY <1>4, <2>1
<1>7. 2 \in Stage /\ 2 \in Behind
  BY NodeConstants DEF Behind
<1>8. NodeTypes'
  <2>1. rbuf' \in [Stage -> Seq(Nat)]
    BY <1>4, EmptySeq DEF NodeInv, NodeTypes
  <2>2. wchain' \in [Stage -> Seq(Nat)]
    <3>1. \A s \in Seq(Nat) : s \o all \in Seq(Nat)
      BY ConcatProperties
    <3> QED BY <1>6, <1>7, <3>1 DEF NodeInv, NodeTypes
  <2> QED BY <1>1, <1>4, <1>6, <2>1, <2>2 DEF NodeInv, NodeTypes
<1>9. Ends'
  <2>1. \A i \in Behind : wbusy[i] => wchain'[i] # <<>>
    <3>1. \A s \in Seq(Nat) : s # <<>> => s \o all # <<>>
      BY ConcatEqualIffEmpty
    <3>2. \A i \in Behind : wchain[i] # <<>> => wchain'[i] # <<>>
      BY <1>6, <3>1, NodeConstants DEF NodeInv, NodeTypes
    <3> QED BY <3>2 DEF NodeInv, Ends
  <2> QED BY <1>4, <1>5, <1>6, <2>1 DEF NodeInv, Ends
<1>10. Unwired'
  BY <1>3, <1>4, <1>6 DEF NodeInv, Unwired
<1>11. InOrder'
  <2> SUFFICES ASSUME Whole' PROVE InOrder'
    BY DEF InOrder
  <2>1. Whole
    BY <1>4, <1>6 DEF Whole
  <2>2. PICK a \in Count, b \in Count : Placed(a, b)
    BY <2>1 DEF NodeInv, InOrder
  <2>3. PICK x \in 0 .. Chunks : x = a[1]
    BY NodeConstants DEF Count
  <2>4. PICK y \in 0 .. Chunks : y = produced + 1
    BY <1>0, <1>4, NodeConstants
  <2>5. x \in Nat /\ produced \in Nat /\ x <= produced /\ rbuf[1] = Upto(x, produced) /\ b[1] = produced
    BY <1>0, <2>2, <2>3, NodeConstants DEF Placed
  <2>6. all = Upto(x, y)
    <3>1. <<produced + 1>> = Upto(produced, produced + 1)
      BY <2>5, UptoNext
    <3>2. produced + 1 \in Nat /\ produced <= produced + 1
      BY <2>5
    <3>3. Upto(x, produced) \o Upto(produced, produced + 1) = Upto(x, produced + 1)
      BY ONLY <2>5, <3>2, UptoJoin
    <3> QED BY <1>1, <1>2, <2>4, <2>5, <3>1, <3>3
  <2>7. CASE ~flows
    <3>1. wchain'[2] = Upto(b[2], x) /\ rbuf' = [rbuf EXCEPT ![1] = Upto(x, y)]
      BY <1>4, <1>6, <2>2, <2>3, <2>6, <2>7, NodeConstants DEF Placed
    <3>2. a[1] <= x /\ x <= y /\ b[1] <= y /\ 1 + 1 = 2 /\ produced' = y
      BY <1>1, <1>4, <2>3, <2>4, <2>5
    <3> QED BY <1>4, <1>6, <2>2, <2>7, <3>1, <3>2, NodeConstants, Moves DEF NodeInv
  <2>8. CASE flows
    <3>1. wchain'[2] = Upto(b[2], y)
      <4>1. wchain[2] \o Upto(x, y) = Upto(b[2], y)
        <5>1. x <= y /\ 1 + 1 = 2
          BY <2>4, <2>5
        <5>2. NodeTypes /\ 1 \in 1 .. K - 1
          BY NodeConstants DEF NodeInv
        <5>3. PICK i \in 1 .. K - 1 : i = 1
          BY <5>2
        <5>4. a[i] <= y
          BY <2>3, <5>1, <5>3
        <5>5. Joins(a, b, i, y)
          BY ONLY <2>1, <2>2, <5>2, <5>4, a \in Count, b \in Count, y \in 0 .. Chunks, Written
        <5> QED BY <2>3, <5>1, <5>3, <5>5 DEF Joins
      <4> QED BY <1>6, <1>7, <2>6, <2>8, <4>1 DEF NodeInv, NodeTypes
    <3>2. rbuf' = [rbuf EXCEPT ![1] = Upto(y, y)]
      <4>1. Upto(y, y) = <<>>
        BY NodeConstants, UptoEmpty
      <4> QED BY <1>4, <2>8, <4>1
    <3>3. a[1] <= y /\ b[1] <= y /\ 1 + 1 = 2 /\ produced' = y
      BY <1>1, <1>4, <2>3, <2>4, <2>5
    <3>4. \A j \in Behind : j # 1 /\ j # 2 => wchain'[j] = wchain[j]
      BY <1>6, NodeConstants DEF NodeInv, NodeTypes
    <3>5. NodeTypes /\ 1 \in 1 .. K - 1 /\ y <= y /\ UNCHANGED <<arrived, rended, wended, finished>>
      BY <1>4, NodeConstants DEF NodeInv
    <3> QED BY ONLY <2>2, <3>1, <3>2, <3>3, <3>4, <3>5, a \in Count, b \in Count, y \in 0 .. Chunks, Moves
  <2> QED BY <2>7, <2>8
<1>12. Iterated'
  <2>1. CASE use = "iterate"
    <3>1. ~flows /\ wired = "no"
      BY <1>3, <2>1 DEF NodeInv, Iterated
    <3>2. PICK x \in Nat : x = Len(got)
      BY LenProperties DEF NodeInv, NodeTypes
    <3>3. x <= produced /\ produced \in Nat /\ rbuf[1] = Upto(x, produced)
      BY <2>1, <3>2 DEF NodeInv, Iterated, NodeTypes
    <3>4. all = Upto(x, p)
      <4>1. <<produced + 1>> = Upto(produced, produced + 1)
        BY <3>3, UptoNext
      <4>2. produced + 1 \in Nat /\ produced <= produced + 1
        BY <3>3
      <4>3. Upto(x, produced) \o Upto(produced, produced + 1) = Upto(x, produced + 1)
        BY ONLY <3>2, <3>3, <4>2, UptoJoin
      <4> QED BY <1>1, <1>2, <3>3, <4>1, <4>3
    <3>5. rbuf'[1] = all
      BY <1>4, <3>1, NodeConstants DEF NodeInv, NodeTypes
    <3>6. p <= Chunks /\ x <= p
      BY <1>1, <1>4, <3>3, NodeConstants
    <3>7. iterating # "done"
      BY <1>4 DEF NodeInv, Iterated
    <3> QED BY <1>4, <2>1, <3>1, <3>2, <3>4, <3>5, <3>6, <3>7 DEF NodeInv, Iterated
  <2>2. CASE use = "pipeline"
    BY <1>4, <2>2 DEF NodeInv, Iterated
  <2> QED BY <2>1, <2>2 DEF NodeInv, NodeTypes
<1> QED BY <1>8, <1>9, <1>10, <1>11, <1>12 DEF NodeInv
\* What a stage holds is written to the next one: by pipeline() for stage 1,
\* and when a stage is resumed.
LEMMA Drained ==
    ASSUME NodeInv, NEW i \in 1 .. K - 1,
           rbuf' = [rbuf EXCEPT ![i] = <<>>], Writes(i + 1, rbuf[i]),
           wired' \in {"yes", "late"}, wired = "no" => i = 1 /\ use = "pipeline",
           flowing' \in [Stage -> BOOLEAN], use = "pipeline",
           UNCHANGED <<use, produced, rended, wbusy, wended, finished, arrived, got, iterating, lossy>>
    PROVE  NodeInv'
<1>1. /\ i \in Stage /\ i + 1 \in Stage /\ i + 1 \in Behind /\ i # K /\ Chunks \in Nat
      /\ \A j \in Behind : j \in Stage
  BY NodeConstants
<1>2. NodeTypes /\ Ends /\ rbuf[i] \in Seq(Nat)
  BY <1>1 DEF NodeInv, NodeTypes
<1>3. \/ rbuf[i] = <<>> /\ UNCHANGED <<wchain, settled>>
      \/ rbuf[i] # <<>> /\ wended[i + 1] /\ Settle("rejected") /\ UNCHANGED wchain
      \/ /\ rbuf[i] # <<>> /\ ~wended[i + 1] /\ UNCHANGED settled
         /\ wchain' = [wchain EXCEPT ![i + 1] = @ \o rbuf[i]]
  BY DEF Writes
<1>4. /\ settled' \in {"no", "resolved", "rejected"} /\ (settled = "rejected" => settled' = "rejected")
      /\ settled' = "resolved" => settled = "resolved"
  BY <1>2, <1>3 DEF Settle, NodeTypes
<1>5. wchain' \in [Stage -> Seq(Nat)] /\ \A j \in Behind : wchain[j] # <<>> => wchain'[j] # <<>>
  <2>1. \A s \in Seq(Nat) : s \o rbuf[i] \in Seq(Nat) /\ (s # <<>> => s \o rbuf[i] # <<>>)
    BY <1>2, ConcatProperties, ConcatEqualIffEmpty
  <2> QED BY <1>1, <1>2, <1>3, <2>1 DEF NodeTypes
<1>6. \A j \in Behind : finished[j] => wchain'[j] = wchain[j]
  BY <1>1, <1>2, <1>3 DEF NodeTypes, Ends
<1>7. NodeTypes'
  BY <1>2, <1>4, <1>5, EmptySeq DEF NodeTypes
<1>8. Ends'
  BY <1>2, <1>4, <1>5, <1>6 DEF Ends
<1>9. Unwired' /\ Iterated'
  BY DEF NodeInv, Unwired, Iterated
<1>10. InOrder'
  <2> SUFFICES ASSUME Whole' PROVE InOrder'
    BY DEF InOrder
  <2>1. Whole
    BY <1>4 DEF Whole
  <2>2. PICK a \in Count, b \in Count : Placed(a, b)
    BY <2>1 DEF NodeInv, InOrder
  <2>3. PICK z \in 0 .. Chunks : z = b[i]
    BY <1>1 DEF Count
  <2>4. a[i] <= z /\ rbuf[i] = Upto(a[i], z)
    BY <2>2, <2>3 DEF Placed
  <2>5. /\ wended[i + 1] => rbuf[i] = <<>>
        /\ wchain[i + 1] \o rbuf[i] = Upto(b[i + 1], z)
        /\ rbuf[i] = <<>> => wchain[i + 1] = Upto(b[i + 1], z)
    <3>1. Joins(a, b, i, z)
      BY <1>2, <2>1, <2>2, <2>4, Written
    <3> QED BY <2>4, <3>1 DEF Joins
  <2>6. wchain'[i + 1] = Upto(b[i + 1], z) /\ \A j \in Behind : j # i + 1 => wchain'[j] = wchain[j]
    BY <1>1, <1>2, <1>3, <2>5 DEF NodeTypes
  <2>7. Upto(z, z) = <<>>
    BY <1>1, UptoEmpty
  <2>8. i # 1 => z <= a[i - 1] /\ wchain'[i] = Upto(z, a[i - 1])
    <3> SUFFICES ASSUME i # 1 PROVE z <= a[i - 1] /\ wchain'[i] = Upto(z, a[i - 1])
      OBVIOUS
    <3>1. i - 1 \in 1 .. K - 1 /\ i - 1 + 1 = i /\ i \in Behind /\ i # i + 1
      BY NodeConstants DEF Behind
    <3>2. b[i] <= a[i - 1] /\ wchain[i] = Upto(b[i], a[i - 1])
      BY <2>2, <3>1 DEF Placed
    <3> QED BY <2>3, <2>6, <3>1, <3>2
  <2>9. produced' = (IF i = 1 THEN z ELSE produced)
    BY <2>2, <2>3 DEF Placed
  <2>10. /\ rbuf' = [rbuf EXCEPT ![i] = Upto(z, z)] /\ b[i] <= z /\ z <= z
         /\ \A j \in Behind : j # i /\ j # i + 1 => wchain'[j] = wchain[j]
    BY <1>1, <2>3, <2>6, <2>7
  <2>11. UNCHANGED <<arrived, rended, wended, finished>>
    OBVIOUS
  <2> QED BY ONLY <1>2, <2>2, <2>4, <2>6, <2>8, <2>9, <2>10, <2>11, i \in 1 .. K - 1,
             a \in Count, b \in Count, z \in 0 .. Chunks, Moves
<1> QED BY <1>7, <1>8, <1>9, <1>10 DEF NodeInv
LEMMA WireInv == ASSUME NodeInv, Wire PROVE NodeInv'
<1>1. PICK i \in 1 .. K - 1 : i = 1
  BY NodeConstants
<1>2. /\ use = "pipeline" /\ wired' \in {"yes", "late"} /\ flowing' \in [Stage -> BOOLEAN]
      /\ rbuf' = [rbuf EXCEPT ![i] = <<>>] /\ Writes(i + 1, rbuf[i])
      /\ UNCHANGED <<use, produced, rended, wbusy, wended, finished, arrived, got, iterating, lossy>>
  <2>1. i + 1 = 2
    BY <1>1
  <2> QED BY <1>1, <2>1 DEF Wire
<1> QED BY <1>1, <1>2, Drained
LEMMA ResumeInv == ASSUME NodeInv, NEW i \in Stage, Resume(i) PROVE NodeInv'
<1>1. i \in 1 .. K - 1
  BY NodeConstants DEF Resume, Stage
<1>2. use = "pipeline"
  BY DEF Resume, NodeInv, NodeTypes, Iterated
<1>3. /\ wired' = "yes" /\ flowing' \in [Stage -> BOOLEAN]
      /\ rbuf' = [rbuf EXCEPT ![i] = <<>>] /\ Writes(i + 1, rbuf[i])
      /\ UNCHANGED <<use, produced, rended, wbusy, wended, finished, arrived, got, iterating, lossy>>
  BY DEF Resume, NodeInv, NodeTypes
<1> QED BY <1>1, <1>2, <1>3, Drained DEF Resume
\* A Transform answers: of a whole pipeline, with the next chunk.
LEMMA TransformInv == ASSUME NodeInv, NEW i \in Behind, TransformDone(i) PROVE NodeInv'
<1>1. /\ i \in 1 .. K - 1 /\ i # 1 /\ i \in Stage /\ i + 1 \in Stage /\ i + 1 \in Behind /\ i + 1 # i
      /\ i - 1 \in 1 .. K - 1 /\ i - 1 + 1 = i /\ i - 1 \in Stage /\ i # K /\ i < K /\ Chunks \in Nat /\ \A j \in Behind : j \in Stage
  BY NodeConstants DEF TransformDone, Behind, Stage
<1>2. NodeTypes /\ Ends
  BY DEF NodeInv
<1>3. /\ wbusy[i] /\ wbusy' = [wbusy EXCEPT ![i] = FALSE] /\ wchain[i] # <<>> /\ ~finished[i] /\ ~rended[i]
      /\ UNCHANGED <<use, wired, produced, flowing, rended, wended, finished, arrived, got, iterating, lossy>>
  <2>1. /\ wbusy[i] /\ wbusy' = [wbusy EXCEPT ![i] = FALSE]
        /\ UNCHANGED <<use, wired, produced, flowing, rended, wended, finished, arrived, got, iterating, lossy>>
    BY DEF TransformDone
  <2>2. wchain[i] # <<>> /\ ~finished[i]
    BY <1>2, <2>1 DEF Ends
  <2> QED BY <1>1, <1>2, <2>1, <2>2 DEF Ends
<1>4. wired # "no"
  BY <1>3 DEF NodeInv, Unwired
<1>5. PICK chunk \in Nat : chunk = Head(wchain[i])
  BY <1>1, <1>2, <1>3, HeadTailProperties DEF NodeTypes
<1>6. PICK rest \in Seq(Nat) : rest = Tail(wchain[i])
  BY <1>1, <1>2, <1>3, HeadTailProperties DEF NodeTypes
<1>7. PICK all \in Seq(Nat) : all = Append(rbuf[i], chunk)
  BY <1>1, <1>2, AppendProperties DEF NodeTypes
<1>8. PICK flows \in BOOLEAN : flows = flowing[i]
  BY <1>1, <1>2 DEF NodeTypes
<1>9. PICK next \in Seq(Nat) : next = wchain[i + 1] \o all
  BY <1>1, <1>2, ConcatProperties DEF NodeTypes
<1>10. \/ /\ rbuf' = [rbuf EXCEPT ![i] = IF flows THEN <<>> ELSE all]
          /\ wchain' = [wchain EXCEPT ![i] = rest,
                                      ![i + 1] = IF flows /\ ~wended[i + 1] THEN next ELSE wchain[i + 1]]
          /\ IF flows /\ wended[i + 1] THEN Settle("rejected") ELSE UNCHANGED settled
       \/ /\ wchain' = [wchain EXCEPT ![i] = rest] /\ UNCHANGED rbuf /\ Settle("rejected")
  BY <1>1, <1>2, <1>5, <1>6, <1>7, <1>8, <1>9 DEF TransformDone, NodeTypes
<1>11. /\ settled' \in {"no", "resolved", "rejected"} /\ (settled = "rejected" => settled' = "rejected")
       /\ settled' = "resolved" => settled = "resolved"
  BY <1>2, <1>10 DEF Settle, NodeTypes
<1>12. /\ rbuf' \in [Stage -> Seq(Nat)] /\ wchain' \in [Stage -> Seq(Nat)]
       /\ \A j \in Behind : j # i /\ wchain[j] # <<>> => wchain'[j] # <<>>
  <2>1. wchain[i + 1] # <<>> => next # <<>>
    <3>1. PICK s \in Seq(Nat) : s = wchain[i + 1]
      BY <1>1, <1>2 DEF NodeTypes
    <3>2. s \o all = <<>> => s = <<>>
      BY ConcatEqualIffEmpty
    <3> QED BY <1>9, <3>1, <3>2
  <2>2. rbuf' \in [Stage -> Seq(Nat)]
    <3>1. rbuf \in [Stage -> Seq(Nat)] /\ <<>> \in Seq(Nat)
      BY <1>2, EmptySeq DEF NodeTypes
    <3>2. PICK c \in Seq(Nat) : c = IF flows THEN <<>> ELSE all
      BY <3>1
    <3>3. rbuf' = [rbuf EXCEPT ![i] = c] \/ rbuf' = rbuf
      BY <1>10, <3>2
    <3> QED BY <1>1, <3>1, <3>3
  <2>3. wchain \in [Stage -> Seq(Nat)]
    BY <1>2 DEF NodeTypes
  <2>4. PICK c \in Seq(Nat) : c \in {next, wchain[i + 1]}
                    /\ wchain' = [[wchain EXCEPT ![i] = rest] EXCEPT ![i + 1] = c]
    BY <1>1, <1>10, <2>3
  <2>5. /\ wchain' \in [Stage -> Seq(Nat)] /\ wchain'[i + 1] = c
        /\ \A j \in Behind : j # i /\ j # i + 1 => wchain'[j] = wchain[j]
    BY <1>1, <2>3, <2>4
  <2> QED BY <2>1, <2>2, <2>4, <2>5
<1>13. \A j \in Behind : finished[j] => wchain'[j] = wchain[j]
  BY <1>1, <1>2, <1>3, <1>10 DEF NodeTypes, Ends
<1>14. NodeTypes'
  BY <1>1, <1>2, <1>3, <1>11, <1>12 DEF NodeTypes
<1>15. Ends'
  <2>1. \A j \in Behind : wbusy'[j] => j # i /\ wbusy[j]
    BY <1>1, <1>2, <1>3 DEF NodeTypes
  <2> QED BY <1>2, <1>3, <1>11, <1>12, <1>13, <2>1 DEF Ends
<1>16. Unwired'
  BY <1>3, <1>4 DEF Unwired
<1>17. Iterated'
  BY <1>3, <1>4 DEF NodeInv, Iterated, NodeTypes
<1>18. InOrder'
  <2> SUFFICES ASSUME Whole' PROVE InOrder'
    BY DEF InOrder
  <2>1. Whole /\ settled # "resolved"
    <3>1. Whole
      BY <1>3, <1>11 DEF Whole
    <3> QED BY <1>3, <3>1, AllEnded DEF Whole
  <2>2. PICK a \in Count, b \in Count : Placed(a, b)
    BY <2>1 DEF NodeInv, InOrder
  <2>3. PICK x \in 0 .. Chunks : x = a[i]
    BY <1>1 DEF Count
  <2>4. PICK w \in 0 .. Chunks : w = b[i]
    BY <1>1 DEF Count
  <2>5. PICK z \in 0 .. Chunks : z = a[i - 1]
    BY <1>1 DEF Count
  <2>7. x <= w /\ w <= z /\ rbuf[i] = Upto(x, w) /\ wchain[i] = Upto(w, z)
        /\ wchain[i + 1] = Upto(b[i + 1], x)
    BY <1>1, <2>2, <2>3, <2>4, <2>5 DEF Placed
  <2>8. w < z /\ chunk = w + 1 /\ rest = Upto(w + 1, z)
    <3>1. w \in Nat /\ z \in Nat /\ Upto(w, z) # <<>>
      BY <1>3, <2>7
    <3> QED BY <1>5, <1>6, <2>7, <3>1, UptoHead
  <2>9. PICK y \in 0 .. Chunks : y = w + 1
    BY <1>1, <2>8
  <2>10. all = Upto(x, y)
    <3>1. x \in Nat /\ w \in Nat /\ x <= w
      BY <2>7
    <3>2. Append(Upto(x, w), w + 1) = Upto(x, w + 1)
      BY ONLY <3>1, UptoNext
    <3> QED BY <1>7, <2>7, <2>8, <2>9, <3>2
  <2>11. ~wended[i + 1]
    <3>1. wended[i + 1] => x = Chunks
      BY <1>1, <2>2, <2>3 DEF Placed
    <3> QED BY <1>1, <2>7, <2>8, <3>1
  <2>12. ~Settle("rejected")
    BY <1>2, <1>4, <2>1 DEF Settle, Whole, NodeTypes
  <2>13. /\ rbuf' = [rbuf EXCEPT ![i] = IF flows THEN <<>> ELSE all]
         /\ wchain'[i] = rest /\ wchain'[i + 1] = IF flows THEN next ELSE wchain[i + 1]
         /\ \A j \in Behind : j # i /\ j # i + 1 => wchain'[j] = wchain[j]
    BY <1>1, <1>2, <1>10, <2>11, <2>12 DEF NodeTypes
  <2>14. NodeTypes /\ UNCHANGED <<arrived, rended, wended, finished>>
         /\ produced' = (IF i = 1 THEN y ELSE produced)
    BY <1>1, <1>2, <1>3
  <2>15. b[i] <= y /\ y <= a[i - 1] /\ wchain'[i] = Upto(y, a[i - 1]) /\ a[i] <= x /\ x <= y /\ a[i] <= y
    BY <2>3, <2>4, <2>5, <2>7, <2>8, <2>9, <2>13
  <2>16. CASE ~flows
    <3>1. rbuf' = [rbuf EXCEPT ![i] = Upto(x, y)] /\ wchain'[i + 1] = Upto(b[i + 1], x)
      BY <2>7, <2>10, <2>13, <2>16
    <3>2. \A j \in Behind : j # i /\ j # i + 1 => wchain'[j] = wchain[j]
      BY <2>13
    <3> QED BY ONLY <1>1, <2>2, <2>14, <2>15, <3>1, <3>2,
               a \in Count, b \in Count, x \in 0 .. Chunks, y \in 0 .. Chunks, Moves
  <2>17. CASE flows
    <3>1. Joins(a, b, i, y)
      BY <1>1, <2>1, <2>2, <2>14, <2>15, Written
    <3>2. wchain'[i + 1] = Upto(b[i + 1], y)
      BY <1>9, <2>3, <2>10, <2>13, <2>17, <3>1 DEF Joins
    <3>3. rbuf' = [rbuf EXCEPT ![i] = Upto(y, y)] /\ y <= y
      <4>1. Upto(y, y) = <<>>
        BY UptoEmpty
      <4> QED BY <2>13, <2>17, <4>1
    <3>4. \A j \in Behind : j # i /\ j # i + 1 => wchain'[j] = wchain[j]
      BY <2>13
    <3> QED BY ONLY <1>1, <2>2, <2>14, <2>15, <3>2, <3>3, <3>4,
               a \in Count, b \in Count, y \in 0 .. Chunks, Moves
  <2> QED BY <2>16, <2>17
<1> QED BY <1>14, <1>15, <1>16, <1>17, <1>18 DEF NodeInv
\* The last stage takes the head of its queue, or fails.
LEMMA SinkInv == ASSUME NodeInv, SinkDone PROVE NodeInv'
<1>1. K \in Behind /\ K \in Stage /\ Chunks \in Nat /\ \A j \in Behind : j \in Stage
  BY NodeConstants
<1>2. NodeTypes /\ Ends
  BY DEF NodeInv
<1>3. /\ wbusy' = [wbusy EXCEPT ![K] = FALSE] /\ wchain[K] # <<>> /\ ~finished[K]
      /\ UNCHANGED <<use, wired, produced, rbuf, flowing, rended, wended, finished, got, iterating, lossy>>
  BY <1>1, <1>2 DEF SinkDone, Ends, flow
<1>4. wired # "no"
  BY <1>1, <1>3 DEF NodeInv, Unwired
<1>5. PICK chunk \in Nat : chunk = Head(wchain[K])
  BY <1>1, <1>2, <1>3, HeadTailProperties DEF NodeTypes
<1>6. PICK rest \in Seq(Nat) : rest = Tail(wchain[K])
  BY <1>1, <1>2, <1>3, HeadTailProperties DEF NodeTypes
<1>7. /\ wchain' = [wchain EXCEPT ![K] = rest]
      /\ \/ arrived' = Append(arrived, chunk) /\ UNCHANGED settled
         \/ Settle("rejected") /\ UNCHANGED arrived
  BY <1>5, <1>6 DEF SinkDone
<1>8. /\ settled' \in {"no", "resolved", "rejected"} /\ (settled = "rejected" => settled' = "rejected")
      /\ settled' = "resolved" => settled = "resolved"
  BY <1>2, <1>7 DEF Settle, NodeTypes
<1>9. arrived' \in Seq(Nat)
  <2>1. arrived \in Seq(Nat) /\ Append(arrived, chunk) \in Seq(Nat)
    BY <1>2, AppendProperties DEF NodeTypes
  <2> QED BY <1>7, <2>1
<1>10. NodeTypes'
  BY <1>1, <1>2, <1>3, <1>7, <1>8, <1>9 DEF NodeTypes
<1>11. Ends'
  <2>1. \A j \in Behind : (wbusy'[j] => j # K /\ wbusy[j]) /\ (j # K => wchain'[j] = wchain[j])
    BY <1>1, <1>2, <1>3, <1>7 DEF NodeTypes
  <2>2. \A j \in Behind : finished[j] => wchain'[j] = <<>>
    BY <1>2, <1>3, <2>1 DEF Ends
  <2> QED BY <1>2, <1>3, <1>8, <2>1, <2>2 DEF Ends
<1>12. Unwired' /\ Iterated'
  BY <1>3, <1>4 DEF NodeInv, Unwired, Iterated, NodeTypes
<1>13. InOrder'
  <2> SUFFICES ASSUME Whole' PROVE \E a, b \in Count : Placed(a, b)'
    BY DEF InOrder, Count
  <2>1. Whole /\ settled # "resolved"
    <3>1. Whole
      BY <1>3, <1>8 DEF Whole
    <3> QED BY <1>1, <1>3, <3>1, AllEnded DEF Whole
  <2>2. PICK a \in Count, b \in Count : Placed(a, b)
    BY <2>1 DEF NodeInv, InOrder
  <2>3. /\ K - 1 \in 1 .. K - 1 /\ K - 1 + 1 = K /\ K - 1 \in Stage
        /\ \A j \in 1 .. K - 1 : j \in Stage /\ j + 1 \in Behind /\ j # K /\ (j + 1 = K => j = K - 1)
    BY NodeConstants DEF Stage, Behind
  <2>4. PICK w \in 0 .. Chunks : w = b[K]
    BY <1>1 DEF Count
  <2>5. PICK z \in 0 .. Chunks : z = a[K - 1]
    BY <2>3 DEF Count
  <2>6. w <= z /\ wchain[K] = Upto(w, z) /\ arrived = Upto(0, w)
    BY <2>2, <2>3, <2>4, <2>5 DEF Placed
  <2>7. w < z /\ chunk = w + 1 /\ rest = Upto(w + 1, z)
    <3>1. w \in Nat /\ z \in Nat /\ Upto(w, z) # <<>>
      BY <1>3, <2>6
    <3> QED BY <1>5, <1>6, <2>6, <3>1, UptoHead
  <2>8. PICK y \in 0 .. Chunks : y = w + 1
    BY <1>1, <2>7
  <2>9. arrived' = Upto(0, y)
    <3>1. ~Settle("rejected")
      BY <1>2, <1>4, <2>1 DEF Settle, Whole, NodeTypes
    <3>2. 0 \in Nat /\ w \in Nat /\ 0 <= w
      OBVIOUS
    <3>3. Append(Upto(0, w), w + 1) = Upto(0, w + 1)
      BY ONLY <3>2, UptoNext
    <3> QED BY <1>7, <2>6, <2>7, <2>8, <3>1, <3>3
  <2>10. PICK g \in Count : g = [b EXCEPT ![K] = y]
    BY <1>1 DEF Count
  <2>11. g[K] = y /\ \A j \in Stage : j # K => g[j] = b[j]
    BY <1>1, <2>10 DEF Count
  <2>12. ASSUME NEW j \in 1 .. K - 1
         PROVE  /\ a[j] <= g[j] /\ g[j + 1] <= a[j]
                /\ rbuf[j] = Upto(a[j], g[j]) /\ wchain'[j + 1] = Upto(g[j + 1], a[j])
                /\ rended[j] => a[j] = Chunks
                /\ wended[j + 1] => a[j] = Chunks
    <3>1. CASE j = K - 1
      <4>1. j + 1 = K /\ g[j] = b[j] /\ g[j + 1] = y /\ wchain'[j + 1] = Upto(y, z) /\ y <= z /\ a[j] = z
        <5>1. j + 1 = K /\ j # K /\ j \in Stage
          BY <2>3, <3>1
        <5>2. wchain'[K] = rest
          BY <1>1, <1>2, <1>7 DEF NodeTypes
        <5> QED BY <2>5, <2>7, <2>8, <2>11, <3>1, <5>1, <5>2
      <4> QED BY <2>2, <4>1 DEF Placed
    <3>2. CASE j # K - 1
      <4>1. g[j] = b[j] /\ g[j + 1] = b[j + 1] /\ wchain'[j + 1] = wchain[j + 1]
        BY <1>1, <1>2, <1>7, <2>3, <2>11, <3>2 DEF NodeTypes
      <4> QED BY <2>2, <4>1 DEF Placed
    <3> QED BY <3>1, <3>2
  <2>13. g[1] = produced' /\ \A j \in Behind : finished[j] => g[j] = Chunks
    BY <1>1, <1>3, <2>2, <2>11, NodeConstants DEF Placed
  <2>14. Placed(a, g)'
    BY <1>3, <2>9, <2>11, <2>12, <2>13 DEF Placed
  <2> QED BY <2>10, <2>14
<1> QED BY <1>10, <1>11, <1>12, <1>13 DEF NodeInv
\* A stage ends once its queue is written, and ends what it gives.
LEMMA FinishInv == ASSUME NodeInv, NEW i \in Behind, Finish(i) PROVE NodeInv'
<1>1. /\ i \in Stage /\ i # 1 /\ Chunks \in Nat /\ K \in Behind /\ \A j \in Behind : j \in Stage /\ j # 1
      /\ i \in Nat /\ i <= K /\ \A j \in Behind : j \in Nat
  BY NodeConstants DEF Behind
<1>2. NodeTypes /\ Ends /\ Unwired
  BY DEF NodeInv
<1>3. /\ wended[i] /\ ~finished[i] /\ wchain[i] = <<>> /\ finished' = [finished EXCEPT ![i] = TRUE]
      /\ UNCHANGED <<use, wired, produced, rbuf, flowing, wchain, wbusy, arrived, got, iterating>>
  BY DEF Finish, TailDone
<1>4. wired # "no"
  BY <1>2, <1>3 DEF Unwired
<1>5. use = "pipeline"
  BY <1>2, <1>4 DEF NodeInv, NodeTypes, Iterated
<1>6. /\ i = K => UNCHANGED <<rended, lossy, wended>> /\ Settle("resolved")
      /\ i # K => /\ rended' = [rended EXCEPT ![i] = TRUE] /\ settled' = settled
                  /\ lossy' = (lossy \/ rbuf[i] # <<>>)
                  /\ wended' = [wended EXCEPT ![i + 1] = TRUE]
  <2>1. i # K => i < K
    BY <1>1, NodeConstants
  <2> QED BY <1>4, <1>5, <2>1 DEF Finish, EndsReadable, PushesEnd, PassesEnd, Wired
<1>7. /\ i # K => i \in 1 .. K - 1 /\ i < K /\ i + 1 \in Stage /\ i + 1 \in Behind /\ i + 1 # i
      /\ \A j \in 1 .. K - 1 : j \in Stage /\ j + 1 \in Stage
  BY <1>1, NodeConstants DEF Behind
<1>8. /\ \A j \in Stage : finished'[j] <=> finished[j] \/ j = i
      /\ \A j \in Stage : rended'[j] <=> rended[j] \/ (j = i /\ i # K)
      /\ \A j \in Stage : wended'[j] <=> wended[j] \/ (j = i + 1 /\ i # K)
  BY <1>1, <1>2, <1>3, <1>6, <1>7 DEF NodeTypes
<1>9. /\ settled' \in {"no", "resolved", "rejected"} /\ (settled = "rejected" => settled' = "rejected")
      /\ settled' = "resolved" => settled = "resolved" \/ i = K
      /\ lossy => lossy'
  <2>1. settled \in {"no", "resolved", "rejected"}
    BY <1>2 DEF NodeTypes
  <2>2. CASE i = K
    BY <1>6, <2>1, <2>2 DEF Settle
  <2>3. CASE i # K
    BY <1>6, <2>1, <2>3
  <2> QED BY <2>2, <2>3
<1>10. NodeTypes'
  <2>1. lossy' \in BOOLEAN
    BY <1>2, <1>6 DEF NodeTypes
  <2> QED BY <1>1, <1>2, <1>3, <1>6, <1>7, <1>9, <2>1 DEF NodeTypes
<1>11. Ends'
  <2>1. \A j \in Behind : finished'[j] => wended'[j] /\ wchain[j] = <<>>
    BY <1>1, <1>2, <1>3, <1>8 DEF Ends
  <2>2. rended[1] /\ rended'[1] /\ \A j \in 2 .. i - 1 : finished[j]
    BY <1>1, <1>2, <1>3, <1>8, NodeConstants DEF Ends
  <2>3. ASSUME NEW j \in Behind, wended'[j] PROVE \A h \in 2 .. j - 1 : finished'[h]
    <3>1. \A h \in 2 .. j - 1 : h \in Stage /\ (j = i + 1 => h = i \/ h \in 2 .. i - 1)
      BY <1>1, NodeConstants DEF Behind, Stage
    <3>2. CASE wended[j]
      BY <1>2, <1>8, <2>3, <3>1, <3>2 DEF Ends
    <3>3. CASE j = i + 1
      BY <1>8, <2>2, <3>1, <3>3
    <3> QED BY <1>1, <1>8, <2>3, <3>2, <3>3
  <2>4. \A j \in Behind : j < K /\ rended'[j] => finished'[j]
    BY <1>1, <1>2, <1>8 DEF Ends
  <2>5. settled' = "resolved" => finished'[K] \/ lossy'
    BY <1>1, <1>2, <1>8, <1>9 DEF Ends
  <2> QED BY <1>2, <1>3, <2>1, <2>2, <2>3, <2>4, <2>5 DEF Ends
<1>12. Unwired' /\ Iterated'
  <2>1. Iterated /\ (rended[1] => rended'[1])
    BY <1>8, NodeConstants DEF NodeInv
  <2> QED BY <1>3, <1>4, <2>1 DEF Unwired, Iterated
<1>13. InOrder'
  <2> SUFFICES ASSUME Whole' PROVE \E a, b \in Count : Placed(a, b)'
    BY DEF InOrder, Count
  <2>1. Whole /\ (i # K => rbuf[i] = <<>>)
    BY <1>3, <1>6, <1>9, <1>10 DEF Whole, NodeTypes
  <2>2. PICK a \in Count, b \in Count : Placed(a, b)
    BY <2>1 DEF NodeInv, InOrder
  <2>3. \A j \in Stage : a[j] \in Nat /\ b[j] \in Nat
    BY <1>1 DEF Count
  <2>4. b[i] = Chunks
    <3>1. PICK h \in 1 .. K - 1 : h = i - 1
      BY <1>1, NodeConstants DEF Behind
    <3>2. h + 1 = i /\ h \in Stage
      BY <1>1, <1>7, <3>1
    <3>3. a[h] = Chunks /\ b[i] <= a[h] /\ wchain[i] = Upto(b[i], a[h])
      BY <1>3, <2>2, <3>2 DEF Placed
    <3>4. b[i] = a[h]
      BY <1>1, <1>3, <2>3, <3>2, <3>3, UptoEmpty
    <3> QED BY <3>3, <3>4
  <2>5. i # K => a[i] = Chunks
    <3> SUFFICES ASSUME i # K PROVE a[i] = Chunks
      OBVIOUS
    <3>1. a[i] <= b[i] /\ rbuf[i] = Upto(a[i], b[i])
      BY <1>7, <2>2 DEF Placed
    <3>2. a[i] = b[i]
      BY <1>1, <2>1, <2>3, <3>1, UptoEmpty
    <3> QED BY <2>4, <3>2
  <2>6. ASSUME NEW j \in 1 .. K - 1
        PROVE  (rended'[j] => a[j] = Chunks) /\ (wended'[j + 1] => a[j] = Chunks)
    <3>1. j \in Stage /\ j + 1 \in Stage /\ (j + 1 = i + 1 => j = i)
      BY <1>1, <1>7
    <3> QED BY <1>8, <2>2, <2>5, <3>1 DEF Placed
  <2>7. \A j \in Behind : finished'[j] => b[j] = Chunks
    BY <1>1, <1>8, <2>2, <2>4 DEF Placed
  <2>8. Placed(a, b)'
    BY <1>3, <2>2, <2>6, <2>7 DEF Placed
  <2> QED BY <2>8
<1> QED BY <1>10, <1>11, <1>12, <1>13 DEF NodeInv
\* for await takes the first chunk stage 1 holds.
LEMMA IterateInv == ASSUME NodeInv, Iterate PROVE NodeInv'
<1>1. /\ use = "iterate" /\ iterating = "yes"
      /\ UNCHANGED <<use, wired, produced, flowing, rended, queue, arrived, settled, lossy, whims>>
      /\ \/ /\ rbuf[1] # <<>> /\ got' = Append(got, Head(rbuf[1]))
            /\ rbuf' = [rbuf EXCEPT ![1] = Tail(@)] /\ UNCHANGED iterating
         \/ /\ rbuf[1] = <<>> /\ rended[1] /\ iterating' = "done" /\ UNCHANGED <<got, rbuf>>
         \/ /\ rbuf[1] = <<>> /\ iterating' = "gave up" /\ UNCHANGED <<got, rbuf>>
  BY DEF Iterate
<1>2. NodeTypes /\ Ends /\ Unwired /\ Iterated
  BY DEF NodeInv
<1>3. PICK x \in Nat : x = Len(got)
  BY <1>2, LenProperties DEF NodeTypes
<1>4. /\ produced \in Nat /\ x <= produced /\ got = Upto(0, x) /\ rbuf[1] = Upto(x, produced)
      /\ produced <= Chunks /\ wired = "no"
  BY <1>1, <1>2, <1>3 DEF Iterated, NodeTypes
<1>5. ~Whole' /\ InOrder'
  BY <1>1 DEF Whole, InOrder
<1>6. Ends' /\ Unwired'
  BY <1>1, <1>2 DEF Ends, Unwired, queue
<1>7. CASE rbuf[1] # <<>>
  <2>1. /\ x < produced /\ Head(rbuf[1]) = x + 1 /\ Tail(rbuf[1]) = Upto(x + 1, produced)
    BY ONLY <1>3, <1>4, <1>7, UptoHead
  <2>2. x + 1 \in Nat /\ x + 1 <= produced /\ 0 \in Nat /\ 0 <= x /\ 0 <= x + 1
    BY <1>4, <2>1
  <2>3. Append(Upto(0, x), x + 1) = Upto(0, x + 1)
    BY ONLY <2>2, x \in Nat, UptoNext
  <2>4. got' = Upto(0, x + 1)
    BY <1>1, <1>4, <1>7, <2>1, <2>3
  <2>5. got' \in Seq(Nat) /\ Len(got') = x + 1
    <3>1. PICK y \in Nat : y = x + 1
      BY <2>2
    <3>2. Upto(0, y) \in Seq(Nat) /\ Len(Upto(0, y)) = y - 0
      BY ONLY <2>2, <3>1, UptoSeq
    <3> QED BY <2>4, <3>1, <3>2
  <2>6. Upto(x + 1, produced) \in Seq(Nat)
    BY ONLY <1>4, <2>2, UptoSeq
  <2>7. rbuf' \in [Stage -> Seq(Nat)] /\ rbuf'[1] = Upto(x + 1, produced)
    <3>1. PICK t \in Seq(Nat) : t = Upto(x + 1, produced)
      BY <2>6
    <3>2. rbuf' = [rbuf EXCEPT ![1] = t]
      BY <1>1, <1>7, <2>1, <3>1
    <3> QED BY <1>2, <3>1, <3>2, NodeConstants DEF NodeTypes
  <2>8. NodeTypes'
    BY <1>1, <1>2, <1>7, <2>5, <2>7 DEF NodeTypes, queue
  <2>9. Iterated'
    BY <1>1, <1>4, <1>7, <2>2, <2>4, <2>5, <2>7 DEF Iterated
  <2> QED BY <1>5, <1>6, <2>8, <2>9 DEF NodeInv
<1>8. CASE rbuf[1] = <<>>
  <2>1. NodeTypes'
    BY <1>1, <1>2, <1>8 DEF NodeTypes, queue
  <2>2. Iterated'
    BY <1>1, <1>2, <1>8 DEF Iterated
  <2> QED BY <1>5, <1>6, <2>1, <2>2 DEF NodeInv
<1> QED BY <1>7, <1>8
-----------------------------------------------------------------------------
LEMMA NextInv == NodeInv /\ [NodeNext]_nodeVars => NodeInv'
<1> SUFFICES ASSUME NodeInv, [NodeNext]_nodeVars PROVE NodeInv'
  OBVIOUS
<1>1. CASE UNCHANGED nodeVars
  <2>1. NodeTypes'
    BY <1>1 DEF NodeInv, NodeTypes, nodeVars, flow, queue
  <2>2. \A i \in Behind : wbusy'[i] => wchain[i] # <<>>
    BY <1>1 DEF NodeInv, Ends, nodeVars, flow, queue
  <2> QED BY <1>1, <2>1, <2>2, NothingMoves DEF nodeVars, flow, queue
<1>2. CASE StageSteps
  BY <1>2, RunInv, TransformInv, FinishInv DEF StageSteps, Behind
<1>3. CASE UserWhims
  BY <1>3, PauseInv, DestroyInv DEF UserWhims
<1>4. CASE \E i \in Stage : Resume(i)
  BY <1>4, ResumeInv
<1> QED BY <1>1, <1>2, <1>3, <1>4, ProduceInv, ProduceEndInv, ProduceFailsInv, WireInv, SinkInv,
           IterateInv DEF NodeNext
LEMMA InvDelivers == NodeInv => PipelineDelivers
<1> SUFFICES ASSUME NodeInv PROVE PipelineDelivers
  OBVIOUS
<1>1. NodeTypes /\ Ends /\ Iterated
  BY DEF NodeInv
<1>2. PICK x \in Nat : x = Len(got)
  BY <1>1, LenProperties DEF NodeTypes
<1>3. got = Upto(0, x) /\ DOMAIN got = 1 .. x
  <2>1. DOMAIN got = 1 .. x
    BY <1>1, <1>2, LenProperties DEF NodeTypes
  <2>2. CASE use = "iterate"
    BY <1>1, <1>2, <2>1, <2>2 DEF Iterated
  <2>3. CASE use = "pipeline"
    <3>1. got = <<>> /\ x = 0
      BY <1>1, <1>2, <2>3 DEF Iterated
    <3>2. Upto(0, 0) = <<>>
      BY UptoEmpty
    <3> QED BY <2>1, <3>1, <3>2
  <2> QED BY <1>1, <2>2, <2>3 DEF NodeTypes
<1>4. got = [i \in DOMAIN got |-> i]
  <2>1. x - 0 = x /\ \A n \in 1 .. x : 0 + n = n
    OBVIOUS
  <2>2. Upto(0, x) = [n \in 1 .. x |-> n]
    BY <2>1 DEF Upto
  <2> QED BY <1>3, <2>2
<1>5. iterating = "done" => Len(got) = Chunks
  <2> SUFFICES ASSUME iterating = "done" PROVE x = Chunks
    BY <1>2
  <2>1. /\ use = "iterate" /\ rended[1] /\ rbuf[1] = <<>> /\ produced = Chunks
        /\ rbuf[1] = Upto(x, produced) /\ x <= produced /\ produced \in Nat
    BY <1>1, <1>2 DEF Iterated, Ends, NodeTypes
  <2>2. x = produced
    BY ONLY <2>1, x \in Nat, UptoEmpty
  <2> QED BY <2>1, <2>2
<1>6. ASSUME settled = "resolved", ~lossy PROVE arrived = [i \in 1 .. Chunks |-> i]
  <2>1. finished[K] /\ K \in Behind /\ K \in Stage /\ Chunks \in Nat /\ rended[1]
    BY <1>6, AllEnded, NodeConstants
  <2>2. use = "pipeline"
    BY <1>6 DEF NodeInv, Iterated, Unwired, NodeTypes
  <2>3. PICK a \in Count, b \in Count : Placed(a, b)
    BY <1>6, <2>2 DEF NodeInv, InOrder, Whole
  <2>4. b[K] = Chunks /\ arrived = Upto(0, Chunks)
    BY <2>1, <2>3 DEF Placed
  <2>5. Chunks - 0 = Chunks /\ \A n \in 1 .. Chunks : 0 + n = n
    BY <2>1
  <2>6. Upto(0, Chunks) = [n \in 1 .. Chunks |-> n]
    BY <2>5 DEF Upto
  <2> QED BY <2>4, <2>6
<1> QED BY <1>4, <1>5, <1>6 DEF PipelineDelivers

\* A pipeline that resolves without a stage destroyed or ended over what it
\* held has given its last stage every chunk of the producer in order, and for
\* await gives its body the chunks in order, all of them when it ends by itself:
\* for every number of chunks and stages, pauses, destroys and failures.
THEOREM PipelinesDeliver == NodeSpec => []PipelineDelivers
<1>1. NodeInit => NodeInv
  BY InitInv
<1>2. NodeInv /\ [NodeNext]_nodeVars => NodeInv'
  BY NextInv
<1>3. NodeInv => PipelineDelivers
  BY InvDelivers
<1> QED BY <1>1, <1>2, <1>3, PTL DEF NodeSpec
-----------------------------------------------------------------------------
(* The kernel: first the bytes of a log, then the inductive invariant      *)
(* CoreInv, action by action.                                              *)

\* A set of naturals that is not empty has a least member.
LEMMA LeastExists ==
    ASSUME NEW S, S \subseteq Nat, S # {}
    PROVE  \E m \in S : \A k \in S : m <= k
<1> DEFINE R == {x \in Nat \X Nat : x[1] < x[2]}
<1>1. IsWellFoundedOn(R, Nat)
  BY NatLessThanWellFounded DEF OpToRel
<1>2. \A k, m \in Nat : k < m => <<k, m>> \in R
  OBVIOUS
<1> HIDE DEF R
<1>3. \E m \in S : \A k \in S : <<k, m>> \notin R
  BY <1>1, WFMin
<1>4. \A k, m \in S : ~(k < m) => m <= k
  OBVIOUS
<1> QED BY <1>2, <1>3, <1>4

\* BytesOf's recursion, up to any n: it has a solution, and any two agree.
Chosen(f, log, chosen, n) ==
    IF n = 0 THEN <<>> ELSE IF n \in chosen THEN f[n - 1] \o log[n].bytes ELSE f[n - 1]
Gathers(f, log, chosen, n) == f = [i \in 0 .. n |-> Chosen(f, log, chosen, i)]
\* BytesOf is defined.
LEMMA GathersUpTo ==
    ASSUME NEW log, NEW chosen, NEW n \in Nat
    PROVE  \E f : Gathers(f, log, chosen, n)
<1> DEFINE Lacks == {m \in Nat : ~\E f : Gathers(f, log, chosen, m)}
<1> SUFFICES ASSUME Lacks # {} PROVE FALSE
  OBVIOUS
<1>1. PICK m \in Lacks : \A k \in Lacks : m <= k
  <2>1. Lacks \subseteq Nat
    OBVIOUS
  <2> HIDE DEF Lacks
  <2> QED BY <2>1, LeastExists
<1>2. m \in Nat /\ ~\E f : Gathers(f, log, chosen, m)
  OBVIOUS
<1>3. \E f : \A i \in 0 .. m - 1 : f[i] = Chosen(f, log, chosen, i)
  <2>1. CASE m = 0
    BY <2>1
  <2>2. CASE m # 0
    <3>1. m - 1 \in Nat /\ m - 1 \notin Lacks
      BY <1>1, <1>2, <2>2
    <3>2. PICK f : Gathers(f, log, chosen, m - 1)
      BY <3>1
    <3> QED BY <3>2 DEF Gathers
  <2> QED BY <2>1, <2>2
<1>4. PICK f : \A i \in 0 .. m - 1 : f[i] = Chosen(f, log, chosen, i)
  BY <1>3
<1> DEFINE g == [i \in 0 .. m |-> Chosen(f, log, chosen, i)]
<1>5. ASSUME NEW i \in 0 .. m PROVE Chosen(g, log, chosen, i) = Chosen(f, log, chosen, i)
  <2>1. CASE i = 0
    BY <2>1 DEF Chosen
  <2>2. CASE i # 0
    <3>1. i - 1 \in 0 .. m /\ i - 1 \in 0 .. m - 1
      BY <1>2, <2>2
    <3>2. g[i - 1] = f[i - 1]
      BY <1>4, <3>1
    <3> HIDE DEF g
    <3> QED BY <2>2, <3>2 DEF Chosen
  <2> QED BY <2>1, <2>2
<1>6. Gathers(g, log, chosen, m)
  <2>1. g = [i \in 0 .. m |-> Chosen(g, log, chosen, i)]
    BY <1>5
  <2> QED BY <2>1 DEF Gathers
<1> QED BY <1>2, <1>6
\* The entries that were there count as before.
LEMMA GathersAgree ==
    ASSUME NEW f, NEW g, NEW log, NEW more, NEW chosen, NEW wider, NEW n \in Nat, NEW k \in 0 .. n,
           Gathers(f, more, wider, n), Gathers(g, log, chosen, k),
           \A i \in 1 .. k : log[i] = more[i] /\ (i \in chosen <=> i \in wider)
    PROVE  f[k] = g[k]
<1> DEFINE Differ == {i \in 0 .. k : f[i] # g[i]}
<1>1. SUFFICES ASSUME Differ # {} PROVE FALSE
  OBVIOUS
<1>2. PICK m \in Differ : \A j \in Differ : m <= j
  <2>1. Differ \subseteq Nat
    OBVIOUS
  <2> HIDE DEF Differ
  <2> QED BY <1>1, <2>1, LeastExists
<1>3. m \in 0 .. k /\ m \in 0 .. n /\ f[m] # g[m]
  OBVIOUS
<1>4. f[m] = Chosen(f, more, wider, m) /\ g[m] = Chosen(g, log, chosen, m)
  BY <1>3 DEF Gathers
<1>5. m # 0
  BY <1>3, <1>4 DEF Chosen
<1>6. m - 1 \in 0 .. k /\ ~(m <= m - 1) /\ m \in 1 .. k
  BY <1>3, <1>5
<1>7. f[m - 1] = g[m - 1] /\ log[m] = more[m] /\ (m \in chosen <=> m \in wider)
  BY <1>2, <1>6
<1> QED BY <1>3, <1>4, <1>5, <1>7 DEF Chosen
\* The value of BytesOf is the last one of its recursion.
LEMMA BytesGathered ==
    ASSUME NEW log, NEW chosen, Len(log) \in Nat
    PROVE  \E f : Gathers(f, log, chosen, Len(log)) /\ BytesOf(log, chosen) = f[Len(log)]
<1> DEFINE n == Len(log)
           f == CHOOSE f : Gathers(f, log, chosen, n)
<1>1. BytesOf(log, chosen) = f[n]
  BY DEF BytesOf, Gathers, Chosen
<1>2. n \in Nat
  OBVIOUS
<1> HIDE DEF n
<1>3. Gathers(f, log, chosen, n)
  BY <1>2, GathersUpTo
<1> QED BY <1>1, <1>3 DEF n

\* An entry more adds its bytes at the end when it is chosen, nothing else.
LEMMA BytesAppend ==
    ASSUME NEW T, NEW log \in Seq(T), NEW e \in T, NEW chosen, NEW wider,
           \A i \in 1 .. Len(log) : i \in chosen <=> i \in wider
    PROVE  BytesOf(Append(log, e), wider) =
              IF Len(log) + 1 \in wider THEN BytesOf(log, chosen) \o e.bytes
              ELSE BytesOf(log, chosen)
<1>1. PICK more : more = Append(log, e)
  OBVIOUS
<1>2. PICK n \in Nat : n = Len(log)
  BY LenProperties
<1>3. /\ more \in Seq(T) /\ Len(more) = n + 1 /\ more[n + 1] = e
      /\ \A i \in 1 .. n : more[i] = log[i]
  BY ONLY log \in Seq(T), e \in T, <1>1, <1>2, AppendProperties
<1>4. n + 1 \in Nat /\ n \in 0 .. n + 1 /\ n + 1 \in 0 .. n + 1 /\ n + 1 # 0 /\ n + 1 - 1 = n
  BY <1>2
<1>5. PICK f : Gathers(f, more, wider, n + 1) /\ BytesOf(more, wider) = f[n + 1]
  BY <1>3, <1>4, BytesGathered
<1>6. PICK g : Gathers(g, log, chosen, n) /\ BytesOf(log, chosen) = g[n]
  BY <1>2, BytesGathered
<1>7. f[n] = g[n]
  <2>1. \A i \in 1 .. n : log[i] = more[i] /\ (i \in chosen <=> i \in wider)
    BY <1>2, <1>3
  <2> QED BY ONLY <2>1, <1>4, <1>5, <1>6, GathersAgree
<1>8. f[n + 1] = Chosen(f, more, wider, n + 1)
  BY <1>4, <1>5 DEF Gathers
<1>9. Chosen(f, more, wider, n + 1) = IF n + 1 \in wider THEN f[n] \o e.bytes ELSE f[n]
  BY <1>3, <1>4 DEF Chosen
<1> QED BY <1>1, <1>2, <1>5, <1>6, <1>7, <1>8, <1>9
\* What is appended is not chosen.
LEMMA BytesKept ==
    ASSUME NEW T, NEW log \in Seq(T), NEW e \in T, NEW chosen, chosen \subseteq 1 .. Len(log)
    PROVE  BytesOf(Append(log, e), chosen) = BytesOf(log, chosen)
<1>1. Len(log) + 1 \notin chosen
  BY LenProperties
<1> QED BY <1>1, BytesAppend
\* Nothing was gathered from an empty log.
LEMMA BytesNone == ASSUME NEW chosen PROVE BytesOf(<<>>, chosen) = <<>>
<1>1. Len(<<>>) = 0
  OBVIOUS
<1>2. PICK f : Gathers(f, <<>>, chosen, 0) /\ BytesOf(<<>>, chosen) = f[0]
  BY <1>1, BytesGathered
<1> QED BY <1>2 DEF Gathers, Chosen
\* What was gathered is a sequence.
LEMMA BytesSeq ==
    ASSUME NEW S, NEW log, Len(log) \in Nat, \A i \in 1 .. Len(log) : log[i].bytes \in Seq(S),
           NEW chosen
    PROVE  BytesOf(log, chosen) \in Seq(S)
<1>1. PICK n \in Nat : n = Len(log)
  OBVIOUS
<1>2. PICK f : Gathers(f, log, chosen, n) /\ BytesOf(log, chosen) = f[n]
  BY <1>1, BytesGathered
<1> DEFINE Wrong == {i \in 0 .. n : f[i] \notin Seq(S)}
<1>3. SUFFICES ASSUME Wrong # {} PROVE FALSE
  BY <1>1, <1>2
<1>4. PICK m \in Wrong : \A j \in Wrong : m <= j
  <2>1. Wrong \subseteq Nat
    OBVIOUS
  <2> HIDE DEF Wrong
  <2> QED BY <1>3, <2>1, LeastExists
<1>5. f[m] = Chosen(f, log, chosen, m)
  BY <1>2 DEF Gathers
<1>6. CASE m = 0
  BY <1>4, <1>5, <1>6, EmptySeq DEF Chosen
<1>7. CASE m # 0
  <2>1. m - 1 \in 0 .. n /\ ~(m <= m - 1) /\ m \in 1 .. n
    BY <1>1, <1>7
  <2>2. f[m - 1] \in Seq(S) /\ log[m].bytes \in Seq(S)
    BY <1>1, <1>4, <2>1
  <2>3. f[m - 1] \o log[m].bytes \in Seq(S)
    BY <2>2, ConcatProperties
  <2> QED BY <1>5, <1>7, <2>2, <2>3 DEF Chosen
<1> QED BY <1>6, <1>7

\* The entries of a log that hold what a sequence does gather what FlattenSeq
\* makes of it.
LEMMA BytesAll ==
    ASSUME NEW S, NEW t \in Seq(Seq(S)), NEW log, Len(log) = Len(t),
           \A i \in 1 .. Len(t) : log[i].bytes = t[i]
    PROVE  BytesOf(log, 1 .. Len(t)) = FlattenSeq(t)
<1>1. PICK n \in Nat : n = Len(t)
  BY LenProperties
<1>2. PICK f : Gathers(f, log, 1 .. n, n) /\ BytesOf(log, 1 .. n) = f[n]
  BY <1>1, BytesGathered
<1>3. f[0] = <<>> /\ \A i \in 1 .. n : f[i] = f[i - 1] \o t[i]
  <2>1. \A i \in 0 .. n : f[i] = Chosen(f, log, 1 .. n, i)
    BY <1>2 DEF Gathers
  <2>2. f[0] = <<>>
    BY <1>1, <2>1 DEF Chosen
  <2>3. ASSUME NEW i \in 1 .. n PROVE f[i] = f[i - 1] \o t[i]
    <3>1. i \in 0 .. n /\ i # 0 /\ log[i].bytes = t[i]
      BY <1>1
    <3>2. f[i] = Chosen(f, log, 1 .. n, i)
      BY <2>1, <3>1
    <3> QED BY <3>1, <3>2 DEF Chosen
  <2> QED BY <2>2, <2>3
<1>4. CASE n = 0
  <2>1. t = <<>>
    BY <1>1, <1>4, EmptySeq
  <2> QED BY <1>1, <1>2, <1>3, <1>4, <2>1 DEF FlattenSeq
<1>5. CASE n # 0
  <2>1. \A i \in 1 .. n : t[i] \in Seq(S)
    BY <1>1, LenProperties
  <2>2. f[1] = t[1]
    <3>1. 1 \in 1 .. n /\ 1 - 1 = 0
      BY <1>5
    <3>2. t[1] \in Seq(S)
      BY <2>1, <3>1
    <3>3. f[1] = <<>> \o t[1]
      BY <1>3, <3>1
    <3> QED BY <3>2, <3>3, ConcatEmptySeq
  <2> DEFINE F(g) == g = [i \in 1 .. n |-> IF i = 1 THEN t[i] ELSE g[i - 1] \o t[i]]
             g == CHOOSE g : F(g)
             h == [i \in 1 .. n |-> f[i]]
  <2>3. FlattenSeq(t) = g[n]
    BY <1>1, <1>5 DEF FlattenSeq
  <2>4. \A i \in 1 .. n : h[i] = IF i = 1 THEN t[i] ELSE h[i - 1] \o t[i]
    <3>1. \A i \in 1 .. n : i # 1 => i - 1 \in 1 .. n
      OBVIOUS
    <3> QED BY <1>3, <2>2, <3>1
  <2>5. F(h)
    <3>1. h = [i \in 1 .. n |-> h[i]]
      OBVIOUS
    <3> HIDE DEF h
    <3> QED BY <2>4, <3>1
  <2>6. F(g)
    <3> HIDE DEF F, h
    <3> QED BY <2>5
  <2>7. \A i \in 1 .. n : g[i] = IF i = 1 THEN t[i] ELSE g[i - 1] \o t[i]
    <3> HIDE DEF g
    <3> QED BY <2>6
  <2> HIDE DEF g
  <2> DEFINE Differ == {i \in 1 .. n : f[i] # g[i]}
  <2>8. Differ = {}
    <3> SUFFICES ASSUME Differ # {} PROVE FALSE
      OBVIOUS
    <3>1. PICK m \in Differ : \A j \in Differ : m <= j
      <4>1. Differ \subseteq Nat
        OBVIOUS
      <4> HIDE DEF Differ
      <4> QED BY <4>1, LeastExists
    <3>2. m \in 1 .. n /\ f[m] # g[m]
      OBVIOUS
    <3>3. m # 1
      BY <2>2, <2>7, <3>2
    <3>4. m - 1 \in 1 .. n /\ ~(m <= m - 1)
      BY <3>2, <3>3
    <3>5. f[m - 1] = g[m - 1]
      BY <3>1, <3>4
    <3>6. f[m] = f[m - 1] \o t[m]
      BY <1>3, <3>2
    <3>7. g[m] = g[m - 1] \o t[m]
      BY <2>7, <3>2, <3>3
    <3> QED BY <3>2, <3>5, <3>6, <3>7
  <2> QED BY <1>1, <1>2, <1>5, <2>3, <2>8
<1> QED BY <1>4, <1>5

Task == Reader \cup {Pipe}
Asker == {Pipe, User}
CallOf == [call : {"write", "close", "abort"}, by : Asker, bytes : Seq(Int), number : Int]
ReadOf == [pc : {"idle", "pumps", "pumped", "waits", "taken", "bytes", "null", "error"},
           n : Size \cup {AnySize}, chunk : Seq(Int)]
Return == [by : Task, bytes : Seq(Int)]
ReadTypes ==
    /\ buffer \in Seq(Seq(Int)) /\ waiter \in Task \cup {None} /\ pulled \in 0 .. Len(Source)
    /\ ended \in BOOLEAN /\ readError \in BOOLEAN /\ pumping \in BOOLEAN
    /\ rd \in [Task -> ReadOf] /\ returned \in Seq(Return)
    /\ overlapped \in BOOLEAN /\ cancelled \in {"no", "user", "pipe", "failed"}
WriteTypes ==
    /\ chain \in Seq(CallOf) /\ sink \in Seq(CallOf) /\ writing \in BOOLEAN /\ closed \in BOOLEAN
    /\ served \in Nat /\ endOf \in [Asker -> Int]
PipeTypes ==
    /\ fails \in Nat
    /\ pipe \in {"idle", "loop", "reading", "writing", "ending", "resolved", "fails", "aborts",
                 "rejected"}
CoreTypes == ReadTypes /\ WriteTypes /\ PipeTypes

\* While no two reads met: at most one task reads, none waits for an item, the
\* source is asked by the read that waits for its answer, and the pipe's read
\* stands where the pipe says.
OneReader ==
    ~overlapped =>
        /\ \A t, u \in Task : rd[t].pc # "idle" /\ rd[u].pc # "idle" => t = u
        /\ waiter = None /\ \A t \in Task : rd[t].pc # "waits"
        /\ pumping => \E t \in Task : rd[t].pc = "pumps"
        /\ \A t \in Task : rd[t].pc = "pumped" => buffer # <<>> \/ ended \/ readError
        /\ \A t \in Reader : rd[t].pc \notin {"bytes", "null", "error"}
        /\ rd[Pipe].n = AnySize /\ (rd[Pipe].pc # "idle" <=> pipe = "reading")
\* While only the pipe's reads returned: what they returned, the chunk a reader
\* has and what is queued are the source's chunks, in order.
Unmixed == ~overlapped /\ PipeReads = DOMAIN returned
InHands == IF \E t \in Task : rd[t].pc = "taken" THEN 1 ELSE 0
Pulls ==
    Unmixed =>
        /\ \A i \in DOMAIN returned : returned[i].bytes = Source[i]
        /\ Len(returned) + InHands + Len(buffer) = pulled
        /\ \A t \in Task : rd[t].pc = "taken" => rd[t].chunk = Source[Len(returned) + 1]
        /\ \A i \in DOMAIN buffer : buffer[i] = Source[Len(returned) + InHands + i]
\* The source ended only after its last chunk or when it was cancelled, and the
\* pipe ends only when nothing is left of it.
Exhausted ==
    /\ ended /\ cancelled = "no" => pulled = Len(Source)
    /\ cancelled \in {"pipe", "failed"} => pipe \in {"aborts", "rejected"}
    /\ ~overlapped /\ cancelled # "user" /\ (rd[Pipe].pc = "null" \/ pipe \in {"ending", "resolved"})
          => ended /\ ~pumping /\ buffer = <<>> /\ \A t \in Reader : rd[t].pc = "idle"
\* What the pipe read is what its writes gave the sink, but for the chunk it
\* holds and the write that has not begun.
Moved == BytesOf(sink, PipeWrites)
Got == BytesOf(returned, PipeReads)
Carried ==
    ~overlapped =>
        /\ pipe \in {"idle", "loop", "ending", "resolved"} => Got = Moved
        /\ pipe = "reading" =>
              Got = IF rd[Pipe].pc = "bytes" THEN Moved \o rd[Pipe].chunk ELSE Moved
        /\ pipe = "writing" =>
              \A p \in DOMAIN chain : chain[p].by = Pipe =>
                  Got = IF writing /\ p = 1 THEN Moved ELSE Moved \o chain[p].bytes
\* The writes are numbered as they were accepted, the pipe's is the only one of
\* its own, and the sink got every write up to the one it is at.
Begun == served + (IF writing THEN 1 ELSE 0)
Numbered ==
    /\ writing => chain # <<>>
    /\ \A i \in DOMAIN chain : chain[i].number = served + i /\ chain[i].call = "write"
    /\ \A i \in DOMAIN chain : chain[i].by = Pipe =>
          pipe = "writing" /\ \A j \in DOMAIN chain : chain[j].by = Pipe => j = i
    /\ \A n \in 1 .. Begun : \E j \in DOMAIN sink : sink[j].call = "write" /\ sink[j].number = n
\* No sink is closed before it got every write accepted before the end.
ClosedAfter ==
    \A i \in Closes : \A n \in 1 .. sink[i].number :
        \E j \in 1 .. i - 1 : sink[j].call = "write" /\ sink[j].number = n
\* What a pipe has done of its end, that its close was its last call, and that
\* an abort of its own followed a cancel that succeeded.
Settles ==
    /\ pipe = "aborts" => cancelled \notin {"no", "failed"} /\ ended
    /\ pipe = "rejected" => cancelled # "no" /\ (cancelled = "failed" \/ (ended /\ closed))
    /\ endOf[Pipe] >= 0 => pipe = "ending"
    /\ \A i \in Closes : sink[i].by = Pipe =>
          /\ closed /\ pipe \in {"resolved", "fails", "aborts", "rejected"}
          /\ \A j \in i + 1 .. Len(sink) : sink[j].by # Pipe
    /\ \A i \in DOMAIN sink : sink[i].call = "abort" /\ sink[i].by = Pipe =>
          pipe = "rejected" /\ cancelled # "failed"
CoreInv ==
    /\ CoreTypes /\ OneReader /\ Pulls /\ Exhausted /\ Carried /\ Numbered /\ ClosedAfter
    /\ Settles

LEMMA CoreConstants ==
    /\ Source \in Seq(Seq(Int)) /\ Len(Source) \in Nat /\ \A i \in 1 .. Len(Source) : Source[i] \in Seq(Int)
    /\ Size \subseteq Nat /\ Pipe \in Task /\ Pipe \in Asker /\ User \in Asker /\ Pipe # User
    /\ Reader \subseteq Task /\ Pipe \notin Reader /\ None \notin Task
BY CoreAssumption, LenProperties DEF Task, Asker

\* Reading a task's place.
LEMMA Placing ==
    ASSUME ReadTypes, NEW t \in Task, NEW n \in Size \cup {AnySize}, NEW chunk \in Seq(Int),
           NEW pc \in {"idle", "pumps", "pumped", "waits", "taken", "bytes", "null", "error"}
    PROVE  /\ Reading(t, n, pc, chunk) \in [Task -> ReadOf]
           /\ Reading(t, n, pc, chunk)[t] = [n |-> n, pc |-> pc, chunk |-> chunk]
           /\ \A u \in Task : u # t => Reading(t, n, pc, chunk)[u] = rd[u]
<1>1. [n |-> n, pc |-> pc, chunk |-> chunk] \in ReadOf
  BY DEF ReadOf
<1> QED BY <1>1 DEF Reading, ReadTypes

LEMMA Empty == <<>> \in Seq(Int)
BY EmptySeq
LEMMA ReadPlaces == ASSUME ReadTypes PROVE \A t \in Task : rd[t] \in ReadOf /\ rd[t].chunk \in Seq(Int) /\ rd[t].n \in Size \cup {AnySize}
BY DEF ReadTypes, ReadOf

\* A read that returns leaves the types.
LEMMA ReturnsTypes ==
    ASSUME ReadTypes, NEW t \in Task, NEW outcome \in {"bytes", "null", "error"}, NEW chunk \in Seq(Int),
           Returns(t, outcome, chunk)
    PROVE  rd' \in [Task -> ReadOf] /\ returned' \in Seq(Return)
<1>1. rd' \in [Task -> ReadOf]
  BY Placing DEF Returns
<1>2. [by |-> t, bytes |-> chunk] \in Return /\ returned \in Seq(Return)
  BY DEF Return, ReadTypes
<1>3. Append(returned, [by |-> t, bytes |-> chunk]) \in Seq(Return)
  BY <1>2, AppendProperties
<1> QED BY <1>1, <1>2, <1>3 DEF Returns
\* So does what follows the await of _pump.
LEMMA ContinueTypes ==
    ASSUME ReadTypes, NEW t \in Task, NEW n \in Size \cup {AnySize}, Continue(t, n)
    PROVE  /\ rd' \in [Task -> ReadOf] /\ returned' \in Seq(Return)
           /\ buffer' \in Seq(Seq(Int)) /\ waiter' \in Task \cup {None}
<1>1. returned \in Seq(Return) /\ buffer \in Seq(Seq(Int)) /\ waiter \in Task \cup {None}
  BY DEF ReadTypes
<1>2. CASE Returns(t, "error", <<>>) /\ UNCHANGED <<buffer, waiter>>
  BY <1>1, <1>2, Empty, ReturnsTypes
<1>3. CASE Returns(t, "null", <<>>) /\ UNCHANGED <<buffer, waiter>>
  BY <1>1, <1>3, Empty, ReturnsTypes
<1>4. CASE Shift(t, n)
  <2>1. CASE buffer # <<>>
    <3>1. Head(buffer) \in Seq(Int) /\ Tail(buffer) \in Seq(Seq(Int))
      BY <1>1, <2>1, HeadTailProperties
    <3>2. /\ rd' = Reading(t, n, "taken", Head(buffer)) /\ buffer' = Tail(buffer)
          /\ UNCHANGED <<waiter, returned>>
      BY <1>4, <2>1 DEF Shift
    <3>3. rd' \in [Task -> ReadOf]
      BY <3>1, <3>2, Placing
    <3> QED BY <1>1, <3>1, <3>2, <3>3
  <2>2. CASE buffer = <<>>
    <3>1. /\ rd' = Reading(t, n, "waits", <<>>) /\ waiter' = t
          /\ UNCHANGED <<buffer, returned>>
      BY <1>4, <2>2 DEF Shift
    <3>2. rd' \in [Task -> ReadOf]
      BY <3>1, Empty, Placing
    <3> QED BY <1>1, <3>1, <3>2
  <2> QED BY <2>1, <2>2
<1> QED BY <1>2, <1>3, <1>4 DEF Continue
\* And an item pushed into the queue.
LEMMA PushTypes ==
    ASSUME ReadTypes, NEW readers \in [Task -> ReadOf], NEW item \in Seq(Int), Push(readers, item)
    PROVE  rd' \in [Task -> ReadOf] /\ buffer' \in Seq(Seq(Int)) /\ waiter' \in Task \cup {None}
<1>1. buffer \in Seq(Seq(Int)) /\ Append(buffer, item) \in Seq(Seq(Int))
  BY AppendProperties DEF ReadTypes
<1>2. ASSUME waiter # None
      PROVE [readers EXCEPT ![waiter].pc = "taken", ![waiter].chunk = item] \in [Task -> ReadOf]
  <2>1. waiter \in Task
    BY <1>2 DEF ReadTypes
  <2> QED BY <2>1 DEF ReadOf
<1> QED BY <1>1, <1>2 DEF Push
LEMMA ReadKeepsTypes ==
    ASSUME ReadTypes, NEW t \in Task, NEW n \in Size \cup {AnySize}, Read(t, n)
    PROVE  ReadTypes'
<1>1. CASE Continue(t, n) /\ UNCHANGED pumping
  <2>1. overlapped' \in BOOLEAN
    BY DEF Read
  <2> QED BY <1>1, <2>1, ContinueTypes DEF Read, ReadTypes
<1>2. CASE /\ rd' = Reading(t, n, IF pumping THEN "pumped" ELSE "pumps", <<>>)
           /\ pumping' = TRUE /\ UNCHANGED <<buffer, waiter, returned>>
  <2>1. overlapped' \in BOOLEAN
    BY DEF Read
  <2>2. rd' \in [Task -> ReadOf]
    BY <1>2, Empty, Placing
  <2> QED BY <1>2, <2>1, <2>2 DEF Read, ReadTypes
<1> QED BY <1>1, <1>2 DEF Read
LEMMA PumpedTypes ==
    ASSUME ReadTypes
    PROVE  /\ Pumped \in [Task -> ReadOf]
           /\ \A t \in Task : Pumped[t] = IF rd[t].pc = "pumps" THEN [rd[t] EXCEPT !.pc = "pumped"]
                                          ELSE rd[t]
<1>1. DOMAIN rd = Task /\ \A t \in Task : rd[t] \in ReadOf
  BY DEF ReadTypes
<1>2. \A t \in Task : [rd[t] EXCEPT !.pc = "pumped"] \in ReadOf
  BY <1>1 DEF ReadOf
<1> QED BY <1>1, <1>2 DEF Pumped
LEMMA PulledTypes == ASSUME ReadTypes, PipeTypes, Pulled PROVE ReadTypes' /\ fails' \in Nat
<1>1. Pumped \in [Task -> ReadOf]
  BY PumpedTypes
<1>2. CASE /\ pulled < Len(Source) /\ pulled' = pulled + 1 /\ Push(Pumped, Source[pulled'])
           /\ UNCHANGED <<ended, readError, fails>>
  <2>1. pulled + 1 \in 1 .. Len(Source) /\ pulled + 1 \in 0 .. Len(Source)
    BY <1>2, CoreConstants DEF ReadTypes
  <2>2. PICK item \in Seq(Int) : item = Source[pulled + 1]
    BY <2>1, CoreConstants
  <2>3. Push(Pumped, item)
    BY <1>2, <2>2
  <2>4. rd' \in [Task -> ReadOf] /\ buffer' \in Seq(Seq(Int)) /\ waiter' \in Task \cup {None}
    BY <1>1, <2>3, PushTypes
  <2> QED BY <1>2, <2>1, <2>4 DEF Pulled, ReadTypes, PipeTypes
<1>3. CASE /\ pulled = Len(Source) /\ ended' = TRUE /\ rd' = Pumped
           /\ UNCHANGED <<buffer, waiter, pulled, readError, fails>>
  BY <1>1, <1>3 DEF Pulled, ReadTypes, PipeTypes
<1>4. CASE /\ Fails /\ readError' = TRUE /\ rd' = Pumped
           /\ UNCHANGED <<buffer, waiter, pulled, ended>>
  <2>1. fails' = fails + 1 /\ fails \in Nat
    BY <1>4 DEF Fails, PipeTypes
  <2>2. fails' \in Nat
    BY <2>1
  <2>3. ReadTypes'
    BY <1>1, <1>4 DEF Pulled, ReadTypes
  <2> QED BY <2>2, <2>3
<1> QED BY <1>2, <1>3, <1>4 DEF Pulled
\* What is cut off a chunk and what is over are sequences.
LEMMA Halves ==
    ASSUME NEW chunk \in Seq(Int), NEW n \in Nat, ~(Len(chunk) <= n)
    PROVE  SubSeq(chunk, 1, n) \in Seq(Int) /\ SubSeq(chunk, n + 1, Len(chunk)) \in Seq(Int)
<1>1. Len(chunk) \in Nat /\ \A i \in 1 .. Len(chunk) : chunk[i] \in Int
  BY LenProperties
<1>2. \A i \in 1 .. n : chunk[i] \in Int
  BY <1>1
<1>3. \A i \in n + 1 .. Len(chunk) : chunk[i] \in Int
  BY <1>1
<1> QED BY <1>1, <1>2, <1>3, SubSeqProperties
LEMMA HalvesJoin ==
    ASSUME NEW chunk \in Seq(Int), NEW n \in Nat, ~(Len(chunk) <= n)
    PROVE  /\ SubSeq(chunk, 1, n) \o SubSeq(chunk, n + 1, Len(chunk)) = chunk
           /\ Len(SubSeq(chunk, n + 1, Len(chunk))) = Len(chunk) - n
<1>1. PICK k \in Nat : k = Len(chunk) /\ DOMAIN chunk = 1 .. k
  BY LenProperties
<1>2. PICK a \in Seq(Int) : a = SubSeq(chunk, 1, n)
  BY Halves
<1>3. PICK b \in Seq(Int) : b = SubSeq(chunk, n + 1, k)
  BY <1>1, Halves
<1>4. n \in 1 .. k \/ n = 0
  BY <1>1
<1>5. \A i \in 1 .. n : chunk[i] \in Int
  BY <1>1, LenProperties
<1>6. \A i \in n + 1 .. k : chunk[i] \in Int
  BY <1>1, LenProperties
<1>7. Len(a) = n /\ \A i \in 1 .. n : a[i] = chunk[i]
  <2>1. 1 \in Int /\ n \in Int /\ 1 <= n + 1
    OBVIOUS
  <2>2. a = [i \in 1 .. n |-> chunk[i]]
    BY <1>2
  <2>3. DOMAIN a = 1 .. n /\ DOMAIN a = 1 .. Len(a) /\ Len(a) \in Nat
    BY <2>2, LenProperties
  <2> QED BY <2>2, <2>3
<1>8. Len(b) = k - n /\ \A i \in 1 .. k - n : b[i] = chunk[n + i]
  <2>1. b = [i \in 1 .. k - n |-> chunk[n + i]]
    <3>1. b = [i \in 1 .. k - (n + 1) + 1 |-> chunk[i + (n + 1) - 1]]
      BY <1>1, <1>3
    <3>2. k - (n + 1) + 1 = k - n /\ \A i \in 1 .. k - n : i + (n + 1) - 1 = n + i
      BY <1>1
    <3> QED BY <3>1, <3>2
  <2>2. DOMAIN b = 1 .. k - n /\ DOMAIN b = 1 .. Len(b) /\ Len(b) \in Nat /\ k - n \in Nat
    BY <1>1, <2>1, LenProperties
  <2> QED BY <2>1, <2>2
<1>9. PICK c \in Seq(Int) : c = a \o b
  BY ConcatProperties
<1>10. Len(c) = k /\ \A i \in 1 .. k : c[i] = IF i <= n THEN a[i] ELSE b[i - n]
  <2>1. Len(c) = Len(a) + Len(b)
        /\ \A i \in 1 .. Len(c) : c[i] = IF i <= Len(a) THEN a[i] ELSE b[i - Len(a)]
    BY <1>9, ConcatProperties
  <2> QED BY <1>1, <1>7, <1>8, <2>1
<1>11. ASSUME NEW i \in 1 .. k PROVE c[i] = chunk[i]
  <2>1. CASE i <= n
    BY <1>7, <1>10, <2>1
  <2>2. CASE ~(i <= n)
    <3>1. i - n \in 1 .. k - n /\ n + (i - n) = i
      BY <2>2
    <3> QED BY <1>8, <1>10, <2>2, <3>1
  <2> QED BY <2>1, <2>2
<1>12. c = chunk
  BY <1>1, <1>10, <1>11, SeqEqual
<1> QED BY <1>1, <1>2, <1>3, <1>8, <1>9, <1>12
LEMMA TakeTypes == ASSUME ReadTypes, NEW t \in Task, Take(t) PROVE ReadTypes'
<1> DEFINE n == rd[t].n
           chunk == rd[t].chunk
<1>1. chunk \in Seq(Int) /\ n \in Size \cup {AnySize}
  BY ReadPlaces
<1>2. /\ rd' \in [Task -> ReadOf] /\ returned' \in Seq(Return)
      /\ buffer' \in Seq(Seq(Int)) /\ waiter' \in Task \cup {None}
  <2>1. CASE Returns(t, "bytes", chunk) /\ UNCHANGED <<buffer, waiter>>
    BY <1>1, <2>1, ReturnsTypes DEF ReadTypes
  <2>2. CASE /\ returned' = Append(returned, [by |-> t, bytes |-> SubSeq(chunk, 1, n)])
             /\ Push([rd EXCEPT ![t] = Idle], SubSeq(chunk, n + 1, Len(chunk)))
             /\ ~(n = AnySize \/ Len(chunk) <= n)
    <3>1. n \in Nat
      BY <1>1, <2>2, CoreConstants
    <3>2. SubSeq(chunk, 1, n) \in Seq(Int) /\ SubSeq(chunk, n + 1, Len(chunk)) \in Seq(Int)
      <4> HIDE DEF n, chunk
      <4> QED BY <1>1, <2>2, <3>1, Halves
    <3> HIDE DEF n, chunk
    <3>3. [by |-> t, bytes |-> SubSeq(chunk, 1, n)] \in Return
      BY <3>2 DEF Return
    <3>4. returned' \in Seq(Return)
      BY <2>2, <3>3, AppendProperties DEF ReadTypes
    <3>5. [rd EXCEPT ![t] = Idle] \in [Task -> ReadOf]
      BY Empty DEF ReadTypes, ReadOf, Idle
    <3> QED BY <2>2, <3>2, <3>4, <3>5, PushTypes
  <2> QED BY <2>1, <2>2 DEF Take, Cut
<1> QED BY <1>2 DEF Take, ReadTypes

LEMMA AcceptedTypes ==
    ASSUME WriteTypes, NEW t \in Asker, NEW bytes \in Seq(Int), Accepted(t, bytes)
    PROVE  /\ WriteTypes' /\ Given \in Nat
           /\ chain' = Append(chain, [call |-> "write", by |-> t, bytes |-> bytes, number |-> Given + 1])
           /\ [call |-> "write", by |-> t, bytes |-> bytes, number |-> Given + 1] \in CallOf
<1>1. Given \in Nat
  BY LenProperties DEF Given, WriteTypes
<1>2. [call |-> "write", by |-> t, bytes |-> bytes, number |-> Given + 1] \in CallOf
  BY <1>1 DEF CallOf
<1>3. chain' \in Seq(CallOf)
  BY <1>2, AppendProperties DEF Accepted, WriteTypes
<1> QED BY <1>1, <1>2, <1>3 DEF Accepted, WriteTypes
LEMMA HeadOfChain ==
    ASSUME WriteTypes, chain # <<>>
    PROVE  /\ 1 \in DOMAIN chain /\ Head(chain) = chain[1] /\ Head(chain) \in CallOf
           /\ Len(chain) \in Nat \ {0} /\ DOMAIN chain = 1 .. Len(chain)
           /\ Tail(chain) \in Seq(CallOf) /\ Len(Tail(chain)) = Len(chain) - 1
           /\ DOMAIN Tail(chain) = 1 .. Len(chain) - 1
           /\ \A i \in 1 .. Len(chain) - 1 : Tail(chain)[i] = chain[i + 1]
<1>1. chain \in Seq(CallOf)
  BY DEF WriteTypes
<1>2. Len(chain) \in Nat \ {0} /\ DOMAIN chain = 1 .. Len(chain)
  BY <1>1, EmptySeq, LenProperties
<1>3. /\ Head(chain) \in CallOf /\ Tail(chain) \in Seq(CallOf) /\ Len(Tail(chain)) = Len(chain) - 1
      /\ \A i \in 1 .. Len(Tail(chain)) : Tail(chain)[i] = chain[i + 1]
  BY <1>1, HeadTailProperties
<1>4. DOMAIN Tail(chain) = 1 .. Len(Tail(chain))
  BY <1>3, LenProperties
<1> QED BY <1>2, <1>3, <1>4
\* A call to the sink is the last one of its log.
LEMMA SinkGrows ==
    ASSUME WriteTypes, NEW e \in CallOf, sink' = Append(sink, e)
    PROVE  /\ sink' \in Seq(CallOf) /\ Len(sink) \in Nat /\ Len(sink') = Len(sink) + 1
           /\ DOMAIN sink = 1 .. Len(sink) /\ DOMAIN sink' = 1 .. Len(sink) + 1
           /\ sink'[Len(sink) + 1] = e /\ \A i \in 1 .. Len(sink) : sink'[i] = sink[i]
<1>1. sink \in Seq(CallOf)
  BY DEF WriteTypes
<1>2. PICK s \in Seq(CallOf) : s = Append(sink, e)
  BY <1>1, AppendProperties
<1>3. /\ Len(s) = Len(sink) + 1 /\ s[Len(sink) + 1] = e /\ \A i \in 1 .. Len(sink) : s[i] = sink[i]
  BY ONLY <1>1, <1>2, e \in CallOf, AppendProperties
<1>4. Len(sink) \in Nat /\ DOMAIN sink = 1 .. Len(sink) /\ DOMAIN s = 1 .. Len(s)
  BY <1>1, LenProperties
<1> QED BY <1>2, <1>3, <1>4
LEMMA SinkWriteTypes ==
    ASSUME WriteTypes, SinkWrite
    PROVE  WriteTypes' /\ Head(chain) \in CallOf
<1>1. Head(chain) \in CallOf /\ sink' = Append(sink, Head(chain))
  BY HeadOfChain DEF SinkWrite
<1>2. sink' \in Seq(CallOf)
  BY <1>1, SinkGrows
<1> QED BY <1>1, <1>2 DEF SinkWrite, WriteTypes
LEMMA SinkAnswersTypes ==
    ASSUME WriteTypes, PipeTypes, Numbered, SinkAnswers
    PROVE  WriteTypes' /\ PipeTypes'
<1>1. Tail(chain) \in Seq(CallOf)
  BY HeadOfChain DEF SinkAnswers, Numbered
<1>2. served' = served + 1 /\ served \in Nat
  BY DEF SinkAnswers, WriteTypes
<1>3. served' \in Nat
  BY <1>2
<1>4. fails' \in Nat
  <2>1. CASE UNCHANGED fails
    BY <2>1 DEF PipeTypes
  <2>2. CASE fails' = fails + 1
    BY <2>2 DEF PipeTypes
  <2> QED BY <2>1, <2>2 DEF SinkAnswers, Fails
<1> QED BY <1>1, <1>3, <1>4 DEF SinkAnswers, WriteTypes, PipeTypes
LEMMA CallTypes ==
    ASSUME WriteTypes, NEW call \in {"close", "abort"}, NEW t \in Asker, NEW after \in Int,
           Call(call, t, after)
    PROVE  /\ [call |-> call, by |-> t, bytes |-> <<>>, number |-> after] \in CallOf
           /\ sink' = Append(sink, [call |-> call, by |-> t, bytes |-> <<>>, number |-> after])
           /\ sink' \in Seq(CallOf)
<1>1. [call |-> call, by |-> t, bytes |-> <<>>, number |-> after] \in CallOf
  BY Empty DEF CallOf
<1>2. sink' = Append(sink, [call |-> call, by |-> t, bytes |-> <<>>, number |-> after])
  BY DEF Call
<1> QED BY <1>1, <1>2, SinkGrows
LEMMA EndClosesTypes ==
    ASSUME WriteTypes, PipeTypes, NEW t \in Asker, EndCloses(t)
    PROVE  WriteTypes' /\ PipeTypes'
<1>1. endOf[t] \in Int
  BY DEF WriteTypes
<1>2. sink' \in Seq(CallOf)
  BY <1>1, CallTypes DEF EndCloses
<1>3. fails' \in Nat
  <2>1. CASE UNCHANGED fails
    BY <2>1 DEF PipeTypes
  <2>2. CASE fails' = fails + 1
    BY <2>2 DEF PipeTypes
  <2> QED BY <2>1, <2>2 DEF EndCloses, Fails
<1> QED BY <1>2, <1>3 DEF EndCloses, WriteTypes, PipeTypes
LEMMA AbortTypes ==
    ASSUME WriteTypes, NEW t \in Asker, Abort(t), UNCHANGED <<chain, writing, served, endOf>>
    PROVE  WriteTypes'
<1>1. CASE closed
  BY <1>1 DEF Abort, WriteTypes
<1>2. CASE ~closed
  <2>1. sink' \in Seq(CallOf)
    <3>1. Call("abort", t, 0)
      BY <1>2 DEF Abort
    <3>2. 0 \in Int /\ "abort" \in {"close", "abort"}
      OBVIOUS
    <3> QED BY <3>1, <3>2, CallTypes
  <2> QED BY <1>2, <2>1 DEF Abort, WriteTypes
<1> QED BY <1>1, <1>2
LEMMA EndCallTypes ==
    ASSUME WriteTypes, NEW t \in Asker, EndCall(t),
           UNCHANGED <<chain, writing, closed, served, sink>>
    PROVE  WriteTypes'
<1>1. Given \in Nat
  BY LenProperties DEF Given, WriteTypes
<1> QED BY <1>1 DEF EndCall, WriteTypes
LEMMA PipeGotTypes ==
    ASSUME CoreTypes, PipeGot
    PROVE  CoreTypes'
<1>1. ReadTypes'
  <2>1. [rd EXCEPT ![Pipe] = Idle] \in [Task -> ReadOf]
    BY Empty DEF CoreTypes, ReadTypes, ReadOf, Idle
  <2> QED BY <2>1 DEF PipeGot, CoreTypes, ReadTypes
<1>2. WriteTypes'
  <2>1. CASE Accepted(Pipe, rd[Pipe].chunk)
    BY <2>1, CoreConstants, ReadPlaces, AcceptedTypes DEF CoreTypes
  <2>2. CASE EndCall(Pipe) /\ UNCHANGED <<chain, writing, closed, served, sink>>
    BY <2>2, CoreConstants, EndCallTypes DEF CoreTypes
  <2>3. CASE UNCHANGED writable
    BY <2>3 DEF writable, CoreTypes, WriteTypes
  <2> QED BY <2>1, <2>2, <2>3 DEF PipeGot
<1>3. PipeTypes'
  BY DEF PipeGot, CoreTypes, PipeTypes
<1> QED BY <1>1, <1>2, <1>3 DEF CoreTypes
LEMMA SameReads == ASSUME ReadTypes, UNCHANGED readable PROVE ReadTypes'
BY DEF readable, ReadTypes
LEMMA SameWrites == ASSUME WriteTypes, UNCHANGED writable PROVE WriteTypes'
BY DEF writable, WriteTypes
LEMMA SamePipe == ASSUME PipeTypes, UNCHANGED <<pipe, fails>> PROVE PipeTypes'
BY DEF PipeTypes

\* The types, action by action.
LEMMA TypesNext == ASSUME CoreTypes, Numbered, CoreNext PROVE CoreTypes'
<1>1. ReadTypes /\ WriteTypes /\ PipeTypes
  BY DEF CoreTypes
<1>2. CASE PipeRead
  <2>1. ReadTypes'
    BY <1>1, <1>2, CoreConstants, ReadKeepsTypes, SameReads DEF PipeRead
  <2>2. PipeTypes'
    BY <1>1, <1>2 DEF PipeRead, PipeTypes
  <2> QED BY <1>1, <1>2, <2>1, <2>2, SameWrites DEF PipeRead, CoreTypes
<1>3. CASE PipeGot
  BY <1>3, PipeGotTypes
<1>4. CASE PipeCancels
  <2>1. fails' \in Nat
    <3>1. CASE UNCHANGED fails
      BY <1>1, <3>1 DEF PipeTypes
    <3>2. CASE fails' = fails + 1
      BY <1>1, <3>2 DEF PipeTypes
    <3> QED BY <1>4, <3>1, <3>2 DEF PipeCancels, Fails
  <2>2. PipeTypes'
    BY <1>1, <1>4, <2>1 DEF PipeCancels, PipeTypes
  <2>3. ReadTypes'
    BY <1>1, <1>4 DEF PipeCancels, Cancelled, ReadTypes
  <2> QED BY <1>1, <1>4, <2>2, <2>3, SameWrites DEF PipeCancels, CoreTypes
<1>5. CASE PipeAborts
  <2>1. WriteTypes'
    BY <1>1, <1>5, CoreConstants, AbortTypes DEF PipeAborts
  <2>2. PipeTypes'
    BY <1>1, <1>5 DEF PipeAborts, PipeTypes
  <2> QED BY <1>1, <1>5, <2>1, <2>2, SameReads DEF PipeAborts, CoreTypes
<1>6. CASE Pulled
  <2>1. ReadTypes' /\ fails' \in Nat
    BY <1>1, <1>6, PulledTypes
  <2>2. PipeTypes'
    BY <1>1, <1>6, <2>1 DEF Pulled, PipeTypes
  <2> QED BY <1>1, <1>6, <2>1, <2>2, SameWrites DEF Pulled, CoreTypes
<1>7. CASE SinkAnswers
  BY <1>1, <1>7, SinkAnswersTypes, SameReads DEF SinkAnswers, CoreTypes
<1>8. CASE SinkWrite
  BY <1>1, <1>8, SinkWriteTypes, SameReads, SamePipe DEF SinkWrite, CoreTypes
<1>9. ASSUME NEW t \in {Pipe, User}, EndCloses(t) PROVE CoreTypes'
  BY <1>1, <1>9, EndClosesTypes, SameReads DEF EndCloses, CoreTypes, Asker
<1>10. ASSUME NEW t \in DOMAIN rd, ReadOn(t) \/ Take(t) PROVE CoreTypes'
  <2>1. t \in Task
    BY <1>1 DEF ReadTypes
  <2>2. ReadTypes'
    <3>1. CASE ReadOn(t)
      <4>1. rd[t].n \in Size \cup {AnySize}
        BY <1>1, <2>1, ReadPlaces
      <4>2. /\ rd' \in [Task -> ReadOf] /\ returned' \in Seq(Return)
            /\ buffer' \in Seq(Seq(Int)) /\ waiter' \in Task \cup {None}
        BY <1>1, <2>1, <3>1, <4>1, ContinueTypes DEF ReadOn
      <4> QED BY <1>1, <3>1, <4>2 DEF ReadOn, ReadTypes
    <3> QED BY <1>1, <1>10, <2>1, <3>1, TakeTypes
  <2>3. UNCHANGED writable /\ UNCHANGED <<pipe, fails>>
    BY <1>10 DEF ReadOn, Take
  <2> QED BY <1>1, <2>2, <2>3, SameWrites, SamePipe DEF CoreTypes
<1>11. ASSUME NEW t \in Reader, UserRead(t) PROVE CoreTypes'
  BY <1>1, <1>11, CoreConstants, ReadKeepsTypes, SameWrites, SamePipe DEF UserRead, CoreTypes
<1>12. CASE UserCancel
  <2>1. ReadTypes'
    BY <1>1, <1>12 DEF UserCancel, Cancelled, ReadTypes
  <2>2. PipeTypes'
    BY <1>1, <1>12 DEF UserCancel, Fails, PipeTypes
  <2> QED BY <1>1, <1>12, <2>1, <2>2, SameWrites DEF UserCancel, CoreTypes
<1>13. CASE UserWrite
  <2>1. <<Extra>> \in Seq(Int)
    BY DEF Extra
  <2>2. WriteTypes'
    BY <1>1, <1>13, <2>1, CoreConstants, AcceptedTypes DEF UserWrite
  <2>3. UNCHANGED readable /\ UNCHANGED <<pipe, fails>>
    BY <1>13 DEF UserWrite, readable
  <2> QED BY <1>1, <2>2, <2>3, SameReads, SamePipe DEF CoreTypes
<1>14. CASE UserEnd
  <2>1. WriteTypes'
    BY <1>1, <1>14, CoreConstants, EndCallTypes DEF UserEnd
  <2> QED BY <1>1, <1>14, <2>1, SameReads, SamePipe DEF UserEnd, CoreTypes
<1>15. CASE UserAbort
  <2>1. WriteTypes'
    BY <1>1, <1>15, CoreConstants, AbortTypes DEF UserAbort
  <2> QED BY <1>1, <1>15, <2>1, SameReads, SamePipe DEF UserAbort, CoreTypes
<1>16. CASE PipeStart
  <2>1. PipeTypes'
    BY <1>1, <1>16 DEF PipeStart, PipeTypes
  <2> QED BY <1>1, <1>16, <2>1, SameReads, SameWrites DEF PipeStart, CoreTypes
<1>17. CASE Signal
  BY <1>1, <1>17, SameReads, SameWrites, SamePipe DEF Signal, CoreTypes
<1> QED BY <1>2, <1>3, <1>4, <1>5, <1>6, <1>7, <1>8, <1>9, <1>10, <1>11, <1>12, <1>13, <1>14,
           <1>15, <1>16, <1>17 DEF CoreNext, PipeSteps, Answers, ReadSteps, UserSteps

\* The ways in which a read moves the stream while no two reads met: it asks
\* the source, it stops with an outcome for the pipe, or it takes an item.
Alone(t) == \A u \in Task : u # t => rd[u].pc = "idle"
Asks(t, n) ==
    /\ ~ended /\ buffer = <<>>
    /\ rd' = Reading(t, n, "pumps", <<>>) /\ pumping' = TRUE /\ UNCHANGED buffer
Stops(t, outcome) ==
    /\ rd' = Reading(t, AnySize, IF t = Pipe THEN outcome ELSE "idle", <<>>)
    /\ UNCHANGED <<pumping, buffer>>
TakesItem(t, n) ==
    /\ buffer # <<>> /\ rd' = Reading(t, n, "taken", Head(buffer)) /\ buffer' = Tail(buffer)
    /\ UNCHANGED pumping
ReadMoves(t, n) ==
    /\ Alone(t) /\ rd[t].pc \in {"idle", "pumped"} /\ ~pumping
    /\ t = Pipe => n = AnySize /\ pipe \in {"loop", "reading"}
    /\ pipe' = IF t = Pipe THEN "reading" ELSE pipe
    /\ \/ Asks(t, n)
       \/ readError /\ Stops(t, "error")
       \/ buffer = <<>> /\ ended /\ Stops(t, "null")
       \/ TakesItem(t, n)
    /\ UNCHANGED <<waiter, returned, ended, readError, pulled, cancelled, overlapped, writable,
                   fails>>
LEMMA ContinueMoves ==
    ASSUME NEW t, NEW n, Continue(t, n), buffer # <<>> \/ ended \/ readError, UNCHANGED pumping
    PROVE  /\ \/ readError /\ Stops(t, "error")
              \/ buffer = <<>> /\ ended /\ Stops(t, "null")
              \/ TakesItem(t, n)
           /\ UNCHANGED <<waiter, returned>>
<1>1. CASE readError
  BY <1>1 DEF Continue, Returns, Stops
<1>2. CASE ~readError /\ buffer = <<>> /\ ended
  BY <1>2 DEF Continue, Returns, Stops
<1>3. CASE ~readError /\ buffer # <<>>
  BY <1>3 DEF Continue, Shift, TakesItem
<1> QED BY <1>1, <1>2, <1>3
\* Nobody is asked for a chunk but by the one that reads.
LEMMA AloneIs ==
    ASSUME OneReader, ~overlapped, NEW t \in Task, rd[t].pc # "idle"
    PROVE  Alone(t) /\ (pumping => rd[t].pc = "pumps")
<1>1. Alone(t)
  BY DEF OneReader, Alone
<1> QED BY <1>1 DEF OneReader, Alone
LEMMA ReadIsMove ==
    ASSUME CoreTypes, OneReader, ~overlapped', NEW t \in Task, NEW n, Read(t, n)
    PROVE  /\ ~overlapped /\ ~overlapped' /\ Alone(t) /\ rd[t].pc = "idle" /\ ~pumping
           /\ \/ Asks(t, n)
              \/ readError /\ Stops(t, "error")
              \/ buffer = <<>> /\ ended /\ Stops(t, "null")
              \/ TakesItem(t, n)
           /\ UNCHANGED <<waiter, returned, ended, readError, pulled, cancelled>>
<1>1. DOMAIN rd = Task /\ overlapped \in BOOLEAN
  BY DEF CoreTypes, ReadTypes
<1>2. ~overlapped /\ Alone(t) /\ rd[t].pc = "idle"
  BY <1>1 DEF Read, Alone
<1>3. ~pumping
  <2>1. \A u \in Task : rd[u].pc = "idle"
    BY <1>2 DEF Alone
  <2> QED BY <1>2, <2>1 DEF OneReader
<1>4. CASE readError \/ ended \/ buffer # <<>>
  <2>1. Continue(t, n) /\ UNCHANGED pumping
    BY <1>4 DEF Read
  <2> QED BY <1>2, <1>3, <1>4, <2>1, ContinueMoves DEF Read
<1>5. CASE ~(readError \/ ended \/ buffer # <<>>)
  <2>1. Asks(t, n) /\ UNCHANGED <<waiter, returned>>
    BY <1>3, <1>5 DEF Read, Asks
  <2> QED BY <1>2, <1>3, <2>1 DEF Read
<1> QED BY <1>4, <1>5
LEMMA UserReadMoves ==
    ASSUME CoreTypes, OneReader, ~overlapped', NEW t \in Reader, UserRead(t)
    PROVE  ~overlapped /\ \E n \in Size \cup {AnySize} : ReadMoves(t, n)
<1>1. t \in Task /\ t # Pipe
  BY CoreConstants
<1>2. PICK n \in Size \cup {AnySize} : Read(t, n)
  BY DEF UserRead
<1>3. UNCHANGED <<writable, pipe, fails>>
  BY DEF UserRead
<1>4. /\ ~overlapped /\ ~overlapped' /\ Alone(t) /\ rd[t].pc = "idle" /\ ~pumping
      /\ \/ Asks(t, n)
         \/ readError /\ Stops(t, "error")
         \/ buffer = <<>> /\ ended /\ Stops(t, "null")
         \/ TakesItem(t, n)
      /\ UNCHANGED <<waiter, returned, ended, readError, pulled, cancelled>>
  BY <1>1, <1>2, ReadIsMove
<1>5. overlapped' = overlapped
  BY <1>2, <1>4 DEF CoreTypes, ReadTypes, Read
<1>6. ReadMoves(t, n)
  BY <1>1, <1>3, <1>4, <1>5 DEF ReadMoves
<1> QED BY <1>4, <1>6
LEMMA PipeReadMoves ==
    ASSUME CoreTypes, OneReader, ~overlapped', PipeRead, Read(Pipe, AnySize), pipe' = "reading"
    PROVE  ~overlapped /\ ReadMoves(Pipe, AnySize)
<1>1. Pipe \in Task
  BY CoreConstants
<1>2. pipe = "loop" /\ UNCHANGED <<writable, fails>>
  BY DEF PipeRead
<1>3. /\ ~overlapped /\ ~overlapped' /\ Alone(Pipe) /\ rd[Pipe].pc = "idle" /\ ~pumping
      /\ \/ Asks(Pipe, AnySize)
         \/ readError /\ Stops(Pipe, "error")
         \/ buffer = <<>> /\ ended /\ Stops(Pipe, "null")
         \/ TakesItem(Pipe, AnySize)
      /\ UNCHANGED <<waiter, returned, ended, readError, pulled, cancelled>>
  BY <1>1, ReadIsMove
<1>4. overlapped' = overlapped
  BY <1>3, CoreConstants DEF CoreTypes, ReadTypes, Read
<1> QED BY <1>2, <1>3, <1>4 DEF ReadMoves
LEMMA ReadOnMoves ==
    ASSUME CoreTypes, OneReader, ~overlapped', NEW t \in Task, ReadOn(t)
    PROVE  ~overlapped /\ ReadMoves(t, rd[t].n)
<1>1. UNCHANGED overlapped
  BY DEF ReadOn
<1>2. ~overlapped /\ UNCHANGED <<ended, readError, pulled, cancelled, overlapped, writable, pipe, fails, pumping>>
  BY <1>1 DEF ReadOn, CoreTypes, ReadTypes
<1>3. rd[t].pc = "pumped" /\ Continue(t, rd[t].n)
  BY DEF ReadOn
<1>4. Alone(t) /\ ~pumping
  <2>1. Alone(t) /\ (pumping => rd[t].pc = "pumps")
    BY <1>2, <1>3, AloneIs
  <2> QED BY <1>3, <2>1 DEF CoreTypes, ReadTypes
<1>5. buffer # <<>> \/ ended \/ readError
  BY <1>2, <1>3 DEF OneReader
<1>6. /\ \/ readError /\ Stops(t, "error")
         \/ buffer = <<>> /\ ended /\ Stops(t, "null")
         \/ TakesItem(t, rd[t].n)
      /\ UNCHANGED <<waiter, returned>>
  BY <1>2, <1>3, <1>5, ContinueMoves
<1>7. t = Pipe => rd[t].n = AnySize /\ pipe = "reading"
  BY <1>2, <1>3, CoreConstants DEF OneReader
<1> QED BY <1>2, <1>3, <1>4, <1>6, <1>7 DEF ReadMoves

\* A read that has its item gives all of it to its caller, or puts back what is
\* over the size a user asked for.
TakeMoves(t) ==
    /\ Alone(t) /\ rd[t].pc = "taken" /\ (t = Pipe => pipe = "reading") /\ ~pumping
    /\ \/ /\ rd' = Reading(t, AnySize, IF t = Pipe THEN "bytes" ELSE "idle", rd[t].chunk)
          /\ returned' = Append(returned, [by |-> t, bytes |-> rd[t].chunk])
          /\ UNCHANGED buffer
       \/ /\ t # Pipe /\ rd' = [rd EXCEPT ![t] = Idle]
          /\ \E e \in Return, rest \in Seq(Int) :
                /\ e.by = t /\ returned' = Append(returned, e)
                /\ buffer' = Append(buffer, rest) /\ e.bytes \o rest = rd[t].chunk
    /\ UNCHANGED <<waiter, ended, readError, pumping, pulled, cancelled, overlapped, writable, pipe,
                   fails>>
LEMMA TakeIsMove ==
    ASSUME CoreTypes, OneReader, ~overlapped', NEW t \in Task, Take(t)
    PROVE  ~overlapped /\ TakeMoves(t)
<1>1. UNCHANGED overlapped /\ UNCHANGED <<ended, readError, pulled, cancelled, writable, pipe, fails, pumping>>
  BY DEF Take
<1>2. ~overlapped /\ rd[t].pc = "taken"
  BY <1>1 DEF Take, Cut, CoreTypes, ReadTypes
<1>3. waiter = None /\ Alone(t) /\ ~pumping
  <2>1. Alone(t) /\ (pumping => rd[t].pc = "pumps")
    BY <1>2, AloneIs
  <2> QED BY <1>2, <2>1 DEF OneReader, CoreTypes, ReadTypes
<1>4. t = Pipe => rd[t].n = AnySize /\ pipe = "reading"
  BY <1>2, CoreConstants DEF OneReader
<1> DEFINE n == rd[t].n
           chunk == rd[t].chunk
<1>5. CASE Returns(t, "bytes", chunk) /\ UNCHANGED <<buffer, waiter>>
  BY <1>1, <1>2, <1>3, <1>4, <1>5 DEF Returns, TakeMoves
<1>6. CASE /\ returned' = Append(returned, [by |-> t, bytes |-> SubSeq(chunk, 1, n)])
           /\ Push([rd EXCEPT ![t] = Idle], SubSeq(chunk, n + 1, Len(chunk)))
           /\ ~(n = AnySize \/ Len(chunk) <= n)
  <2>1. t # Pipe
    BY <1>4, <1>6
  <2>2. /\ rd' = [rd EXCEPT ![t] = Idle] /\ waiter' = waiter
        /\ buffer' = Append(buffer, SubSeq(chunk, n + 1, Len(chunk)))
    BY <1>3, <1>6 DEF Push
  <2>3. n \in Nat /\ chunk \in Seq(Int)
    <3>1. n \in Size \cup {AnySize} /\ chunk \in Seq(Int)
      BY ReadPlaces DEF CoreTypes
    <3> QED BY <1>6, <3>1, CoreConstants
  <2>4. PICK part \in Seq(Int), rest \in Seq(Int) :
           /\ part = SubSeq(chunk, 1, n) /\ rest = SubSeq(chunk, n + 1, Len(chunk))
           /\ part \o rest = chunk
    <3> HIDE DEF n, chunk
    <3> QED BY <1>6, <2>3, Halves, HalvesJoin
  <2>5. PICK e \in Return : e = [by |-> t, bytes |-> part]
    BY DEF Return
  <2>6. /\ e.by = t /\ returned' = Append(returned, e)
        /\ buffer' = Append(buffer, rest) /\ e.bytes \o rest = rd[t].chunk
    BY <1>6, <2>2, <2>4, <2>5
  <2> QED BY <1>1, <1>2, <1>3, <2>1, <2>2, <2>6 DEF TakeMoves
<1>7. \/ Returns(t, "bytes", chunk) /\ UNCHANGED <<buffer, waiter>>
      \/ /\ returned' = Append(returned, [by |-> t, bytes |-> SubSeq(chunk, 1, n)])
         /\ Push([rd EXCEPT ![t] = Idle], SubSeq(chunk, n + 1, Len(chunk)))
         /\ ~(n = AnySize \/ Len(chunk) <= n)
  BY DEF Take, Cut
<1> QED BY <1>2, <1>5, <1>6, <1>7
\* The source's answer goes to the end of the queue.
PullMoves(t) ==
    /\ Alone(t) /\ rd[t].pc = "pumps" /\ pumping /\ pumping' = FALSE
    /\ rd'[t] = [rd[t] EXCEPT !.pc = "pumped"] /\ \A u \in Task : u # t => rd'[u] = rd[u]
    /\ \/ /\ pulled + 1 \in 1 .. Len(Source) /\ pulled' = pulled + 1
          /\ buffer' = Append(buffer, Source[pulled + 1])
          /\ UNCHANGED <<ended, readError>>
       \/ pulled = Len(Source) /\ ended' = TRUE /\ UNCHANGED <<buffer, pulled, readError>>
       \/ readError' = TRUE /\ UNCHANGED <<buffer, pulled, ended>>
    /\ UNCHANGED <<waiter, returned, overlapped, cancelled, writable, pipe>>
LEMMA PulledMoves ==
    ASSUME CoreTypes, OneReader, ~overlapped', Pulled
    PROVE  ~overlapped /\ \E t \in Task : PullMoves(t)
<1>1. /\ UNCHANGED <<returned, overlapped, cancelled, writable, pipe>> /\ pumping /\ pumping' = FALSE
      /\ ~overlapped
  BY DEF Pulled, CoreTypes, ReadTypes
<1>2. PICK t \in Task : rd[t].pc = "pumps"
  BY <1>1 DEF OneReader
<1>3. Alone(t) /\ waiter = None
  BY <1>1, <1>2, AloneIs DEF OneReader
<1>4. /\ Pumped[t] = [rd[t] EXCEPT !.pc = "pumped"]
      /\ \A u \in Task : u # t => Pumped[u] = rd[u]
  BY <1>2, <1>3, PumpedTypes DEF Alone, CoreTypes
<1>5. CASE pulled < Len(Source) /\ pulled' = pulled + 1 /\ Push(Pumped, Source[pulled'])
           /\ UNCHANGED <<ended, readError, fails>>
  <2>1. pulled + 1 \in 1 .. Len(Source)
    BY <1>5, CoreConstants DEF CoreTypes, ReadTypes
  <2>2. rd' = Pumped /\ waiter' = None /\ buffer' = Append(buffer, Source[pulled + 1])
    BY <1>3, <1>5 DEF Push
  <2> QED BY <1>1, <1>2, <1>3, <1>4, <1>5, <2>1, <2>2 DEF PullMoves
<1>6. CASE /\ pulled = Len(Source) /\ ended' = TRUE /\ rd' = Pumped
           /\ UNCHANGED <<buffer, waiter, pulled, readError>>
  BY <1>1, <1>2, <1>3, <1>4, <1>6 DEF PullMoves
<1>7. CASE readError' = TRUE /\ rd' = Pumped /\ UNCHANGED <<buffer, waiter, pulled, ended>>
  BY <1>1, <1>2, <1>3, <1>4, <1>7 DEF PullMoves
<1> QED BY <1>1, <1>5, <1>6, <1>7 DEF Pulled

\* The steps that no read is moved by.
Beside ==
    \/ PipeRead /\ pipe' = "fails" /\ UNCHANGED readable
    \/ PipeCancels \/ PipeAborts \/ SinkAnswers \/ SinkWrite \/ \E t \in Asker : EndCloses(t)
    \/ UserCancel \/ UserWrite \/ UserEnd \/ UserAbort \/ PipeStart \/ Signal
LEMMA Kinds ==
    ASSUME CoreTypes, OneReader, CoreNext, ~overlapped'
    PROVE  /\ ~overlapped
           /\ \/ \E t \in Task : \E n \in Size \cup {AnySize} : ReadMoves(t, n)
              \/ \E t \in Task : TakeMoves(t)
              \/ \E t \in Task : PullMoves(t)
              \/ PipeGot \/ Beside
<1>1. DOMAIN rd = Task /\ Reader \subseteq Task /\ Pipe \in Task
  BY CoreConstants DEF CoreTypes, ReadTypes
<1>2. ASSUME NEW t \in Task, ReadOn(t)
      PROVE  ~overlapped /\ \E n \in Size \cup {AnySize} : ReadMoves(t, n)
  BY <1>2, ReadOnMoves, ReadPlaces DEF CoreTypes
<1>3. ASSUME NEW t \in Task, Take(t) PROVE ~overlapped /\ TakeMoves(t)
  BY <1>3, TakeIsMove
<1>4. ASSUME NEW t \in Reader, UserRead(t)
      PROVE  ~overlapped /\ \E n \in Size \cup {AnySize} : ReadMoves(t, n)
  BY <1>4, UserReadMoves
<1>5. CASE Pulled
  BY <1>5, PulledMoves
<1>6. CASE PipeRead
  <2>1. CASE UNCHANGED readable /\ pipe' = "fails"
    BY <1>6, <2>1 DEF readable, Beside, CoreTypes, ReadTypes
  <2>2. CASE pipe' = "reading" /\ Read(Pipe, AnySize)
    BY <1>1, <1>6, <2>2, PipeReadMoves
  <2> QED BY <1>6, <2>1, <2>2 DEF PipeRead
<1>7. CASE ReadSteps
  BY <1>1, <1>2, <1>3, <1>7 DEF ReadSteps
<1>8. CASE UserSteps
  <2>1. CASE \E t \in Reader : UserRead(t)
    BY <1>1, <1>4, <2>1
  <2>2. CASE UserCancel \/ UserWrite \/ UserEnd \/ UserAbort \/ PipeStart \/ Signal
    <3>1. UNCHANGED overlapped
      BY <2>2 DEF UserCancel, UserWrite, UserEnd, UserAbort, PipeStart, Signal, readable
    <3> QED BY <2>2, <3>1 DEF Beside, CoreTypes, ReadTypes
  <2> QED BY <1>8, <2>1, <2>2 DEF UserSteps
<1>9. CASE PipeGot
  BY <1>9 DEF PipeGot, CoreTypes, ReadTypes
<1>10. CASE PipeCancels \/ PipeAborts \/ SinkAnswers \/ SinkWrite \/ \E t \in {Pipe, User} : EndCloses(t)
  <2>1. UNCHANGED overlapped
    BY <1>10 DEF PipeCancels, PipeAborts, SinkAnswers, SinkWrite, EndCloses, readable
  <2> QED BY <1>10, <2>1 DEF Beside, Asker, CoreTypes, ReadTypes
<1> QED BY <1>5, <1>6, <1>7, <1>8, <1>9, <1>10 DEF CoreNext, PipeSteps, Answers
\* What they leave to the reads.
LEMMA BesideReads ==
    ASSUME CoreTypes, Numbered, Settles, Beside
    PROVE  /\ UNCHANGED <<buffer, waiter, readError, pumping, pulled, rd, returned, overlapped>>
           /\ (pipe' = "reading" <=> pipe = "reading") /\ (ended => ended')
<1>1. CASE PipeRead /\ pipe' = "fails" /\ UNCHANGED readable
  BY <1>1 DEF PipeRead, readable
<1>2. CASE PipeCancels \/ PipeAborts \/ UserCancel
  BY <1>2 DEF PipeCancels, PipeAborts, UserCancel, Cancelled, readable
<1>3. CASE SinkAnswers
  <2>1. Head(chain).by = Pipe => pipe = "writing"
    BY <1>3, HeadOfChain DEF SinkAnswers, Numbered, CoreTypes
  <2> QED BY <1>3, <2>1 DEF SinkAnswers, readable
<1>4. ASSUME NEW t \in Asker, EndCloses(t)
      PROVE  /\ UNCHANGED <<buffer, waiter, readError, pumping, pulled, rd, returned, overlapped>>
             /\ (pipe' = "reading" <=> pipe = "reading") /\ (ended => ended')
  <2>1. t = Pipe => pipe = "ending"
    BY <1>4 DEF EndCloses, Settles
  <2> QED BY <1>4, <2>1 DEF EndCloses, readable
<1>5. CASE SinkWrite \/ UserWrite \/ UserEnd \/ UserAbort \/ PipeStart \/ Signal
  BY <1>5 DEF SinkWrite, UserWrite, UserEnd, UserAbort, PipeStart, Signal, readable
<1> QED BY <1>1, <1>2, <1>3, <1>4, <1>5 DEF Beside
\* Where a read that moved stands.
LEMMA ReadMovesPlaces ==
    ASSUME CoreTypes, NEW t \in Task, NEW n \in Size \cup {AnySize}, ReadMoves(t, n)
    PROVE  /\ \A u \in Task : u # t => rd'[u] = rd[u]
           /\ rd'[t].pc \in {"idle", "pumps", "taken", "null", "error"}
           /\ IF t = Pipe THEN rd'[t].pc # "idle" ELSE rd'[t].pc \notin {"null", "error"}
           /\ rd'[t].n \in {n, AnySize}
           /\ rd'[t].pc = "pumps" => pumping'
           /\ pumping' => rd'[t].pc = "pumps"
           /\ rd'[t].pc = "taken" => buffer # <<>> /\ rd'[t].chunk = Head(buffer) /\ buffer' = Tail(buffer)
           /\ rd'[t].pc # "taken" => buffer' = buffer
           /\ rd'[t].pc = "null" => buffer = <<>> /\ ended
           /\ rd'[t].pc = "pumps" => buffer = <<>> /\ ~ended
<1>1. ReadTypes /\ DOMAIN rd = Task
  BY DEF CoreTypes, ReadTypes
<1>2. ~pumping
  BY DEF ReadMoves
<1>3. CASE Asks(t, n)
  <2>1. rd' = [rd EXCEPT ![t] = [n |-> n, pc |-> "pumps", chunk |-> <<>>]]
    BY <1>3 DEF Asks, Reading
  <2>2. rd'[t] = [n |-> n, pc |-> "pumps", chunk |-> <<>>] /\ \A u \in Task : u # t => rd'[u] = rd[u]
    BY <1>1, <2>1
  <2>3. rd'[t].pc = "pumps" /\ rd'[t].n = n
    BY <2>2
  <2> QED BY <1>3, <2>2, <2>3 DEF Asks
<1>4. CASE readError /\ Stops(t, "error")
  <2>1. PICK pc \in {"error", "idle"} : pc = IF t = Pipe THEN "error" ELSE "idle"
    OBVIOUS
  <2>2. rd' = [rd EXCEPT ![t] = [n |-> AnySize, pc |-> pc, chunk |-> <<>>]]
    BY <1>4, <2>1 DEF Stops, Reading
  <2>3. rd'[t] = [n |-> AnySize, pc |-> pc, chunk |-> <<>>] /\ \A u \in Task : u # t => rd'[u] = rd[u]
    BY <1>1, <2>2
  <2>4. rd'[t].pc = pc /\ rd'[t].n = AnySize
    BY <2>3
  <2> QED BY <1>2, <1>4, <2>1, <2>3, <2>4 DEF Stops
<1>5. CASE buffer = <<>> /\ ended /\ Stops(t, "null")
  <2>1. PICK pc \in {"null", "idle"} : pc = IF t = Pipe THEN "null" ELSE "idle"
    OBVIOUS
  <2>2. rd' = [rd EXCEPT ![t] = [n |-> AnySize, pc |-> pc, chunk |-> <<>>]]
    BY <1>5, <2>1 DEF Stops, Reading
  <2>3. rd'[t] = [n |-> AnySize, pc |-> pc, chunk |-> <<>>] /\ \A u \in Task : u # t => rd'[u] = rd[u]
    BY <1>1, <2>2
  <2>4. rd'[t].pc = pc /\ rd'[t].n = AnySize
    BY <2>3
  <2> QED BY <1>2, <1>5, <2>1, <2>3, <2>4 DEF Stops
<1>6. CASE TakesItem(t, n)
  <2>1. PICK item : item = Head(buffer)
    OBVIOUS
  <2>2. rd' = [rd EXCEPT ![t] = [n |-> n, pc |-> "taken", chunk |-> item]]
    BY <1>6, <2>1 DEF TakesItem, Reading
  <2>3. rd'[t] = [n |-> n, pc |-> "taken", chunk |-> item] /\ \A u \in Task : u # t => rd'[u] = rd[u]
    BY <1>1, <2>2
  <2>4. rd'[t].pc = "taken" /\ rd'[t].n = n /\ rd'[t].chunk = item
    BY <2>3
  <2> QED BY <1>2, <1>6, <2>1, <2>3, <2>4 DEF TakesItem
<1> QED BY <1>3, <1>4, <1>5, <1>6 DEF ReadMoves
LEMMA TakeMovesPlaces ==
    ASSUME CoreTypes, NEW t \in Task, TakeMoves(t)
    PROVE  /\ \A u \in Task : u # t => rd'[u] = rd[u]
           /\ rd'[t].pc = IF t = Pipe THEN "bytes" ELSE "idle"
           /\ rd'[t].n = AnySize
           /\ t = Pipe => rd'[t].chunk = rd[t].chunk
<1>1. ReadTypes /\ DOMAIN rd = Task /\ rd[t].chunk \in Seq(Int)
  BY ReadPlaces DEF CoreTypes, ReadTypes
<1>2. CASE rd' = Reading(t, AnySize, IF t = Pipe THEN "bytes" ELSE "idle", rd[t].chunk)
  <2>1. PICK pc \in {"bytes", "idle"} : pc = IF t = Pipe THEN "bytes" ELSE "idle"
    OBVIOUS
  <2>2. rd' = [rd EXCEPT ![t] = [n |-> AnySize, pc |-> pc, chunk |-> rd[t].chunk]]
    BY <1>2, <2>1 DEF Reading
  <2>3. /\ rd'[t] = [n |-> AnySize, pc |-> pc, chunk |-> rd[t].chunk]
        /\ \A u \in Task : u # t => rd'[u] = rd[u]
    BY <1>1, <2>2
  <2>4. rd'[t].pc = pc /\ rd'[t].n = AnySize /\ rd'[t].chunk = rd[t].chunk
    BY <2>3
  <2> QED BY <2>1, <2>3, <2>4
<1>3. CASE t # Pipe /\ rd' = [rd EXCEPT ![t] = Idle]
  BY <1>1, <1>3 DEF Idle
<1> QED BY <1>2, <1>3 DEF TakeMoves
LEMMA GotPlaces ==
    ASSUME CoreTypes, PipeGot
    PROVE  /\ rd'[Pipe] = Idle /\ \A u \in Task : u # Pipe => rd'[u] = rd[u]
           /\ rd[Pipe].pc \in {"bytes", "null", "error"} /\ pipe = "reading" /\ pipe' # "reading"
           /\ UNCHANGED <<buffer, waiter, ended, readError, pumping, pulled, returned, overlapped,
                          cancelled, fails>>
BY CoreConstants DEF PipeGot, CoreTypes, ReadTypes

LEMMA OneReaderNext ==
    ASSUME CoreTypes, OneReader, Numbered, Settles, CoreNext
    PROVE  OneReader'
<1>0. SUFFICES ASSUME ~overlapped'
      PROVE /\ \A t, u \in Task : rd'[t].pc # "idle" /\ rd'[u].pc # "idle" => t = u
            /\ waiter' = None /\ \A t \in Task : rd'[t].pc # "waits"
            /\ pumping' => \E t \in Task : rd'[t].pc = "pumps"
            /\ \A t \in Task : rd'[t].pc = "pumped" => buffer' # <<>> \/ ended' \/ readError'
            /\ \A t \in Reader : rd'[t].pc \notin {"bytes", "null", "error"}
            /\ rd'[Pipe].n = AnySize /\ (rd'[Pipe].pc # "idle" <=> pipe' = "reading")
  BY DEF OneReader
<1>1. ~overlapped /\ Pipe \in Task /\ Pipe \notin Reader /\ Reader \subseteq Task
  BY <1>0, Kinds, CoreConstants
<1>2. /\ \A t, u \in Task : rd[t].pc # "idle" /\ rd[u].pc # "idle" => t = u
      /\ waiter = None /\ \A t \in Task : rd[t].pc # "waits"
      /\ pumping => \E t \in Task : rd[t].pc = "pumps"
      /\ \A t \in Task : rd[t].pc = "pumped" => buffer # <<>> \/ ended \/ readError
      /\ \A t \in Reader : rd[t].pc \notin {"bytes", "null", "error"}
      /\ rd[Pipe].n = AnySize /\ (rd[Pipe].pc # "idle" <=> pipe = "reading")
  BY <1>1 DEF OneReader
<1>3. ASSUME NEW t \in Task, NEW n \in Size \cup {AnySize}, ReadMoves(t, n)
      PROVE OneReader'
  <2>1. /\ \A u \in Task : u # t => rd'[u] = rd[u]
        /\ rd'[t].pc \in {"idle", "pumps", "taken", "null", "error"}
        /\ IF t = Pipe THEN rd'[t].pc # "idle" ELSE rd'[t].pc \notin {"null", "error"}
        /\ rd'[t].n \in {n, AnySize}
        /\ pumping' => rd'[t].pc = "pumps"
    BY <1>3, ReadMovesPlaces
  <2>2. /\ \A u \in Task : u # t => rd[u].pc = "idle"
        /\ t = Pipe => n = AnySize
        /\ pipe' = (IF t = Pipe THEN "reading" ELSE pipe) /\ waiter' = waiter
    BY <1>3 DEF ReadMoves, Alone
  <2>3. t # Pipe => t \in Reader
    BY DEF Task
  <2>4. rd'[Pipe].n = AnySize /\ (rd'[Pipe].pc # "idle" <=> pipe' = "reading")
    BY <1>1, <1>2, <2>1, <2>2
  <2> QED BY <1>1, <1>2, <2>1, <2>2, <2>3, <2>4 DEF OneReader
<1>4. ASSUME NEW t \in Task, TakeMoves(t) PROVE OneReader'
  <2>1. /\ \A u \in Task : u # t => rd'[u] = rd[u]
        /\ rd'[t].pc = IF t = Pipe THEN "bytes" ELSE "idle"
    BY <1>4, TakeMovesPlaces
  <2>2. rd'[t].n = AnySize
    BY <1>4, TakeMovesPlaces
  <2>3. /\ \A u \in Task : u # t => rd[u].pc = "idle"
        /\ t = Pipe => pipe = "reading"
        /\ pipe' = pipe /\ waiter' = waiter /\ ~pumping /\ pumping' = pumping
    BY <1>4 DEF TakeMoves, Alone
  <2>4. rd'[Pipe].n = AnySize /\ (rd'[Pipe].pc # "idle" <=> pipe' = "reading")
    BY <1>1, <1>2, <2>1, <2>2, <2>3
  <2>5. \A u \in Reader : rd'[u].pc \notin {"bytes", "null", "error"}
    BY <1>1, <1>2, <2>1, <2>3
  <2> QED BY <1>1, <1>2, <2>1, <2>3, <2>4, <2>5 DEF OneReader
<1>5. ASSUME NEW t \in Task, PullMoves(t) PROVE OneReader'
  <2>1. /\ rd'[t] = [rd[t] EXCEPT !.pc = "pumped"] /\ \A u \in Task : u # t => rd'[u] = rd[u]
        /\ \A u \in Task : u # t => rd[u].pc = "idle"
        /\ rd[t].pc = "pumps" /\ ~pumping' /\ waiter' = waiter /\ pipe' = pipe
    BY <1>5 DEF PullMoves, Alone
  <2>2. rd'[t].pc = "pumped" /\ rd'[t].n = rd[t].n
    BY <2>1 DEF CoreTypes, ReadTypes, ReadOf
  <2>3. buffer' # <<>> \/ ended' \/ readError'
    <3>1. ASSUME pulled + 1 \in 1 .. Len(Source), buffer' = Append(buffer, Source[pulled + 1])
          PROVE  buffer' # <<>>
      <4>1. Source[pulled + 1] \in Seq(Int) /\ buffer \in Seq(Seq(Int))
        BY <3>1, CoreConstants DEF CoreTypes, ReadTypes
      <4> QED BY <3>1, <4>1, AppendProperties
    <3> QED BY <1>5, <3>1 DEF PullMoves
  <2>4. \A u \in Task : rd'[u].pc = (IF u = t THEN "pumped" ELSE "idle") /\ rd'[u].n = rd[u].n
    BY <2>1, <2>2
  <2>5. rd'[Pipe].n = AnySize /\ (rd'[Pipe].pc # "idle" <=> pipe' = "reading")
    BY <1>1, <1>2, <2>1, <2>4
  <2>6. waiter' = None /\ ~pumping'
    BY <1>2, <2>1
  <2>7. \A u \in Task : rd'[u].pc \in {"pumped", "idle"} /\ (rd'[u].pc = "pumped" => u = t)
    BY <2>4
  <2> QED BY <1>1, <2>3, <2>5, <2>6, <2>7 DEF OneReader
<1>6. CASE PipeGot
  <2>1. /\ rd'[Pipe] = Idle /\ \A u \in Task : u # Pipe => rd'[u] = rd[u]
        /\ rd[Pipe].pc \in {"bytes", "null", "error"} /\ pipe' # "reading"
        /\ UNCHANGED <<buffer, waiter, ended, readError, pumping>>
    BY <1>6, GotPlaces
  <2>2. rd'[Pipe].pc = "idle" /\ rd'[Pipe].n = AnySize
    BY <2>1 DEF Idle
  <2>3. \A u \in Task : u # Pipe => rd[u].pc = "idle"
    BY <1>1, <1>2, <2>1
  <2>4. \A u \in Task : rd'[u].pc = "idle"
    BY <2>1, <2>2, <2>3
  <2>5. ~pumping
    BY <1>2, <2>1, <2>3
  <2> QED BY <1>1, <1>2, <2>1, <2>2, <2>4, <2>5 DEF OneReader
<1>7. CASE Beside
  <2>1. /\ UNCHANGED <<buffer, waiter, readError, pumping, rd>>
        /\ (pipe' = "reading" <=> pipe = "reading") /\ (ended => ended')
    BY <1>7, BesideReads
  <2> QED BY <1>2, <2>1
<1>8. OneReader'
  BY <1>0, <1>3, <1>4, <1>5, <1>6, <1>7, Kinds DEF OneReader
<1> QED BY <1>0, <1>8 DEF OneReader

\* Pulls, for a number of chunks in the reader's hands.
PulledUpTo(h) ==
    /\ \A i \in DOMAIN returned : returned[i].bytes = Source[i]
    /\ Len(returned) + h + Len(buffer) = pulled
    /\ \A t \in Task : rd[t].pc = "taken" => rd[t].chunk = Source[Len(returned) + 1]
    /\ \A i \in DOMAIN buffer : buffer[i] = Source[Len(returned) + h + i]
LEMMA PullsIs == Pulls <=> (Unmixed => PulledUpTo(InHands))
BY DEF Pulls, PulledUpTo
LEMMA PullsIsNext == Pulls' <=> (Unmixed' => PulledUpTo(InHands)')
BY DEF Pulls, PulledUpTo
LEMMA ReturnedIs ==
    ASSUME ReadTypes
    PROVE  /\ Len(returned) \in Nat /\ DOMAIN returned = 1 .. Len(returned)
           /\ Len(buffer) \in Nat /\ DOMAIN buffer = 1 .. Len(buffer)
           /\ (PipeReads = DOMAIN returned <=> \A i \in DOMAIN returned : returned[i].by = Pipe)
BY LenProperties DEF ReadTypes, PipeReads
LEMMA ReturnedGrows ==
    ASSUME ReadTypes, NEW e \in Return, returned' = Append(returned, e)
    PROVE  /\ Len(returned') = Len(returned) + 1 /\ DOMAIN returned' = 1 .. Len(returned) + 1
           /\ returned'[Len(returned) + 1] = e
           /\ \A i \in 1 .. Len(returned) : returned'[i] = returned[i]
<1>1. returned \in Seq(Return)
  BY DEF ReadTypes
<1>2. PICK s \in Seq(Return) : s = Append(returned, e)
  BY <1>1, AppendProperties
<1>3. /\ Len(s) = Len(returned) + 1 /\ s[Len(returned) + 1] = e
      /\ \A i \in 1 .. Len(returned) : s[i] = returned[i]
  BY ONLY <1>1, <1>2, e \in Return, AppendProperties
<1>4. DOMAIN s = 1 .. Len(s)
  BY LenProperties
<1> QED BY <1>2, <1>3, <1>4
LEMMA PullsNext ==
    ASSUME CoreTypes, OneReader, Pulls, Numbered, Settles, CoreNext
    PROVE  Pulls'
<1>1. SUFFICES ASSUME Unmixed' PROVE PulledUpTo(InHands)'
  BY PullsIsNext
<1>2. ~overlapped' /\ PipeReads' = DOMAIN returned'
  BY <1>1 DEF Unmixed
<1>3. ReadTypes /\ ReadTypes' /\ ~overlapped
  BY <1>2, TypesNext, Kinds DEF CoreTypes
<1>4. \A i \in DOMAIN returned' : returned'[i].by = Pipe
  BY <1>2 DEF PipeReads
<1>5. ASSUME returned' = returned PROVE PulledUpTo(InHands)
  BY <1>2, <1>3, <1>5, PullsIs DEF Unmixed, PipeReads
<1>6. /\ Len(returned) \in Nat /\ DOMAIN returned = 1 .. Len(returned)
      /\ Len(buffer) \in Nat /\ DOMAIN buffer = 1 .. Len(buffer)
  BY <1>3, ReturnedIs
<1>7. ASSUME NEW t \in Task, NEW n \in Size \cup {AnySize}, ReadMoves(t, n)
      PROVE  PulledUpTo(InHands)'
  <2>1. returned' = returned /\ pulled' = pulled
    BY <1>7 DEF ReadMoves
  <2>2. \A u \in Task : rd[u].pc # "taken"
    BY <1>7 DEF ReadMoves, Alone
  <2>3. InHands = 0
    BY <2>2 DEF InHands
  <2>4. /\ \A i \in DOMAIN returned : returned[i].bytes = Source[i]
        /\ Len(returned) + Len(buffer) = pulled
        /\ \A i \in DOMAIN buffer : buffer[i] = Source[Len(returned) + i]
    BY <1>5, <1>6, <2>1, <2>3 DEF PulledUpTo
  <2>5. /\ \A u \in Task : u # t => rd'[u] = rd[u]
        /\ rd'[t].pc = "taken" => buffer # <<>> /\ rd'[t].chunk = Head(buffer) /\ buffer' = Tail(buffer)
        /\ rd'[t].pc # "taken" => buffer' = buffer
    BY <1>7, ReadMovesPlaces
  <2>6. CASE rd'[t].pc = "taken"
    <3>1. InHands' = 1
      BY <2>6 DEF InHands
    <3>2. buffer \in Seq(Seq(Int)) /\ buffer # <<>>
      BY <1>3, <2>5, <2>6 DEF ReadTypes
    <3>3. /\ Len(buffer') = Len(buffer) - 1 /\ Head(buffer) = buffer[1] /\ Len(buffer) # 0
          /\ \A i \in 1 .. Len(buffer) - 1 : buffer'[i] = buffer[i + 1]
          /\ DOMAIN buffer' = 1 .. Len(buffer')
      <4>1. PICK s : s = Tail(buffer)
        OBVIOUS
      <4>2. /\ s \in Seq(Seq(Int)) /\ Len(s) = Len(buffer) - 1
            /\ \A i \in 1 .. Len(s) : s[i] = buffer[i + 1]
        BY ONLY <3>2, <4>1, HeadTailProperties
      <4>3. DOMAIN s = 1 .. Len(s) /\ Len(buffer) # 0
        BY <3>2, <4>2, EmptySeq, LenProperties
      <4>4. Head(buffer) = buffer[1]
        BY <3>2
      <4> QED BY <2>5, <2>6, <4>1, <4>2, <4>3, <4>4
    <3>4. Len(returned') + 1 + Len(buffer') = pulled'
      BY <1>6, <2>1, <2>4, <3>3
    <3>5. ASSUME NEW i \in DOMAIN buffer' PROVE buffer'[i] = Source[Len(returned') + 1 + i]
      <4>1. i \in 1 .. Len(buffer) - 1 /\ i + 1 \in DOMAIN buffer /\ i \in Int
        BY <1>6, <3>3
      <4>2. buffer'[i] = Source[Len(returned) + (i + 1)]
        BY <2>4, <3>3, <4>1
      <4>3. Len(returned) + (i + 1) = Len(returned) + 1 + i
        BY <1>6, <4>1
      <4> QED BY <2>1, <4>2, <4>3
    <3>6. ASSUME NEW u \in Task, rd'[u].pc = "taken" PROVE rd'[u].chunk = Source[Len(returned') + 1]
      <4>1. u = t
        BY <2>2, <2>5, <3>6
      <4>2. 1 \in DOMAIN buffer
        BY <1>6, <3>3
      <4> QED BY <2>1, <2>4, <2>5, <2>6, <3>3, <4>1, <4>2
    <3> QED BY <2>1, <2>4, <3>1, <3>4, <3>5, <3>6 DEF PulledUpTo
  <2>7. CASE rd'[t].pc # "taken"
    <3>1. \A u \in Task : rd'[u].pc # "taken"
      BY <2>2, <2>5, <2>7
    <3>2. InHands' = 0
      BY <3>1 DEF InHands
    <3> QED BY <1>6, <2>1, <2>4, <2>5, <2>7, <3>1, <3>2 DEF PulledUpTo
  <2> QED BY <2>6, <2>7
<1>8. ASSUME NEW t \in Task, TakeMoves(t) PROVE PulledUpTo(InHands)'
  <2>1. PICK e \in Return : e.by = t /\ returned' = Append(returned, e)
                            /\ (t = Pipe => e.bytes = rd[t].chunk)
    <3>1. CASE returned' = Append(returned, [by |-> t, bytes |-> rd[t].chunk])
      <4>1. PICK e : e = [by |-> t, bytes |-> rd[t].chunk]
        OBVIOUS
      <4>2. e \in Return /\ e.by = t /\ e.bytes = rd[t].chunk
        BY <1>3, <4>1, ReadPlaces DEF Return
      <4> QED BY <3>1, <4>1, <4>2
    <3> QED BY <1>8, <3>1 DEF TakeMoves
  <2>2. /\ Len(returned') = Len(returned) + 1 /\ DOMAIN returned' = 1 .. Len(returned) + 1
        /\ returned'[Len(returned) + 1] = e
        /\ \A i \in 1 .. Len(returned) : returned'[i] = returned[i]
    BY <1>3, <2>1, ReturnedGrows
  <2>3. t = Pipe /\ \A i \in DOMAIN returned : returned[i].by = Pipe
    <3>1. Len(returned) + 1 \in DOMAIN returned' /\ \A i \in DOMAIN returned : i \in DOMAIN returned'
      BY <1>6, <2>2
    <3> QED BY <1>4, <1>6, <2>1, <2>2, <3>1
  <2>4. PulledUpTo(InHands)
    BY <1>3, <2>3, PullsIs, ReturnedIs DEF Unmixed
  <2>5. rd[t].pc = "taken" /\ pulled' = pulled /\ buffer' = buffer /\ Alone(t)
    BY <1>8, <2>3 DEF TakeMoves
  <2>6. InHands = 1
    BY <2>5 DEF InHands
  <2>7. \A u \in Task : rd'[u].pc # "taken"
    <3>1. /\ \A u \in Task : u # t => rd'[u] = rd[u]
          /\ rd'[t].pc = IF t = Pipe THEN "bytes" ELSE "idle"
      BY <1>8, TakeMovesPlaces
    <3> QED BY <2>5, <3>1 DEF Alone
  <2>8. InHands' = 0
    BY <2>7 DEF InHands
  <2>9. /\ \A i \in DOMAIN returned : returned[i].bytes = Source[i]
        /\ Len(returned) + 1 + Len(buffer) = pulled
        /\ e.bytes = Source[Len(returned) + 1]
        /\ \A i \in DOMAIN buffer : buffer[i] = Source[Len(returned) + 1 + i]
    BY <2>1, <2>3, <2>4, <2>5, <2>6 DEF PulledUpTo
  <2>10. \A i \in DOMAIN returned' : returned'[i].bytes = Source[i]
    <3>1. \A i \in DOMAIN returned' : i \in DOMAIN returned \/ i = Len(returned) + 1
      BY <1>6, <2>2
    <3> QED BY <1>6, <2>2, <2>9, <3>1
  <2>11. \A i \in DOMAIN buffer' : buffer'[i] = Source[Len(returned') + 0 + i]
    <3>1. Len(returned') + 0 = Len(returned) + 1
      BY <1>6, <2>2
    <3> QED BY <2>5, <2>9, <3>1
  <2>12. Len(returned') + 0 + Len(buffer') = pulled'
    BY <1>6, <2>2, <2>5, <2>9
  <2> QED BY <2>7, <2>8, <2>10, <2>11, <2>12 DEF PulledUpTo
<1>9. ASSUME NEW t \in Task, PullMoves(t) PROVE PulledUpTo(InHands)'
  <2>1. returned' = returned
    BY <1>9 DEF PullMoves
  <2>2. /\ rd'[t] = [rd[t] EXCEPT !.pc = "pumped"] /\ \A u \in Task : u # t => rd'[u] = rd[u]
        /\ \A u \in Task : u # t => rd[u].pc = "idle"
        /\ rd[t].pc = "pumps"
    BY <1>9 DEF PullMoves, Alone
  <2>3. rd'[t].pc = "pumped"
    BY <1>3, <2>2 DEF ReadTypes, ReadOf
  <2>4. \A u \in Task : rd[u].pc # "taken" /\ rd'[u].pc # "taken"
    BY <2>2, <2>3
  <2>5. InHands = 0 /\ InHands' = 0
    BY <2>4 DEF InHands
  <2>6. /\ \A i \in DOMAIN returned : returned[i].bytes = Source[i]
        /\ Len(returned) + 0 + Len(buffer) = pulled
        /\ \A i \in DOMAIN buffer : buffer[i] = Source[Len(returned) + 0 + i]
    BY <1>5, <2>1, <2>5 DEF PulledUpTo
  <2>7. CASE pulled' = pulled /\ buffer' = buffer
    BY <2>1, <2>4, <2>5, <2>6, <2>7 DEF PulledUpTo
  <2>8. CASE /\ pulled + 1 \in 1 .. Len(Source) /\ pulled' = pulled + 1
             /\ buffer' = Append(buffer, Source[pulled + 1])
    <3>1. PICK item \in Seq(Int) : item = Source[pulled + 1]
      BY <2>8, CoreConstants
    <3>2. /\ Len(buffer') = Len(buffer) + 1 /\ buffer'[Len(buffer) + 1] = item
          /\ \A i \in 1 .. Len(buffer) : buffer'[i] = buffer[i]
          /\ DOMAIN buffer' = 1 .. Len(buffer')
      <4>1. PICK s : s = Append(buffer, item)
        OBVIOUS
      <4>2. buffer \in Seq(Seq(Int))
        BY <1>3 DEF ReadTypes
      <4>3. /\ s \in Seq(Seq(Int)) /\ Len(s) = Len(buffer) + 1 /\ s[Len(buffer) + 1] = item
            /\ \A i \in 1 .. Len(buffer) : s[i] = buffer[i]
        BY ONLY <3>1, <4>1, <4>2, AppendProperties
      <4>4. DOMAIN s = 1 .. Len(s)
        BY <4>3, LenProperties
      <4> QED BY <2>8, <3>1, <4>1, <4>3, <4>4
    <3>3. Len(returned') + 0 + Len(buffer') = pulled'
      BY <1>6, <2>1, <2>6, <2>8, <3>2
    <3>4. ASSUME NEW i \in DOMAIN buffer' PROVE buffer'[i] = Source[Len(returned') + 0 + i]
      <4>1. CASE i \in 1 .. Len(buffer)
        BY <1>6, <2>1, <2>6, <3>2, <4>1
      <4>2. CASE i = Len(buffer) + 1
        <5>1. Len(returned) + 0 + i = pulled + 1
          BY <1>6, <2>6, <4>2
        <5> QED BY <2>1, <3>1, <3>2, <4>2, <5>1
      <4> QED BY <1>6, <3>2, <4>1, <4>2
    <3> QED BY <2>1, <2>4, <2>5, <2>6, <3>3, <3>4 DEF PulledUpTo
  <2> QED BY <1>9, <2>7, <2>8 DEF PullMoves
<1>10. CASE PipeGot
  <2>1. /\ rd'[Pipe] = Idle /\ \A u \in Task : u # Pipe => rd'[u] = rd[u]
        /\ rd[Pipe].pc \in {"bytes", "null", "error"}
        /\ UNCHANGED <<buffer, pulled, returned>>
    BY <1>10, GotPlaces
  <2>2. \A u \in Task : /\ rd'[u].pc = "taken" <=> rd[u].pc = "taken"
                        /\ rd'[u].pc = "taken" => rd'[u].chunk = rd[u].chunk
    BY <2>1 DEF Idle
  <2>3. InHands' = InHands
    BY <2>2 DEF InHands
  <2>4. PulledUpTo(InHands)
    BY <1>5, <2>1
  <2> QED BY <2>1, <2>2, <2>3, <2>4 DEF PulledUpTo
<1>11. CASE Beside
  <2>1. UNCHANGED <<buffer, pulled, returned, rd>>
    BY <1>11, BesideReads
  <2>2. InHands' = InHands
    BY <2>1 DEF InHands
  <2>3. PulledUpTo(InHands)
    BY <1>5, <2>1
  <2> QED BY <2>1, <2>2, <2>3 DEF PulledUpTo
<1> QED BY <1>2, <1>7, <1>8, <1>9, <1>10, <1>11, Kinds

LEMMA ExhaustedNext ==
    ASSUME CoreTypes, OneReader, Exhausted, Numbered, Settles, CoreNext
    PROVE  Exhausted'
<1> DEFINE AtEnd == rd[Pipe].pc = "null" \/ pipe \in {"ending", "resolved"}
           Over == ended /\ ~pumping /\ buffer = <<>> /\ \A t \in Reader : rd[t].pc = "idle"
<1>1. ReadTypes /\ WriteTypes /\ Pipe \in Task /\ Pipe \notin Reader /\ Reader \subseteq Task
  BY CoreConstants DEF CoreTypes
<1>2. /\ ended /\ cancelled = "no" => pulled = Len(Source)
      /\ cancelled \in {"pipe", "failed"} => pipe \in {"aborts", "rejected"}
      /\ ~overlapped /\ cancelled # "user" /\ AtEnd => Over
  BY DEF Exhausted
<1>3. ended' /\ cancelled' = "no" => pulled' = Len(Source)
  <2>1. CASE UNCHANGED <<ended, cancelled, pulled>>
    BY <1>2, <2>1
  <2>2. CASE Pulled
    <3>1. CASE pulled < Len(Source) /\ UNCHANGED <<ended, cancelled>>
      BY <1>1, <1>2, <3>1, CoreConstants DEF ReadTypes
    <3>2. CASE pulled = Len(Source) /\ UNCHANGED pulled
      BY <3>2
    <3>3. CASE UNCHANGED <<ended, cancelled, pulled>>
      BY <2>1, <3>3
    <3> QED BY <2>2, <3>1, <3>2, <3>3 DEF Pulled
  <2>3. CASE PipeCancels \/ UserCancel
    BY <1>1, <1>2, <2>3 DEF PipeCancels, UserCancel, Cancelled, ReadTypes
  <2>4. ASSUME NEW t, NEW n, Read(t, n) PROVE UNCHANGED <<ended, cancelled, pulled>>
    BY <2>4 DEF Read
  <2>5. CASE PipeRead
    BY <2>1, <2>4, <2>5 DEF PipeRead, readable
  <2>6. CASE \E t \in Reader : UserRead(t)
    BY <2>1, <2>4, <2>6 DEF UserRead
  <2>7. CASE PipeGot \/ PipeAborts \/ SinkAnswers \/ SinkWrite \/ \E t \in {Pipe, User} : EndCloses(t)
    BY <2>1, <2>7 DEF PipeGot, PipeAborts, SinkAnswers, SinkWrite, EndCloses, readable
  <2>8. CASE ReadSteps
    BY <2>1, <2>8 DEF ReadSteps, ReadOn, Take
  <2>9. CASE UserWrite \/ UserEnd \/ UserAbort \/ PipeStart \/ Signal
    BY <2>1, <2>9 DEF UserWrite, UserEnd, UserAbort, PipeStart, Signal, readable
  <2> QED BY <2>2, <2>3, <2>5, <2>6, <2>7, <2>8, <2>9 DEF CoreNext, PipeSteps, Answers, UserSteps
<1>4. cancelled' \in {"pipe", "failed"} => pipe' \in {"aborts", "rejected"}
  <2>1. CASE PipeCancels
    BY <2>1 DEF PipeCancels
  <2>2. CASE UserCancel
    BY <1>1, <1>2, <2>2 DEF UserCancel, Cancelled
  <2>3. SUFFICES ASSUME ~PipeCancels, ~UserCancel, cancelled' \in {"pipe", "failed"} PROVE pipe' \in {"aborts", "rejected"}
    BY <2>1, <2>2
  <2>4. cancelled' = cancelled
    <3>1. ASSUME NEW t, NEW n, Read(t, n) PROVE cancelled' = cancelled
      BY <3>1 DEF Read
    <3> QED BY <2>3, <3>1 DEF CoreNext, PipeSteps, Answers, UserSteps, ReadSteps, PipeRead, UserRead,
           PipeGot, PipeAborts, SinkAnswers, SinkWrite, EndCloses, ReadOn, Take, UserWrite,
           UserEnd, UserAbort, PipeStart, Signal, Pulled, readable
  <2>5. pipe \in {"aborts", "rejected"}
    BY <1>2, <2>3, <2>4
  <2>6. CASE SinkAnswers
    <3>1. Head(chain).by # Pipe
      BY <1>1, <2>5, <2>6, HeadOfChain DEF SinkAnswers, Numbered
    <3> QED BY <2>5, <2>6, <3>1 DEF SinkAnswers
  <2>7. ASSUME NEW t \in {Pipe, User}, EndCloses(t) PROVE pipe' = pipe
    <3>1. t # Pipe
      BY <2>5, <2>7 DEF EndCloses, Settles
    <3> QED BY <2>7, <3>1 DEF EndCloses
  <2>8. CASE PipeAborts
    BY <2>8 DEF PipeAborts
  <2>9. ~PipeRead /\ ~PipeGot /\ ~PipeStart
    BY <2>5 DEF PipeRead, PipeGot, PipeStart
  <2>10. CASE Pulled \/ SinkWrite \/ ReadSteps \/ (\E t \in Reader : UserRead(t)) \/ UserWrite
              \/ UserEnd \/ UserAbort \/ Signal
    BY <2>5, <2>10 DEF Pulled, SinkWrite, ReadSteps, ReadOn, Take, UserRead, UserWrite, UserEnd,
                       UserAbort, Signal
  <2> QED BY <2>3, <2>5, <2>6, <2>7, <2>8, <2>9, <2>10 DEF CoreNext, PipeSteps, Answers, UserSteps
<1>5. ASSUME ~overlapped', cancelled' # "user", AtEnd' PROVE Over'
  <2>1. ~overlapped /\ CoreTypes'
    BY <1>5, Kinds, TypesNext
  <2>2. /\ \A t, u \in Task : rd[t].pc # "idle" /\ rd[u].pc # "idle" => t = u
        /\ pumping => \E t \in Task : rd[t].pc = "pumps"
        /\ rd[Pipe].pc # "idle" <=> pipe = "reading"
    BY <2>1 DEF OneReader
  <2>3. ASSUME NEW t \in Task, NEW n \in Size \cup {AnySize}, ReadMoves(t, n) PROVE Over'
    <3>1. /\ \A u \in Task : u # t => rd'[u] = rd[u]
          /\ IF t = Pipe THEN rd'[t].pc # "idle" ELSE rd'[t].pc \notin {"null", "error"}
          /\ rd'[t].pc = "pumps" => pumping'
          /\ pumping' => rd'[t].pc = "pumps"
          /\ rd'[t].pc = "taken" => buffer # <<>>
          /\ rd'[t].pc # "taken" => buffer' = buffer
          /\ rd'[t].pc = "null" => buffer = <<>> /\ ended
      BY <2>3, ReadMovesPlaces
    <3>2. rd'[t].pc \in {"idle", "pumps", "taken", "null", "error"}
      BY <2>3, ReadMovesPlaces
    <3>3. /\ \A u \in Task : u # t => rd[u].pc = "idle"
          /\ pipe' = (IF t = Pipe THEN "reading" ELSE pipe)
          /\ ~pumping /\ cancelled' = cancelled /\ ended' = ended
      BY <2>3 DEF ReadMoves, Alone
    <3>4. CASE t = Pipe
      <4>1. rd'[t].pc = "null"
        BY <1>5, <3>3, <3>4
      <4>2. \A u \in Reader : rd'[u].pc = "idle"
        BY <1>1, <3>1, <3>3, <3>4
      <4>3. ~pumping'
        BY <3>1, <4>1
      <4> QED BY <3>1, <3>3, <4>1, <4>2, <4>3
    <3>5. CASE t # Pipe
      <4>1. rd'[Pipe] = rd[Pipe] /\ pipe' = pipe
        BY <1>1, <3>1, <3>3, <3>5
      <4>2. Over
        BY <1>2, <1>5, <2>1, <3>3, <4>1
      <4>3. ended /\ buffer = <<>> /\ \A u \in Reader : rd[u].pc = "idle"
        BY <4>2
      <4>4. rd'[t].pc \notin {"pumps", "taken", "null", "error"}
        BY <2>3, <3>1, <3>5, <4>3, ReadMovesPlaces
      <4>5. \A u \in Reader : rd'[u].pc = "idle"
        BY <1>1, <3>1, <3>2, <4>3, <4>4
      <4> QED BY <3>1, <3>3, <4>3, <4>4, <4>5
    <3> QED BY <3>4, <3>5
  <2>4. ASSUME NEW t \in Task, TakeMoves(t) PROVE Over'
    <3>1. /\ \A u \in Task : u # t => rd'[u] = rd[u]
          /\ rd'[t].pc = IF t = Pipe THEN "bytes" ELSE "idle"
      BY <2>4, TakeMovesPlaces
    <3>2. /\ \A u \in Task : u # t => rd[u].pc = "idle"
          /\ rd[t].pc = "taken" /\ (t = Pipe => pipe = "reading") /\ pipe' = pipe
          /\ cancelled' = cancelled
      BY <2>4 DEF TakeMoves, Alone
    <3>3. t # Pipe /\ pipe \in {"ending", "resolved"}
      BY <1>1, <1>5, <3>1, <3>2
    <3>4. Over /\ t \in Reader
      BY <1>2, <1>5, <2>1, <3>2, <3>3 DEF Task
    <3> QED BY <3>2, <3>4
  <2>5. ASSUME NEW t \in Task, PullMoves(t) PROVE Over'
    <3>1. /\ rd'[t] = [rd[t] EXCEPT !.pc = "pumped"] /\ \A u \in Task : u # t => rd'[u] = rd[u]
          /\ rd[t].pc = "pumps" /\ pumping /\ UNCHANGED <<pipe, cancelled>>
      BY <2>5 DEF PullMoves, Alone
    <3>2. rd'[t].pc = "pumped"
      BY <1>1, <3>1 DEF ReadTypes, ReadOf
    <3>3. AtEnd
      BY <1>1, <1>5, <2>2, <3>1, <3>2
    <3>4. Over
      BY <1>2, <1>5, <2>1, <3>1, <3>3
    <3> QED BY <3>1, <3>4
  <2>6. CASE PipeGot
    <3>1. /\ rd'[Pipe] = Idle /\ \A u \in Task : u # Pipe => rd'[u] = rd[u]
          /\ UNCHANGED <<buffer, ended, pumping, cancelled>>
      BY <2>6, GotPlaces
    <3>2. pipe' \in {"ending", "resolved"}
      BY <1>5, <3>1 DEF Idle
    <3>3. rd[Pipe].pc = "null"
      BY <2>6, <3>2 DEF PipeGot, SourceDone
    <3>4. Over
      BY <1>2, <1>5, <2>1, <3>1, <3>3
    <3> QED BY <1>1, <3>1, <3>4
  <2>7. CASE Beside
    <3>1. /\ UNCHANGED <<buffer, pumping, rd>>
          /\ (pipe' = "reading" <=> pipe = "reading") /\ (ended => ended')
      BY <2>7, BesideReads
    <3>2. UserCancel => UNCHANGED <<cancelled, pipe>>
      BY <1>5 DEF UserCancel, Cancelled
    <3>3. ~PipeCancels
      <4>1. ASSUME PipeCancels PROVE FALSE
        <5>1. pipe = "fails" /\ pipe' \in {"aborts", "rejected"}
          BY <4>1 DEF PipeCancels
        <5>2. rd'[Pipe].pc = "idle"
          BY <1>1, <2>2, <3>1, <5>1
        <5> QED BY <1>5, <5>1, <5>2
      <4> QED BY <4>1
    <3>4. cancelled' = cancelled
      BY <2>7, <3>2, <3>3 DEF Beside, PipeRead, PipeAborts, SinkAnswers, SinkWrite, EndCloses, UserWrite,
           UserEnd, UserAbort, PipeStart, Signal, readable
    <3>5. pipe' \in {"ending", "resolved"} => pipe \in {"ending", "resolved"}
      <4>1. ASSUME NEW t \in Asker, EndCloses(t)
            PROVE  pipe' \in {"ending", "resolved"} => pipe \in {"ending", "resolved"}
        BY <4>1 DEF EndCloses, Settles
      <4>2. CASE SinkAnswers
        BY <4>2 DEF SinkAnswers
      <4>3. CASE \/ PipeRead /\ pipe' = "fails" /\ UNCHANGED readable
                 \/ PipeAborts \/ SinkWrite \/ UserWrite \/ UserEnd \/ UserAbort \/ PipeStart \/ Signal
        BY <4>3 DEF PipeAborts, SinkWrite, UserWrite, UserEnd, UserAbort, PipeStart, Signal
      <4> QED BY <2>7, <3>2, <3>3, <4>1, <4>2, <4>3 DEF Beside
    <3>6. AtEnd
      BY <1>5, <3>1, <3>5
    <3>7. Over
      BY <1>2, <1>5, <2>1, <3>4, <3>6
    <3> QED BY <3>1, <3>7
  <2> HIDE DEF Over, AtEnd
  <2> QED BY <1>5, <2>3, <2>4, <2>5, <2>6, <2>7, Kinds
<1> QED BY <1>3, <1>4, <1>5 DEF Exhausted

\* A call more gives the sink its bytes when it is a write of the pipe.
LEMMA MovedGrows ==
    ASSUME WriteTypes, NEW e \in CallOf, sink' = Append(sink, e)
    PROVE  Moved' = IF e.by = Pipe /\ e.call = "write" THEN Moved \o e.bytes ELSE Moved
<1>1. sink \in Seq(CallOf)
  BY DEF WriteTypes
<1>2. /\ Len(sink) \in Nat /\ DOMAIN sink = 1 .. Len(sink) /\ DOMAIN sink' = 1 .. Len(sink) + 1
      /\ sink'[Len(sink) + 1] = e /\ \A i \in 1 .. Len(sink) : sink'[i] = sink[i]
  BY SinkGrows
<1>3. PICK old : old = PipeWrites
  OBVIOUS
<1>4. PICK new : new = PipeWrites'
  OBVIOUS
<1>5. \A i \in 1 .. Len(sink) : i \in old <=> i \in new
  BY <1>2, <1>3, <1>4 DEF PipeWrites
<1>6. Len(sink) + 1 \in new <=> e.by = Pipe /\ e.call = "write"
  BY <1>2, <1>4 DEF PipeWrites
<1>7. BytesOf(Append(sink, e), new) =
         IF Len(sink) + 1 \in new THEN BytesOf(sink, old) \o e.bytes ELSE BytesOf(sink, old)
  BY <1>1, <1>5, BytesAppend
<1> QED BY <1>3, <1>4, <1>6, <1>7 DEF Moved
LEMMA GotGrows ==
    ASSUME ReadTypes, NEW e \in Return, returned' = Append(returned, e)
    PROVE  Got' = IF e.by = Pipe THEN Got \o e.bytes ELSE Got
<1>1. returned \in Seq(Return) /\ Len(returned) \in Nat /\ DOMAIN returned = 1 .. Len(returned)
  BY LenProperties DEF ReadTypes
<1>2. /\ DOMAIN returned' = 1 .. Len(returned) + 1
      /\ returned'[Len(returned) + 1] = e
      /\ \A i \in 1 .. Len(returned) : returned'[i] = returned[i]
  BY ReturnedGrows
<1>3. PICK old : old = PipeReads
  OBVIOUS
<1>4. PICK new : new = PipeReads'
  OBVIOUS
<1>5. \A i \in 1 .. Len(returned) : i \in old <=> i \in new
  BY <1>1, <1>2, <1>3, <1>4 DEF PipeReads
<1>6. Len(returned) + 1 \in new <=> e.by = Pipe
  BY <1>1, <1>2, <1>4 DEF PipeReads
<1>7. BytesOf(Append(returned, e), new) =
         IF Len(returned) + 1 \in new THEN BytesOf(returned, old) \o e.bytes
         ELSE BytesOf(returned, old)
  BY <1>1, <1>5, BytesAppend
<1> QED BY <1>3, <1>4, <1>6, <1>7 DEF Got
LEMMA MovedStays == ASSUME sink' = sink PROVE Moved' = Moved
BY DEF Moved, PipeWrites
LEMMA GotStays == ASSUME returned' = returned PROVE Got' = Got
BY DEF Got, PipeReads
\* A write accepted is the last one of the chain.
LEMMA ChainGrows ==
    ASSUME WriteTypes, NEW t \in Asker, NEW bytes \in Seq(Int), Accepted(t, bytes)
    PROVE  /\ DOMAIN chain = 1 .. Len(chain) /\ Len(chain) \in Nat
           /\ DOMAIN chain' = 1 .. Len(chain) + 1
           /\ \A i \in 1 .. Len(chain) : chain'[i] = chain[i]
           /\ chain'[Len(chain) + 1].by = t /\ chain'[Len(chain) + 1].bytes = bytes
           /\ chain'[Len(chain) + 1].call = "write"
           /\ chain'[Len(chain) + 1].number = served + Len(chain) + 1
           /\ UNCHANGED <<writing, closed, served, sink, endOf>>
<1>1. chain \in Seq(CallOf) /\ DOMAIN chain = 1 .. Len(chain) /\ Len(chain) \in Nat /\ served \in Nat
  BY LenProperties DEF WriteTypes
<1>2. PICK e \in CallOf : e = [call |-> "write", by |-> t, bytes |-> bytes, number |-> Given + 1]
  BY AcceptedTypes
<1>3. chain' = Append(chain, e)
  BY <1>2, AcceptedTypes
<1>4. PICK s \in Seq(CallOf) : s = Append(chain, e)
  BY <1>1, AppendProperties
<1>5. /\ Len(s) = Len(chain) + 1 /\ s[Len(chain) + 1] = e
      /\ \A i \in 1 .. Len(chain) : s[i] = chain[i]
  BY ONLY <1>1, <1>2, <1>4, AppendProperties
<1>6. DOMAIN s = 1 .. Len(s)
  BY LenProperties
<1>7. e.by = t /\ e.bytes = bytes /\ e.call = "write" /\ e.number = served + Len(chain) + 1
  BY <1>2 DEF Given
<1> QED BY <1>1, <1>3, <1>4, <1>5, <1>6, <1>7 DEF Accepted

LEMMA CarriedNext ==
    ASSUME CoreTypes, OneReader, Carried, Numbered, Settles, CoreNext
    PROVE  Carried'
<1>1. SUFFICES ASSUME ~overlapped' PROVE Carried'
  BY DEF Carried
<1>2. ReadTypes /\ WriteTypes /\ PipeTypes /\ ~overlapped /\ Pipe \in Task /\ Pipe \in Asker
  BY <1>1, Kinds, CoreConstants DEF CoreTypes
<1>3. /\ pipe \in {"idle", "loop", "ending", "resolved"} => Got = Moved
      /\ pipe = "reading" /\ rd[Pipe].pc = "bytes" => Got = Moved \o rd[Pipe].chunk
      /\ pipe = "reading" /\ rd[Pipe].pc # "bytes" => Got = Moved
      /\ pipe = "writing" =>
            \A p \in DOMAIN chain : chain[p].by = Pipe =>
                IF writing /\ p = 1 THEN Got = Moved ELSE Got = Moved \o chain[p].bytes
  BY <1>2 DEF Carried
<1>4. ASSUME NEW t \in Task, NEW n \in Size \cup {AnySize}, ReadMoves(t, n) PROVE Carried'
  <2>1. UNCHANGED <<returned, sink, chain, writing>>
    BY <1>4 DEF ReadMoves, writable
  <2>2. Got' = Got /\ Moved' = Moved
    BY <2>1, GotStays, MovedStays
  <2>3. CASE t = Pipe
    <3>1. rd'[Pipe].pc # "bytes"
      <4>1. rd'[Pipe].pc \in {"idle", "pumps", "taken", "null", "error"}
        BY <1>4, <2>3, ReadMovesPlaces
      <4> QED BY <4>1
    <3>2. pipe \in {"loop", "reading"} /\ pipe' = "reading" /\ rd[Pipe].pc # "bytes"
      BY <1>4, <2>3 DEF ReadMoves
    <3>3. Got = Moved
      BY <1>3, <3>2
    <3> QED BY <2>2, <3>1, <3>2, <3>3 DEF Carried
  <2>4. CASE t # Pipe
    <3>1. rd'[Pipe] = rd[Pipe]
      BY <1>2, <1>4, <2>4, ReadMovesPlaces
    <3>2. pipe' = pipe
      BY <1>4, <2>4 DEF ReadMoves
    <3> QED BY <1>3, <2>1, <2>2, <3>1, <3>2 DEF Carried
  <2> QED BY <2>3, <2>4
<1>5. ASSUME NEW t \in Task, TakeMoves(t) PROVE Carried'
  <2>1. UNCHANGED <<pipe, sink, chain, writing>>
    BY <1>5 DEF TakeMoves, writable
  <2>2. Moved' = Moved
    BY <2>1, MovedStays
  <2>3. CASE t = Pipe
    <3>1. /\ returned' = Append(returned, [by |-> Pipe, bytes |-> rd[Pipe].chunk])
          /\ rd[Pipe].pc = "taken" /\ pipe = "reading"
      BY <1>5, <2>3 DEF TakeMoves
    <3>2. PICK e : e = [by |-> Pipe, bytes |-> rd[Pipe].chunk]
      OBVIOUS
    <3>3. e \in Return /\ e.by = Pipe /\ e.bytes = rd[Pipe].chunk
      BY <1>2, <3>2, ReadPlaces DEF Return
    <3>4. Got' = Got \o rd[Pipe].chunk
      BY <1>2, <3>1, <3>2, <3>3, GotGrows
    <3>5. rd'[Pipe].pc = "bytes" /\ rd'[Pipe].chunk = rd[Pipe].chunk
      BY <1>5, <2>3, TakeMovesPlaces
    <3>6. Got = Moved
      BY <1>3, <3>1
    <3> QED BY <2>1, <2>2, <3>1, <3>4, <3>5, <3>6 DEF Carried
  <2>4. CASE t # Pipe
    <3>1. PICK e \in Return : e.by = t /\ returned' = Append(returned, e)
      <4>1. CASE returned' = Append(returned, [by |-> t, bytes |-> rd[t].chunk])
        <5>1. PICK e : e = [by |-> t, bytes |-> rd[t].chunk]
          OBVIOUS
        <5>2. e \in Return /\ e.by = t
          BY <1>2, <5>1, ReadPlaces DEF Return
        <5> QED BY <4>1, <5>1, <5>2
      <4> QED BY <1>5, <4>1 DEF TakeMoves
    <3>2. Got' = Got
      BY <1>2, <2>4, <3>1, GotGrows
    <3>3. rd'[Pipe] = rd[Pipe]
      BY <1>2, <1>5, <2>4, TakeMovesPlaces
    <3> QED BY <1>3, <2>1, <2>2, <3>2, <3>3 DEF Carried
  <2> QED BY <2>3, <2>4
<1>6. ASSUME NEW t \in Task, PullMoves(t) PROVE Carried'
  <2>1. UNCHANGED <<pipe, returned, sink, chain, writing>>
    BY <1>6 DEF PullMoves, writable
  <2>2. Got' = Got /\ Moved' = Moved
    BY <2>1, GotStays, MovedStays
  <2>3. /\ rd'[t] = [rd[t] EXCEPT !.pc = "pumped"] /\ \A u \in Task : u # t => rd'[u] = rd[u]
        /\ rd[t].pc = "pumps"
    BY <1>6 DEF PullMoves
  <2>4. rd'[t].pc = "pumped"
    BY <1>2, <2>3 DEF ReadTypes, ReadOf
  <2>5. CASE t = Pipe
    <3>1. rd'[Pipe].pc # "bytes" /\ rd[Pipe].pc # "bytes"
      BY <2>3, <2>4, <2>5
    <3> QED BY <1>3, <2>1, <2>2, <3>1 DEF Carried
  <2>6. CASE t # Pipe
    BY <1>2, <1>3, <2>1, <2>2, <2>3, <2>6 DEF Carried
  <2> QED BY <2>5, <2>6
<1>7. CASE PipeGot
  <2>1. /\ UNCHANGED <<returned, overlapped>> /\ pipe = "reading" /\ pipe' # "reading"
        /\ rd[Pipe].pc \in {"bytes", "null", "error"}
    BY <1>7, GotPlaces
  <2>2. Got' = Got
    BY <2>1, GotStays
  <2>3. CASE rd[Pipe].pc = "bytes" /\ Accepted(Pipe, rd[Pipe].chunk) /\ pipe' = "writing"
    <3>1. PICK bytes \in Seq(Int) : bytes = rd[Pipe].chunk
      BY <1>2, ReadPlaces
    <3>2. /\ DOMAIN chain = 1 .. Len(chain) /\ Len(chain) \in Nat
          /\ DOMAIN chain' = 1 .. Len(chain) + 1
          /\ \A i \in 1 .. Len(chain) : chain'[i] = chain[i]
          /\ chain'[Len(chain) + 1].bytes = bytes
          /\ UNCHANGED <<writing, sink>>
      BY <1>2, <2>3, <3>1, ChainGrows
    <3>3. Moved' = Moved /\ Got = Moved \o bytes
      BY <1>3, <2>1, <2>3, <3>1, <3>2, MovedStays
    <3>4. ASSUME NEW p \in DOMAIN chain', chain'[p].by = Pipe
          PROVE  ~(writing' /\ p = 1) /\ Got' = Moved' \o chain'[p].bytes
      <4>1. p = Len(chain) + 1
        <5>1. ASSUME p \in 1 .. Len(chain) PROVE FALSE
          BY <2>1, <3>2, <3>4, <5>1 DEF Numbered
        <5> QED BY <3>2, <5>1
      <4>2. ~(writing /\ Len(chain) = 0)
        BY <1>2, EmptySeq DEF Numbered, WriteTypes
      <4> QED BY <2>2, <3>2, <3>3, <4>1, <4>2
    <3> QED BY <2>3, <3>4 DEF Carried
  <2>4. CASE rd[Pipe].pc = "null" /\ sink' = sink /\ pipe' \in {"ending", "resolved", "fails"}
    <3>1. Got' = Moved'
      BY <1>3, <2>1, <2>2, <2>4, MovedStays
    <3> QED BY <2>4, <3>1 DEF Carried
  <2>5. CASE pipe' = "fails"
    BY <2>5 DEF Carried
  <2> QED BY <1>7, <2>3, <2>4, <2>5 DEF PipeGot, SourceDone, writable
<1>8. CASE Beside
  <2>1. UNCHANGED <<rd, returned>>
    BY <1>8, BesideReads
  <2>2. Got' = Got
    BY <2>1, GotStays
  <2>3. CASE SinkWrite
    <3>1. /\ ~writing /\ writing' /\ chain # <<>> /\ UNCHANGED <<chain, pipe>>
          /\ sink' = Append(sink, Head(chain))
      BY <2>3 DEF SinkWrite
    <3>2. PICK e \in CallOf : e = Head(chain) /\ e = chain[1] /\ 1 \in DOMAIN chain
      BY <1>2, <3>1, HeadOfChain
    <3>3. e.call = "write"
      BY <3>2 DEF Numbered
    <3>4. Moved' = IF e.by = Pipe THEN Moved \o e.bytes ELSE Moved
      BY <1>2, <3>1, <3>2, <3>3, MovedGrows
    <3>5. CASE e.by = Pipe
      <4>1. pipe = "writing" /\ \A p \in DOMAIN chain : chain[p].by = Pipe => p = 1
        BY <3>2, <3>5 DEF Numbered
      <4>2. Got = Moved \o e.bytes
        BY <1>3, <3>1, <3>2, <3>5, <4>1
      <4>3. Got' = Moved'
        BY <2>2, <3>4, <3>5, <4>2
      <4> QED BY <3>1, <4>1, <4>3 DEF Carried
    <3>6. CASE e.by # Pipe
      <4>1. Moved' = Moved
        BY <3>4, <3>6
      <4>2. \A p \in DOMAIN chain : chain[p].by = Pipe => p # 1
        BY <3>2, <3>6
      <4> QED BY <1>3, <2>1, <2>2, <3>1, <4>1, <4>2 DEF Carried
    <3> QED BY <3>5, <3>6
  <2>4. CASE SinkAnswers
    <3>1. /\ writing /\ ~writing' /\ chain # <<>> /\ chain' = Tail(chain) /\ sink' = sink
          /\ pipe' \in (IF Head(chain).by = Pipe THEN {"loop", "fails"} ELSE {pipe})
      BY <2>4 DEF SinkAnswers, Numbered
    <3>2. Moved' = Moved
      BY <3>1, MovedStays
    <3>3. /\ 1 \in DOMAIN chain /\ Head(chain) = chain[1] /\ Len(chain) \in Nat \ {0}
          /\ DOMAIN chain = 1 .. Len(chain) /\ DOMAIN Tail(chain) = 1 .. Len(chain) - 1
          /\ \A i \in 1 .. Len(chain) - 1 : Tail(chain)[i] = chain[i + 1]
      BY <1>2, <3>1, HeadOfChain
    <3>4. CASE Head(chain).by = Pipe
      <4>1. pipe = "writing" /\ Got = Moved
        BY <1>3, <3>1, <3>3, <3>4 DEF Numbered
      <4> QED BY <2>2, <3>1, <3>2, <3>4, <4>1 DEF Carried
    <3>5. CASE Head(chain).by # Pipe
      <4>1. pipe' = pipe
        BY <3>1, <3>5
      <4>2. ASSUME pipe = "writing", NEW p \in DOMAIN chain', chain'[p].by = Pipe
            PROVE  Got' = Moved' \o chain'[p].bytes
        <5>1. p + 1 \in DOMAIN chain /\ p + 1 # 1 /\ chain'[p] = chain[p + 1]
          BY <3>1, <3>3, <4>2
        <5> QED BY <1>3, <2>2, <3>2, <4>2, <5>1
      <4> QED BY <1>3, <2>1, <2>2, <3>1, <3>2, <4>1, <4>2 DEF Carried
    <3> QED BY <3>4, <3>5
  <2>5. ASSUME NEW call \in {"close", "abort"}, NEW t \in Asker, NEW after \in Int, Call(call, t, after)
        PROVE  Moved' = Moved
    <3>1. PICK e : e = [call |-> call, by |-> t, bytes |-> <<>>, number |-> after]
      OBVIOUS
    <3>2. e \in CallOf /\ sink' = Append(sink, e) /\ e.call # "write"
      BY <1>2, <2>5, <3>1, CallTypes
    <3> QED BY <1>2, <3>2, MovedGrows
  <2>6. ASSUME NEW t \in Asker, EndCloses(t) PROVE Carried'
    <3>1. endOf[t] \in Int /\ Call("close", t, endOf[t]) /\ UNCHANGED <<chain, writing>>
      BY <1>2, <2>6 DEF EndCloses, WriteTypes
    <3>2. Moved' = Moved
      BY <2>5, <3>1
    <3>3. t = Pipe => pipe = "ending"
      BY <2>6 DEF EndCloses, Settles
    <3>4. pipe' = pipe \/ (pipe = "ending" /\ pipe' \in {"resolved", "fails"})
      BY <2>6, <3>3 DEF EndCloses
    <3> QED BY <1>3, <2>1, <2>2, <3>1, <3>2, <3>4 DEF Carried
  <2>7. ASSUME NEW t \in Asker, Abort(t) PROVE Moved' = Moved
    <3>1. CASE closed
      BY <2>7, <3>1, MovedStays DEF Abort
    <3>2. CASE ~closed
      <4>1. Call("abort", t, 0) /\ 0 \in Int
        BY <2>7, <3>2 DEF Abort
      <4> QED BY <2>5, <4>1
    <3> QED BY <3>1, <3>2
  <2>8. CASE UserAbort
    <3>1. Moved' = Moved /\ UNCHANGED <<chain, writing, pipe>>
      BY <2>7, <2>8, CoreConstants DEF UserAbort
    <3> QED BY <1>3, <2>1, <2>2, <3>1 DEF Carried
  <2>9. CASE PipeAborts
    <3>1. pipe' = "rejected"
      BY <2>9 DEF PipeAborts
    <3> QED BY <3>1 DEF Carried
  <2>10. CASE UserWrite
    <3>1. <<Extra>> \in Seq(Int) /\ User \in Asker /\ User # Pipe
      BY CoreConstants DEF Extra
    <3>2. Accepted(User, <<Extra>>) /\ pipe' = pipe
      BY <2>10 DEF UserWrite
    <3>3. /\ DOMAIN chain = 1 .. Len(chain) /\ Len(chain) \in Nat
          /\ DOMAIN chain' = 1 .. Len(chain) + 1
          /\ \A i \in 1 .. Len(chain) : chain'[i] = chain[i]
          /\ chain'[Len(chain) + 1].by = User
          /\ UNCHANGED <<writing, sink>>
      BY <1>2, <3>1, <3>2, ChainGrows
    <3>4. Moved' = Moved
      BY <3>3, MovedStays
    <3>5. \A p \in DOMAIN chain' : chain'[p].by = Pipe => p \in DOMAIN chain /\ chain'[p] = chain[p]
      BY <3>1, <3>3
    <3> QED BY <1>3, <2>1, <2>2, <3>2, <3>3, <3>4, <3>5 DEF Carried
  <2>11. CASE \/ PipeRead /\ pipe' = "fails" /\ UNCHANGED readable
              \/ PipeCancels \/ UserCancel \/ UserEnd \/ PipeStart \/ Signal
    <3>1. UNCHANGED <<chain, writing, sink>>
      BY <2>11 DEF PipeRead, PipeCancels, UserCancel, UserEnd, PipeStart, Signal, writable
    <3>2. Moved' = Moved
      BY <3>1, MovedStays
    <3>3. pipe' = pipe \/ pipe' \in {"fails", "aborts", "rejected"} \/ (pipe = "idle" /\ pipe' = "loop")
      BY <2>11 DEF PipeRead, PipeCancels, UserCancel, UserEnd, PipeStart, Signal
    <3> QED BY <1>3, <2>1, <2>2, <3>1, <3>2, <3>3 DEF Carried
  <2> QED BY <1>8, <2>3, <2>4, <2>6, <2>8, <2>9, <2>10, <2>11 DEF Beside
<1> QED BY <1>1, <1>4, <1>5, <1>6, <1>7, <1>8, Kinds

\* A call more is a close more or none.
LEMMA ClosesGrow ==
    ASSUME WriteTypes, NEW e \in CallOf, sink' = Append(sink, e)
    PROVE  /\ Closes' = IF e.call = "close" THEN Closes \cup {Len(sink) + 1} ELSE Closes
           /\ Closes \subseteq 1 .. Len(sink)
BY SinkGrows DEF Closes
LEMMA NumberedStays ==
    ASSUME CoreTypes, Numbered, UNCHANGED <<chain, writing, served>>,
           sink' = sink \/ \E e \in CallOf : sink' = Append(sink, e),
           pipe = "writing" => pipe' = "writing"
    PROVE  Numbered'
<1>1. Begun' = Begun
  BY DEF Begun
<1>2. ASSUME NEW j \in DOMAIN sink PROVE j \in DOMAIN sink' /\ sink'[j] = sink[j]
  <2>1. CASE sink' = sink
    BY <2>1
  <2>2. ASSUME NEW e \in CallOf, sink' = Append(sink, e)
        PROVE  j \in DOMAIN sink' /\ sink'[j] = sink[j]
    BY <2>2, SinkGrows DEF CoreTypes
  <2> QED BY <2>1, <2>2
<1> QED BY <1>1, <1>2 DEF Numbered
LEMMA AcceptedNumbered ==
    ASSUME CoreTypes, Numbered, NEW t \in Asker, NEW bytes \in Seq(Int), Accepted(t, bytes),
           IF t = Pipe THEN pipe # "writing" /\ pipe' = "writing" ELSE pipe' = pipe
    PROVE  Numbered'
<1>1. /\ DOMAIN chain = 1 .. Len(chain) /\ Len(chain) \in Nat
      /\ DOMAIN chain' = 1 .. Len(chain) + 1
      /\ \A i \in 1 .. Len(chain) : chain'[i] = chain[i]
      /\ chain'[Len(chain) + 1].by = t
      /\ chain'[Len(chain) + 1].call = "write"
      /\ chain'[Len(chain) + 1].number = served + Len(chain) + 1
      /\ UNCHANGED <<writing, served, sink>>
  BY ChainGrows DEF CoreTypes
<1>2. served \in Nat /\ chain' # <<>>
  <2>1. Len(chain) + 1 \in DOMAIN chain'
    BY <1>1
  <2> QED BY <2>1 DEF CoreTypes, WriteTypes
<1>3. ASSUME NEW i \in DOMAIN chain'
      PROVE chain'[i].number = served' + i /\ chain'[i].call = "write"
  <2>1. CASE i \in DOMAIN chain
    BY <1>1, <2>1 DEF Numbered
  <2>2. CASE i = Len(chain) + 1
    <3>1. served + Len(chain) + 1 = served + i
      BY <1>1, <1>2, <2>2
    <3> QED BY <1>1, <2>2, <3>1
  <2> QED BY <1>1, <2>1, <2>2
<1>4. ASSUME NEW i \in DOMAIN chain', chain'[i].by = Pipe
      PROVE  pipe' = "writing" /\ \A j \in DOMAIN chain' : chain'[j].by = Pipe => j = i
  <2>1. CASE t = Pipe
    <3>1. \A j \in DOMAIN chain : chain[j].by # Pipe
      BY <2>1 DEF Numbered
    <3> QED BY <1>1, <1>4, <2>1, <3>1
  <2>2. CASE t # Pipe
    <3>1. \A j \in DOMAIN chain' : chain'[j].by = Pipe => j \in DOMAIN chain /\ chain[j].by = Pipe
      BY <1>1, <2>2
    <3> QED BY <1>4, <2>2, <3>1 DEF Numbered
  <2> QED BY <2>1, <2>2
<1>5. Begun' = Begun
  BY <1>1 DEF Begun
<1> QED BY <1>1, <1>2, <1>3, <1>4, <1>5 DEF Numbered
LEMMA SinkWriteNumbered == ASSUME CoreTypes, Numbered, SinkWrite PROVE Numbered'
<1>1. /\ ~writing /\ writing' /\ chain # <<>> /\ UNCHANGED <<chain, served, pipe>>
      /\ sink' = Append(sink, Head(chain))
  BY DEF SinkWrite, CoreTypes, WriteTypes
<1>2. PICK e \in CallOf : e = Head(chain) /\ e = chain[1] /\ 1 \in DOMAIN chain
  BY <1>1, HeadOfChain DEF CoreTypes
<1>3. e.call = "write" /\ e.number = served + 1
  BY <1>2 DEF Numbered
<1>4. /\ Len(sink) \in Nat /\ DOMAIN sink = 1 .. Len(sink) /\ DOMAIN sink' = 1 .. Len(sink) + 1
      /\ sink'[Len(sink) + 1] = e /\ \A i \in 1 .. Len(sink) : sink'[i] = sink[i]
  BY <1>1, <1>2, SinkGrows DEF CoreTypes
<1>5. served \in Nat /\ Begun = served /\ Begun' = served + 1
  BY <1>1 DEF Begun, CoreTypes, WriteTypes
<1>6. ASSUME NEW n \in 1 .. Begun'
      PROVE  \E j \in DOMAIN sink' : sink'[j].call = "write" /\ sink'[j].number = n
  <2>1. CASE n = served + 1
    BY <1>3, <1>4, <2>1
  <2>2. CASE n # served + 1
    <3>1. n \in 1 .. Begun
      BY <1>5, <2>2
    <3>2. PICK j \in DOMAIN sink : sink[j].call = "write" /\ sink[j].number = n
      BY <3>1 DEF Numbered
    <3> QED BY <1>4, <3>2
  <2> QED BY <2>1, <2>2
<1> QED BY <1>1, <1>6 DEF Numbered
LEMMA SinkAnswersNumbered == ASSUME CoreTypes, Numbered, SinkAnswers PROVE Numbered'
<1>1. /\ writing /\ ~writing' /\ chain # <<>> /\ chain' = Tail(chain) /\ sink' = sink
      /\ served' = served + 1
      /\ pipe' \in (IF Head(chain).by = Pipe THEN {"loop", "fails"} ELSE {pipe})
  BY DEF SinkAnswers, Numbered
<1>2. /\ 1 \in DOMAIN chain /\ Head(chain) = chain[1] /\ Len(chain) \in Nat \ {0}
      /\ DOMAIN chain = 1 .. Len(chain) /\ DOMAIN Tail(chain) = 1 .. Len(chain) - 1
      /\ \A i \in 1 .. Len(chain) - 1 : Tail(chain)[i] = chain[i + 1]
  BY <1>1, HeadOfChain DEF CoreTypes
<1>3. served \in Nat
  BY DEF CoreTypes, WriteTypes
<1>4. \A i \in DOMAIN chain' : i \in Int /\ i + 1 \in DOMAIN chain /\ i + 1 # 1 /\ chain'[i] = chain[i + 1]
  BY <1>1, <1>2
<1>5. ASSUME NEW i \in DOMAIN chain'
      PROVE  chain'[i].number = served' + i /\ chain'[i].call = "write"
  <2>1. chain'[i].number = served + (i + 1) /\ chain'[i].call = "write"
    BY <1>4 DEF Numbered
  <2>2. served + (i + 1) = served' + i
    BY <1>1, <1>3, <1>4
  <2> QED BY <2>1, <2>2
<1>6. ASSUME NEW i \in DOMAIN chain', chain'[i].by = Pipe
      PROVE  pipe' = "writing" /\ \A j \in DOMAIN chain' : chain'[j].by = Pipe => j = i
  <2>1. pipe = "writing" /\ \A j \in DOMAIN chain : chain[j].by = Pipe => j = i + 1
    BY <1>4, <1>6 DEF Numbered
  <2>2. Head(chain).by # Pipe
    BY <1>2, <1>4, <2>1
  <2>3. \A j \in DOMAIN chain' : chain'[j].by = Pipe => j + 1 = i + 1
    BY <1>4, <2>1
  <2>4. \A j \in DOMAIN chain' : j + 1 = i + 1 => j = i
    BY <1>4
  <2> QED BY <1>1, <2>1, <2>2, <2>3, <2>4
<1>7. Begun' = Begun
  BY <1>1, <1>3 DEF Begun
<1> QED BY <1>1, <1>5, <1>6, <1>7 DEF Numbered
\* A call of end or abort.
LEMMA AbortCalls ==
    ASSUME WriteTypes, NEW t \in Asker, Abort(t)
    PROVE  \/ closed /\ UNCHANGED <<closed, sink>>
           \/ /\ ~closed /\ closed'
              /\ \E e \in CallOf : e.call = "abort" /\ e.by = t /\ sink' = Append(sink, e)
<1>1. CASE closed
  BY <1>1 DEF Abort
<1>2. CASE ~closed
  <2>1. Call("abort", t, 0) /\ 0 \in Int /\ "abort" \in {"close", "abort"} /\ closed'
    BY <1>2 DEF Abort
  <2>2. PICK e : e = [call |-> "abort", by |-> t, bytes |-> <<>>, number |-> 0]
    OBVIOUS
  <2>3. e \in CallOf /\ sink' = Append(sink, e)
    BY <2>1, <2>2, CallTypes
  <2>4. e.call = "abort" /\ e.by = t
    BY <2>2
  <2> QED BY <1>2, <2>1, <2>3, <2>4
<1> QED BY <1>1, <1>2
LEMMA EndCalls ==
    ASSUME WriteTypes, NEW t \in Asker, EndCloses(t)
    PROVE  \E e \in CallOf : /\ e.call = "close" /\ e.by = t /\ e.number = endOf[t]
                             /\ sink' = Append(sink, e)
<1>1. endOf[t] \in Int /\ Call("close", t, endOf[t])
  BY DEF EndCloses, WriteTypes
<1>2. PICK e : e = [call |-> "close", by |-> t, bytes |-> <<>>, number |-> endOf[t]]
  OBVIOUS
<1>3. e \in CallOf /\ sink' = Append(sink, e)
  BY <1>1, <1>2, CallTypes
<1>4. e.call = "close" /\ e.by = t /\ e.number = endOf[t]
  BY <1>2
<1> QED BY <1>3, <1>4
LEMMA NumberedNext == ASSUME CoreTypes, Numbered, Settles, CoreNext PROVE Numbered'
<1>1. ReadTypes /\ WriteTypes /\ Pipe \in Asker /\ User \in Asker /\ Pipe # User
  BY CoreConstants DEF CoreTypes
<1>2. CASE PipeRead
  BY <1>2, NumberedStays DEF PipeRead, writable
<1>3. CASE PipeGot
  <2>1. CASE Accepted(Pipe, rd[Pipe].chunk) /\ pipe' = "writing"
    <3>1. pipe # "writing" /\ rd[Pipe].chunk \in Seq(Int)
      BY <1>1, <1>3, CoreConstants, ReadPlaces DEF PipeGot
    <3> QED BY <1>1, <2>1, <3>1, AcceptedNumbered
  <2>2. CASE UNCHANGED <<chain, writing, served, sink>>
    BY <1>3, <2>2, NumberedStays DEF PipeGot
  <2> QED BY <1>3, <2>1, <2>2 DEF PipeGot, writable
<1>4. CASE PipeCancels \/ UserCancel \/ UserEnd \/ PipeStart \/ Signal \/ Pulled
  <2>1. UNCHANGED <<chain, writing, served, sink>> /\ (pipe = "writing" => pipe' = "writing")
    BY <1>4 DEF PipeCancels, UserCancel, UserEnd, PipeStart, Signal, Pulled, writable
  <2> QED BY <2>1, NumberedStays
<1>5. ASSUME NEW t \in Asker, Abort(t), UNCHANGED <<chain, writing, served>>,
             pipe = "writing" => pipe' = "writing"
      PROVE  Numbered'
  <2>1. sink' = sink \/ \E e \in CallOf : sink' = Append(sink, e)
    BY <1>1, <1>5, AbortCalls
  <2> QED BY <1>5, <2>1, NumberedStays
<1>6. CASE PipeAborts
  BY <1>1, <1>5, <1>6 DEF PipeAborts
<1>7. CASE UserAbort
  BY <1>1, <1>5, <1>7 DEF UserAbort
<1>8. ASSUME NEW t \in {Pipe, User}, EndCloses(t) PROVE Numbered'
  <2>1. \E e \in CallOf : sink' = Append(sink, e)
    BY <1>1, <1>8, EndCalls
  <2>2. t = Pipe => pipe = "ending"
    BY <1>8 DEF EndCloses, Settles
  <2>3. UNCHANGED <<chain, writing, served>> /\ (pipe = "writing" => pipe' = "writing")
    BY <1>8, <2>2 DEF EndCloses
  <2> QED BY <2>1, <2>3, NumberedStays
<1>9. CASE ReadSteps \/ \E t \in Reader : UserRead(t)
  <2>1. UNCHANGED writable /\ pipe' = pipe
    BY <1>9 DEF ReadSteps, ReadOn, Take, UserRead
  <2> QED BY <2>1, NumberedStays DEF writable
<1>10. CASE UserWrite
  <2>1. <<Extra>> \in Seq(Int)
    BY DEF Extra
  <2> QED BY <1>1, <1>10, <2>1, AcceptedNumbered DEF UserWrite
<1> QED BY <1>2, <1>3, <1>4, <1>6, <1>7, <1>8, <1>9, <1>10, SinkWriteNumbered, SinkAnswersNumbered
        DEF CoreNext, PipeSteps, Answers, UserSteps

\* The sink's log as it was, or with a call more that closes after no more
\* writes than the sink got.
LEMMA ClosedAfterGrows ==
    ASSUME CoreTypes, ClosedAfter, Numbered,
           \/ sink' = sink
           \/ \E e \in CallOf : sink' = Append(sink, e) /\ (e.call = "close" => e.number <= served)
    PROVE  ClosedAfter'
<1>1. CASE sink' = sink
  BY <1>1 DEF ClosedAfter, Closes
<1>2. ASSUME NEW e \in CallOf, sink' = Append(sink, e), e.call = "close" => e.number <= served
      PROVE  ClosedAfter'
  <2>1. /\ Len(sink) \in Nat /\ DOMAIN sink = 1 .. Len(sink)
        /\ sink'[Len(sink) + 1] = e /\ \A i \in 1 .. Len(sink) : sink'[i] = sink[i]
    BY <1>2, SinkGrows DEF CoreTypes
  <2>2. /\ Closes' = IF e.call = "close" THEN Closes \cup {Len(sink) + 1} ELSE Closes
        /\ Closes \subseteq 1 .. Len(sink)
    BY <1>2, ClosesGrow DEF CoreTypes
  <2>3. ASSUME NEW i \in Closes, NEW n \in 1 .. sink'[i].number
        PROVE  \E j \in 1 .. i - 1 : sink'[j].call = "write" /\ sink'[j].number = n
    <3>1. i \in 1 .. Len(sink) /\ n \in 1 .. sink[i].number
      BY <2>1, <2>2
    <3>2. PICK j \in 1 .. i - 1 : sink[j].call = "write" /\ sink[j].number = n
      BY <3>1 DEF ClosedAfter
    <3>3. j \in 1 .. Len(sink)
      BY <2>1, <3>1
    <3> QED BY <2>1, <3>2, <3>3
  <2>4. ASSUME e.call = "close", NEW n \in 1 .. e.number
        PROVE  \E j \in 1 .. Len(sink) + 1 - 1 : sink'[j].call = "write" /\ sink'[j].number = n
    <3>1. e.number \in Int /\ served \in Nat /\ Begun \in Nat /\ served <= Begun
      BY DEF CallOf, CoreTypes, WriteTypes, Begun
    <3>2. n \in 1 .. Begun
      BY <1>2, <2>4, <3>1
    <3>3. PICK j \in DOMAIN sink : sink[j].call = "write" /\ sink[j].number = n
      BY <3>2 DEF Numbered
    <3>4. j \in 1 .. Len(sink) + 1 - 1 /\ sink'[j] = sink[j]
      BY <2>1, <3>3
    <3> QED BY <3>3, <3>4
  <2> QED BY <2>1, <2>2, <2>3, <2>4 DEF ClosedAfter
<1> QED BY <1>1, <1>2
LEMMA ClosedAfterNext ==
    ASSUME CoreTypes, ClosedAfter, Numbered, CoreNext
    PROVE  ClosedAfter'
<1>1. WriteTypes /\ Pipe \in Asker /\ User \in Asker
  BY CoreConstants DEF CoreTypes
<1>2. ASSUME NEW t \in {Pipe, User}, EndCloses(t) PROVE ClosedAfter'
  <2>1. PICK e \in CallOf : e.number = endOf[t] /\ sink' = Append(sink, e)
    BY <1>1, <1>2, EndCalls
  <2>2. e.number <= served
    BY <1>1, <1>2, <2>1 DEF EndCloses, EndWaits, WriteTypes, Asker
  <2> QED BY <2>1, <2>2, ClosedAfterGrows
<1>3. ASSUME NEW t \in Asker, Abort(t) PROVE ClosedAfter'
  <2>1. sink' = sink \/ \E e \in CallOf : sink' = Append(sink, e) /\ e.call = "abort"
    BY <1>1, <1>3, AbortCalls
  <2> QED BY <2>1, ClosedAfterGrows
<1>4. CASE PipeAborts \/ UserAbort
  BY <1>1, <1>3, <1>4 DEF PipeAborts, UserAbort
<1>5. CASE SinkWrite
  <2>1. PICK e \in CallOf : e = Head(chain) /\ e = chain[1] /\ 1 \in DOMAIN chain
    BY <1>1, <1>5, HeadOfChain DEF SinkWrite
  <2>2. sink' = Append(sink, e) /\ e.call = "write"
    BY <1>5, <2>1 DEF SinkWrite, Numbered
  <2> QED BY <2>2, ClosedAfterGrows
<1>6. CASE \/ PipeRead \/ PipeGot \/ PipeCancels \/ Pulled \/ SinkAnswers \/ ReadSteps
           \/ (\E t \in Reader : UserRead(t)) \/ UserCancel \/ UserWrite \/ UserEnd \/ PipeStart
           \/ Signal
  <2>1. sink' = sink
    BY <1>6 DEF PipeRead, PipeGot, PipeCancels, Pulled, SinkAnswers, ReadSteps, ReadOn, Take,
       UserRead, UserCancel, UserWrite, UserEnd, PipeStart, Signal, Accepted, writable
  <2> QED BY <2>1, ClosedAfterGrows
<1> QED BY <1>2, <1>4, <1>5, <1>6 DEF CoreNext, PipeSteps, Answers, UserSteps

\* The close of the pipe, when it has called it, was its last call.
PipeClosed ==
    \A i \in Closes : sink[i].by = Pipe =>
        /\ closed /\ pipe \in {"resolved", "fails", "aborts", "rejected"}
        /\ \A j \in i + 1 .. Len(sink) : sink[j].by # Pipe
Rejects ==
    /\ pipe = "aborts" => cancelled \notin {"no", "failed"} /\ ended
    /\ pipe = "rejected" => cancelled # "no" /\ (cancelled = "failed" \/ (ended /\ closed))
    /\ endOf[Pipe] >= 0 => pipe = "ending"
\* An abort of the pipe's followed a cancel that succeeded.
PipeAborted ==
    \A i \in DOMAIN sink : sink[i].call = "abort" /\ sink[i].by = Pipe =>
        pipe = "rejected" /\ cancelled # "failed"
LEMMA SettlesIs == Settles <=> Rejects /\ PipeClosed /\ PipeAborted
BY DEF Settles, Rejects, PipeClosed, PipeAborted
LEMMA SettlesIsNext == Settles' <=> Rejects' /\ PipeClosed' /\ PipeAborted'
BY DEF Settles, Rejects, PipeClosed, PipeAborted
LEMMA PipeAbortedGrows ==
    ASSUME CoreTypes, PipeAborted, NEW e \in CallOf, sink' = Append(sink, e),
           pipe = "rejected" /\ cancelled # "failed" => pipe' = "rejected" /\ cancelled' # "failed",
           e.call = "abort" /\ e.by = Pipe => pipe' = "rejected" /\ cancelled' # "failed"
    PROVE  PipeAborted'
<1>1. /\ Len(sink) \in Nat /\ DOMAIN sink = 1 .. Len(sink) /\ DOMAIN sink' = 1 .. Len(sink) + 1
      /\ sink'[Len(sink) + 1] = e /\ \A i \in 1 .. Len(sink) : sink'[i] = sink[i]
  BY SinkGrows DEF CoreTypes
<1> QED BY <1>1 DEF PipeAborted
LEMMA PipeAbortedStays ==
    ASSUME PipeAborted, UNCHANGED sink,
           pipe = "rejected" /\ cancelled # "failed" => pipe' = "rejected" /\ cancelled' # "failed"
    PROVE  PipeAborted'
BY DEF PipeAborted
LEMMA PipeClosedGrows ==
    ASSUME CoreTypes, PipeClosed, NEW e \in CallOf, sink' = Append(sink, e), closed => closed',
           e.call = "close" => closed',
           \/ /\ e.by # Pipe
              /\ pipe \in {"resolved", "fails", "aborts", "rejected"} =>
                    pipe' \in {"resolved", "fails", "aborts", "rejected"}
           \/ /\ e.by = Pipe /\ (~closed \/ pipe \notin {"resolved", "fails", "aborts", "rejected"})
              /\ e.call = "close" => pipe' \in {"resolved", "fails", "aborts", "rejected"}
    PROVE  PipeClosed'
<1>1. /\ Len(sink) \in Nat /\ DOMAIN sink = 1 .. Len(sink) /\ Len(sink') = Len(sink) + 1
      /\ sink'[Len(sink) + 1] = e /\ \A i \in 1 .. Len(sink) : sink'[i] = sink[i]
  BY SinkGrows DEF CoreTypes
<1>2. /\ Closes' = IF e.call = "close" THEN Closes \cup {Len(sink) + 1} ELSE Closes
      /\ Closes \subseteq 1 .. Len(sink)
  BY ClosesGrow DEF CoreTypes
<1>3. ASSUME NEW i \in Closes, sink'[i].by = Pipe
      PROVE  /\ closed' /\ pipe' \in {"resolved", "fails", "aborts", "rejected"}
             /\ \A j \in i + 1 .. Len(sink') : sink'[j].by # Pipe
  <2>1. i \in 1 .. Len(sink) /\ sink[i].by = Pipe
    BY <1>1, <1>2, <1>3
  <2>2. /\ closed /\ pipe \in {"resolved", "fails", "aborts", "rejected"}
        /\ \A j \in i + 1 .. Len(sink) : sink[j].by # Pipe
    BY <2>1 DEF PipeClosed
  <2>3. \A j \in i + 1 .. Len(sink') : j = Len(sink) + 1 \/ (j \in i + 1 .. Len(sink) /\ j \in 1 .. Len(sink))
    BY <1>1, <2>1
  <2> QED BY <1>1, <2>2, <2>3
<1>4. ASSUME e.call = "close", e.by = Pipe
      PROVE  /\ closed' /\ pipe' \in {"resolved", "fails", "aborts", "rejected"}
             /\ \A j \in Len(sink) + 1 + 1 .. Len(sink') : sink'[j].by # Pipe
  BY <1>1, <1>4
<1> QED BY <1>1, <1>2, <1>3, <1>4 DEF PipeClosed
LEMMA PipeClosedStays ==
    ASSUME PipeClosed, UNCHANGED sink, closed => closed',
           pipe \in {"resolved", "fails", "aborts", "rejected"} =>
              pipe' \in {"resolved", "fails", "aborts", "rejected"}
    PROVE  PipeClosed'
BY DEF PipeClosed, Closes
LEMMA SettlesNext ==
    ASSUME CoreTypes, Exhausted, Numbered, Settles, CoreNext PROVE Settles'
<1>1. /\ ReadTypes /\ WriteTypes /\ PipeTypes /\ Pipe \in Asker /\ User \in Asker /\ Pipe # User
      /\ endOf \in [Asker -> Int]
  BY CoreConstants DEF CoreTypes, WriteTypes, PipeTypes
<1>2. Rejects /\ PipeClosed /\ PipeAborted
  BY SettlesIs
<1>4. ASSUME UNCHANGED <<pipe, sink>>, endOf'[Pipe] = endOf[Pipe], closed => closed',
             pipe = "rejected" => UNCHANGED cancelled,
             pipe = "aborts" => UNCHANGED cancelled, ended => ended'
      PROVE  Settles'
  <2>1. PipeClosed'
    BY <1>2, <1>4, PipeClosedStays
  <2>2. PipeAborted'
    BY <1>2, <1>4, PipeAbortedStays
  <2> QED BY <1>2, <1>4, <2>1, <2>2, SettlesIsNext DEF Rejects
<1>5. CASE ReadSteps \/ UserCancel \/ UserWrite \/ UserEnd \/ Signal \/ Pulled
  <2>1. UNCHANGED <<pipe, sink, closed>>
    BY <1>5 DEF ReadSteps, ReadOn, Take, UserCancel, UserWrite, UserEnd, Signal, Pulled, Accepted,
       writable
  <2>2. endOf'[Pipe] = endOf[Pipe]
    BY <1>1, <1>5 DEF ReadSteps, ReadOn, Take, UserCancel, UserWrite, UserEnd, Signal, Pulled,
       Accepted, EndCall, writable
  <2>3. ended => ended'
    BY <1>5 DEF ReadSteps, ReadOn, Take, UserCancel, UserWrite, UserEnd, Signal, Pulled, Cancelled,
       readable
  <2>4. pipe \in {"aborts", "rejected"} => UNCHANGED cancelled
    BY <1>2, <1>5 DEF ReadSteps, ReadOn, Take, UserCancel, UserWrite, UserEnd, Signal, Pulled, Rejects,
       Cancelled, readable
  <2> QED BY <1>4, <2>1, <2>2, <2>3, <2>4
<1>6. ASSUME NEW t, NEW n, Read(t, n) PROVE UNCHANGED <<ended, cancelled>>
  BY <1>6 DEF Read
<1>7. CASE \E t \in Reader : UserRead(t)
  BY <1>4, <1>6, <1>7 DEF UserRead, writable
<1>8. CASE PipeRead \/ PipeStart
  <2>1. /\ UNCHANGED writable /\ pipe \in {"idle", "loop"}
        /\ pipe' \in {"loop", "reading", "fails"}
    BY <1>8 DEF PipeRead, PipeStart
  <2>2. PipeClosed' /\ PipeAborted'
    BY <1>2, <2>1, PipeClosedStays, PipeAbortedStays DEF writable
  <2> QED BY <1>2, <2>1, <2>2, SettlesIsNext DEF Rejects, writable
<1>9. CASE PipeGot
  <2>1. /\ pipe = "reading" /\ pipe' \in {"writing", "ending", "resolved", "fails"}
        /\ UNCHANGED <<sink, closed>> /\ (endOf' = endOf \/ pipe' = "ending")
    BY <1>9 DEF PipeGot, Accepted, writable
  <2>2. PipeClosed' /\ PipeAborted'
    BY <1>2, <2>1, PipeClosedStays, PipeAbortedStays
  <2> QED BY <1>2, <2>1, <2>2, SettlesIsNext DEF Rejects
<1>10. CASE PipeCancels
  <2>1. /\ pipe = "fails" /\ UNCHANGED <<sink, closed, endOf>>
        /\ \/ pipe' = "aborts" /\ Cancelled("pipe")
           \/ pipe' = "rejected" /\ cancelled' = "failed"
    BY <1>10 DEF PipeCancels, writable
  <2>2. PipeClosed' /\ PipeAborted'
    BY <1>2, <2>1, PipeClosedStays, PipeAbortedStays
  <2>3. cancelled # "failed"
    BY <2>1 DEF Exhausted
  <2> QED BY <1>1, <1>2, <2>1, <2>2, <2>3, SettlesIsNext DEF Rejects, Cancelled
<1>11. CASE PipeAborts
  <2>1. /\ pipe = "aborts" /\ pipe' = "rejected" /\ UNCHANGED <<endOf, cancelled, ended>>
        /\ Abort(Pipe)
    BY <1>11 DEF PipeAborts, readable
  <2>2. \/ closed /\ UNCHANGED <<closed, sink>>
        \/ /\ ~closed /\ closed'
           /\ \E e \in CallOf : e.call = "abort" /\ e.by = Pipe /\ sink' = Append(sink, e)
    BY <1>1, <2>1, AbortCalls
  <2>3. closed' /\ (closed => closed') /\ cancelled' # "failed"
    BY <1>2, <2>1, <2>2 DEF Rejects
  <2>4. PipeClosed' /\ PipeAborted'
    <3>1. CASE UNCHANGED sink
      BY <1>2, <2>1, <2>3, <3>1, PipeClosedStays, PipeAbortedStays
    <3>2. ASSUME ~closed, NEW e \in CallOf, e.call = "abort", e.by = Pipe, sink' = Append(sink, e)
          PROVE  PipeClosed' /\ PipeAborted'
      BY <1>2, <2>1, <2>3, <3>2, PipeClosedGrows, PipeAbortedGrows
    <3> QED BY <2>2, <3>1, <3>2
  <2> QED BY <1>2, <2>1, <2>3, <2>4, SettlesIsNext DEF Rejects
<1>12. CASE UserAbort
  <2>1. UNCHANGED <<pipe, endOf, cancelled, ended>> /\ Abort(User)
    BY <1>12 DEF UserAbort, readable
  <2>2. \/ closed /\ UNCHANGED <<closed, sink>>
        \/ /\ ~closed /\ closed'
           /\ \E e \in CallOf : e.call = "abort" /\ e.by = User /\ sink' = Append(sink, e)
    BY <1>1, <2>1, AbortCalls
  <2>3. closed => closed'
    BY <2>2
  <2>4. PipeClosed' /\ PipeAborted'
    <3>1. CASE UNCHANGED sink
      BY <1>2, <2>1, <2>3, <3>1, PipeClosedStays, PipeAbortedStays
    <3>2. ASSUME NEW e \in CallOf, e.call = "abort", e.by = User, sink' = Append(sink, e)
          PROVE  PipeClosed' /\ PipeAborted'
      BY <1>1, <1>2, <2>1, <2>3, <3>2, PipeClosedGrows, PipeAbortedGrows
    <3> QED BY <2>2, <3>1, <3>2
  <2> QED BY <1>2, <2>1, <2>3, <2>4, SettlesIsNext DEF Rejects
<1>13. CASE SinkWrite
  <2>1. PICK e \in CallOf : e = Head(chain) /\ e = chain[1] /\ 1 \in DOMAIN chain
    BY <1>1, <1>13, HeadOfChain DEF SinkWrite
  <2>2. /\ sink' = Append(sink, e) /\ e.call = "write" /\ (e.by = Pipe => pipe = "writing")
        /\ UNCHANGED <<pipe, closed, endOf, cancelled, ended>>
    BY <1>13, <2>1 DEF SinkWrite, Numbered, readable
  <2>3. PipeClosed' /\ PipeAborted'
    BY <1>2, <2>2, PipeClosedGrows, PipeAbortedGrows
  <2> QED BY <1>2, <2>2, <2>3, SettlesIsNext DEF Rejects
<1>14. CASE SinkAnswers
  <2>1. /\ UNCHANGED <<sink, closed, endOf, cancelled, ended>> /\ chain # <<>>
        /\ pipe' \in (IF Head(chain).by = Pipe THEN {"loop", "fails"} ELSE {pipe})
    BY <1>14 DEF SinkAnswers, Numbered, readable
  <2>2. Head(chain).by = Pipe => pipe = "writing"
    BY <1>1, <2>1, HeadOfChain DEF Numbered
  <2>3. PipeClosed' /\ PipeAborted'
    BY <1>2, <2>1, <2>2, PipeClosedStays, PipeAbortedStays
  <2> QED BY <1>2, <2>1, <2>2, <2>3, SettlesIsNext DEF Rejects
<1>15. ASSUME NEW t \in {Pipe, User}, EndCloses(t) PROVE Settles'
  <2>1. PICK e \in CallOf : e.call = "close" /\ e.by = t /\ sink' = Append(sink, e)
    BY <1>1, <1>15, EndCalls
  <2>2. closed' /\ UNCHANGED <<cancelled, ended>> /\ endOf[t] >= 0 /\ endOf' = [endOf EXCEPT ![t] = -1]
    BY <1>15 DEF EndCloses, readable
  <2>3. CASE t = Pipe
    <3>1. pipe = "ending" /\ pipe' \in {"resolved", "fails"} /\ ~(endOf'[Pipe] >= 0)
      BY <1>1, <1>2, <1>15, <2>2, <2>3 DEF EndCloses, Rejects
    <3>2. PipeClosed' /\ PipeAborted'
      BY <1>2, <2>1, <2>2, <2>3, <3>1, PipeClosedGrows, PipeAbortedGrows
    <3> QED BY <2>2, <3>1, <3>2, SettlesIsNext DEF Rejects
  <2>4. CASE t = User
    <3>1. pipe' = pipe /\ endOf'[Pipe] = endOf[Pipe]
      BY <1>1, <1>15, <2>2, <2>4 DEF EndCloses
    <3>2. PipeClosed' /\ PipeAborted'
      BY <1>1, <1>2, <2>1, <2>2, <2>4, <3>1, PipeClosedGrows, PipeAbortedGrows
    <3> QED BY <1>2, <2>2, <3>1, <3>2, SettlesIsNext DEF Rejects
  <2> QED BY <2>3, <2>4
<1> QED BY <1>5, <1>7, <1>8, <1>9, <1>10, <1>11, <1>12, <1>13, <1>14, <1>15
        DEF CoreNext, PipeSteps, Answers, UserSteps

LEMMA CoreInitInv == CoreInit => CoreInv
<1> SUFFICES ASSUME CoreInit PROVE CoreInv
  OBVIOUS
<1>1. Pipe \in Task /\ Len(Source) \in Nat /\ <<>> \in Seq(Int) /\ DOMAIN <<>> = {}
  BY CoreConstants, Empty
<1>2. Reader \cup {Pipe} = Task /\ {Pipe, User} = Asker
  BY DEF Task, Asker
<1>3. rd = [t \in Task |-> Idle] /\ \A t \in Task : rd[t] = Idle
  BY <1>2 DEF CoreInit
<1>4. \A t \in Task : rd[t].pc = "idle" /\ rd[t].n = AnySize
  BY <1>3 DEF Idle
<1>5. CoreTypes
  <2>1. Idle \in ReadOf
    BY <1>1 DEF Idle, ReadOf
  <2>2. ReadTypes
    <3>1. rd \in [Task -> ReadOf]
      BY <1>3, <2>1
    <3>2. buffer \in Seq(Seq(Int)) /\ returned \in Seq(Return)
      BY EmptySeq DEF CoreInit
    <3>3. /\ waiter = None /\ pulled = 0 /\ ended = FALSE /\ readError = FALSE
          /\ pumping = FALSE /\ overlapped = FALSE /\ cancelled = "no"
      BY DEF CoreInit
    <3>4. pulled \in 0 .. Len(Source)
      BY <1>1, <3>3
    <3> QED BY <3>1, <3>2, <3>3, <3>4 DEF ReadTypes
  <2>3. WriteTypes
    <3>1. chain \in Seq(CallOf) /\ sink \in Seq(CallOf)
      BY EmptySeq DEF CoreInit
    <3>2. writing = FALSE /\ closed = FALSE /\ served = 0 /\ endOf = [t \in Asker |-> -1]
      BY <1>2 DEF CoreInit
    <3>3. endOf \in [Asker -> Int]
      BY <3>2
    <3> QED BY <3>1, <3>2, <3>3 DEF WriteTypes
  <2>4. PipeTypes
    BY DEF CoreInit, PipeTypes
  <2> QED BY <2>2, <2>3, <2>4 DEF CoreTypes
<1>6. OneReader
  BY <1>1, <1>4, CoreConstants DEF CoreInit, OneReader
<1>7. Pulls
  <2>1. InHands = 0
    BY <1>4 DEF InHands
  <2>2. returned = <<>> /\ buffer = <<>> /\ pulled = 0 /\ Len(<<>>) = 0
    BY DEF CoreInit
  <2>3. PulledUpTo(0)
    BY <1>1, <1>4, <2>2 DEF PulledUpTo
  <2> QED BY <2>1, <2>3, PullsIs
<1>8. Exhausted
  BY <1>1, <1>4 DEF CoreInit, Exhausted
<1>9. Carried
  <2>1. Got = <<>> /\ Moved = <<>>
    BY BytesNone DEF Got, Moved, CoreInit
  <2> QED BY <2>1 DEF Carried, CoreInit
<1>10. Numbered
  BY <1>1 DEF CoreInit, Numbered, Begun
<1>11. Closes = {}
  BY <1>1 DEF CoreInit, Closes
<1>12. ClosedAfter
  BY <1>11 DEF ClosedAfter
<1>13. Settles
  BY <1>1, <1>2, <1>11, CoreConstants DEF CoreInit, Settles
<1> QED BY <1>5, <1>6, <1>7, <1>8, <1>9, <1>10, <1>12, <1>13 DEF CoreInv
LEMMA CoreNextInv == CoreInv /\ [CoreNext]_coreVars => CoreInv'
<1> SUFFICES ASSUME CoreInv, [CoreNext]_coreVars PROVE CoreInv'
  OBVIOUS
<1>1. /\ CoreTypes /\ OneReader /\ Pulls /\ Exhausted /\ Carried /\ Numbered /\ ClosedAfter
      /\ Settles
  BY DEF CoreInv
<1>2. CASE CoreNext
  BY <1>1, <1>2, TypesNext, OneReaderNext, PullsNext, ExhaustedNext, CarriedNext, NumberedNext,
     ClosedAfterNext, SettlesNext DEF CoreInv
<1>3. CASE UNCHANGED coreVars
  <2>1. UNCHANGED <<buffer, waiter, ended, readError, pumping, pulled, rd, returned, overlapped,
                    cancelled, chain, writing, closed, served, sink, endOf, pipe, fails>>
    BY <1>3 DEF coreVars, readable, writable
  <2>2. CoreTypes'
    BY <1>1, <2>1 DEF CoreTypes, ReadTypes, WriteTypes, PipeTypes
  <2>3. OneReader' /\ Exhausted' /\ Settles' /\ ClosedAfter'
    BY <1>1, <2>1 DEF OneReader, Exhausted, Settles, ClosedAfter, Closes
  <2>4. Pulls'
    BY <1>1, <2>1 DEF Pulls, Unmixed, PipeReads, InHands
  <2>5. Got' = Got /\ Moved' = Moved
    BY <2>1, GotStays, MovedStays
  <2>6. Carried'
    BY <1>1, <2>1, <2>5 DEF Carried
  <2>7. Numbered'
    BY <1>1, <2>1, NumberedStays
  <2> QED BY <2>2, <2>3, <2>4, <2>6, <2>7 DEF CoreInv
<1> QED BY <1>2, <1>3
LEMMA CoreInvDelivers == CoreInv => PipeDelivers
<1> SUFFICES ASSUME CoreInv PROVE PipeDelivers
  OBVIOUS
<1>1. CoreTypes /\ OneReader /\ Pulls /\ Exhausted /\ Carried /\ ClosedAfter /\ Settles
  BY DEF CoreInv
<1>2. ASSUME pipe = "resolved", ~overlapped PROVE Moved = Got
  BY <1>1, <1>2 DEF Carried
<1>3. ASSUME pipe = "resolved", ~overlapped, cancelled # "user", PipeReads = DOMAIN returned
      PROVE  Got = Bytes
  <2>1. ended /\ buffer = <<>> /\ \A t \in Reader : rd[t].pc = "idle"
    BY <1>1, <1>3 DEF Exhausted
  <2>2. pulled = Len(Source)
    BY <1>1, <1>3, <2>1 DEF Exhausted, CoreTypes, ReadTypes
  <2>3. \A t \in Task : rd[t].pc # "taken"
    BY <1>1, <1>3, <2>1 DEF OneReader, Task
  <2>4. InHands = 0
    BY <2>3 DEF InHands
  <2>5. PulledUpTo(InHands)
    BY <1>1, <1>3, PullsIs DEF Unmixed
  <2>6. /\ Len(returned) \in Nat /\ DOMAIN returned = 1 .. Len(returned)
    BY <1>1, ReturnedIs DEF CoreTypes
  <2>7. Len(buffer) = 0
    BY <2>1
  <2>8. Len(returned) = Len(Source) /\ \A i \in DOMAIN returned : returned[i].bytes = Source[i]
    BY <2>2, <2>4, <2>5, <2>6, <2>7 DEF PulledUpTo
  <2>9. BytesOf(returned, 1 .. Len(Source)) = FlattenSeq(Source)
    BY <2>6, <2>8, CoreConstants, BytesAll
  <2>10. PipeReads = 1 .. Len(Source)
    BY <1>3, <2>6, <2>8
  <2> QED BY <2>9, <2>10 DEF Got, Bytes
<1>4. ASSUME pipe = "resolved", ~overlapped
      PROVE  /\ Moved = Got
             /\ cancelled # "user" /\ PipeReads = DOMAIN returned => Moved = Bytes
             /\ \A i \in Closes : sink[i].by = Pipe =>
                   \A j \in i + 1 .. Len(sink) : sink[j].by # Pipe
  BY <1>1, <1>2, <1>3, <1>4 DEF Settles
<1>5. \A i \in Closes : \A n \in 1 .. sink[i].number :
          \E j \in 1 .. i - 1 : sink[j].call = "write" /\ sink[j].number = n
  BY <1>1 DEF ClosedAfter
<1>6. pipe = "rejected" =>
          IF cancelled = "failed" THEN \A i \in DOMAIN sink : sink[i].call = "abort" => sink[i].by # Pipe
          ELSE cancelled # "no" /\ ended /\ closed
  BY <1>1 DEF Settles
<1> QED BY <1>4, <1>5, <1>6 DEF PipeDelivers, Moved, Got

\* A pipe that resolved has moved the bytes it read, all of the source's when
\* no other read met it and the user did not cancel it, and called its sink no
\* more after its close; no sink is closed before it got the writes accepted
\* before its end; a pipe that rejected has ended its source and closed its sink,
\* unless the source refused the cancel, and then it has not aborted the sink:
\* for every source, readers, sizes and any failures.
THEOREM PipesDeliver == CoreSpec => []PipeDelivers
<1>1. CoreInit => CoreInv
  BY CoreInitInv
<1>2. CoreInv /\ [CoreNext]_coreVars => CoreInv'
  BY CoreNextInv
<1>3. CoreInv => PipeDelivers
  BY CoreInvDelivers
<1> QED BY <1>1, <1>2, <1>3, PTL DEF CoreSpec
-----------------------------------------------------------------------------
(* Where bytes lie: families of sequences that have the same bytes.        *)

LEMMA SpotIs ==
    ASSUME NEW f
    PROVE  /\ \A p, j : <<p, j>> \in Spots(f) <=> p \in DOMAIN f /\ j \in DOMAIN f[p]
           /\ \A s \in Spots(f) : s = <<s[1], s[2]>> /\ s[1] \in DOMAIN f /\ s[2] \in DOMAIN f[s[1]]
<1>1. ASSUME NEW s \in Spots(f)
      PROVE  s = <<s[1], s[2]>> /\ s[1] \in DOMAIN f /\ s[2] \in DOMAIN f[s[1]]
  <2>1. PICK p \in DOMAIN f : s \in {p} \X DOMAIN f[p]
    BY DEF Spots
  <2> QED BY <2>1
<1>2. ASSUME NEW p, NEW j, p \in DOMAIN f, j \in DOMAIN f[p] PROVE <<p, j>> \in Spots(f)
  <2>1. <<p, j>> \in {p} \X DOMAIN f[p]
    BY <1>2
  <2> QED BY <1>2, <2>1 DEF Spots
<1>3. ASSUME NEW p, NEW j, <<p, j>> \in Spots(f) PROVE p \in DOMAIN f /\ j \in DOMAIN f[p]
  BY <1>1, <1>3
<1> QED BY <1>1, <1>2, <1>3

\* b takes the spots of f to those of g, one to one, and bytes to equal bytes.
OneToOne(b, S, T) ==
    /\ b \in [S -> T] /\ \A s, t \in S : b[s] = b[t] => s = t
    /\ \A t \in T : \E s \in S : b[s] = t
Carries(b, f, g) ==
    /\ OneToOne(b, Spots(f), Spots(g))
    /\ \A s \in Spots(f) : f[s[1]][s[2]] = g[b[s][1]][b[s][2]]
Alike(f, g) == \E b : Carries(b, f, g)

LEMMA AlikeTrans ==
    ASSUME NEW f, NEW g, NEW h, Alike(f, g), Alike(g, h)
    PROVE  Alike(f, h)
<1>1. PICK b : Carries(b, f, g)
  BY DEF Alike
<1>2. PICK c : Carries(c, g, h)
  BY DEF Alike
<1> DEFINE d == [s \in Spots(f) |-> c[b[s]]]
<1>3. OneToOne(d, Spots(f), Spots(h))
  <2>1. OneToOne(b, Spots(f), Spots(g)) /\ OneToOne(c, Spots(g), Spots(h))
    BY <1>1, <1>2 DEF Carries
  <2> QED BY <2>1 DEF OneToOne
<1>4. \A s \in Spots(f) : f[s[1]][s[2]] = h[d[s][1]][d[s][2]]
  <2>1. \A s \in Spots(f) : b[s] \in Spots(g)
    BY <1>1 DEF Carries, OneToOne
  <2> QED BY <1>1, <1>2, <2>1 DEF Carries
<1> HIDE DEF d
<1> QED BY <1>3, <1>4 DEF Carries, Alike

\* What lies elsewhere, each sequence in one place.
LEMMA AlikeMoved ==
    ASSUME NEW f, NEW g, NEW r, OneToOne(r, DOMAIN f, DOMAIN g), \A p \in DOMAIN f : f[p] = g[r[p]]
    PROVE  Alike(f, g)
<1> DEFINE b == [s \in Spots(f) |-> <<r[s[1]], s[2]>>]
<1>1. \A s \in Spots(f) : b[s] \in Spots(g) /\ b[s] = <<r[s[1]], s[2]>>
  BY SpotIs DEF OneToOne
<1>2. \A s, t \in Spots(f) : b[s] = b[t] => s = t
  BY SpotIs DEF OneToOne
<1>3. ASSUME NEW t \in Spots(g) PROVE \E s \in Spots(f) : b[s] = t
  <2>1. t = <<t[1], t[2]>> /\ t[1] \in DOMAIN g /\ t[2] \in DOMAIN g[t[1]]
    BY SpotIs
  <2>2. PICK p \in DOMAIN f : r[p] = t[1]
    BY <2>1 DEF OneToOne
  <2>3. <<p, t[2]>> \in Spots(f)
    BY <2>1, <2>2, SpotIs
  <2> QED BY <1>1, <2>1, <2>2, <2>3
<1>4. b \in [Spots(f) -> Spots(g)]
  BY <1>1
<1>5. OneToOne(b, Spots(f), Spots(g))
  <2> HIDE DEF b
  <2> QED BY <1>2, <1>3, <1>4 DEF OneToOne
<1>6. \A s \in Spots(f) : f[s[1]][s[2]] = g[b[s][1]][b[s][2]]
  BY SpotIs
<1> HIDE DEF b
<1> QED BY <1>5, <1>6 DEF Carries, Alike

\* A sequence that was added to one and to the other.
Added(g, f, q, s) ==
    /\ q \notin DOMAIN f /\ DOMAIN g = DOMAIN f \cup {q} /\ g[q] = s
    /\ \A p \in DOMAIN f : g[p] = f[p]
LEMMA SpotsAdded ==
    ASSUME NEW f, NEW g, NEW q, NEW s, Added(g, f, q, s)
    PROVE  /\ Spots(g) = Spots(f) \cup ({q} \X DOMAIN s)
           /\ Spots(f) \cap ({q} \X DOMAIN s) = {}
           /\ \A t \in Spots(f) : t[1] \in DOMAIN f /\ t[1] # q
<1>1. \A t \in Spots(f) : t[1] \in DOMAIN f /\ t[1] # q
  BY SpotIs DEF Added
<1>2. Spots(f) \cap ({q} \X DOMAIN s) = {}
  BY <1>1
<1>3. ASSUME NEW t \in Spots(g) PROVE t \in Spots(f) \cup ({q} \X DOMAIN s)
  <2>1. t = <<t[1], t[2]>> /\ t[1] \in DOMAIN g /\ t[2] \in DOMAIN g[t[1]]
    BY SpotIs
  <2>2. CASE t[1] = q
    BY <2>1, <2>2 DEF Added
  <2>3. CASE t[1] \in DOMAIN f
    <3>1. <<t[1], t[2]>> \in Spots(f)
      BY <2>1, <2>3, SpotIs DEF Added
    <3> QED BY <2>1, <3>1
  <2> QED BY <2>1, <2>2, <2>3 DEF Added
<1>4. ASSUME NEW t \in Spots(f) PROVE t \in Spots(g)
  <2>1. t = <<t[1], t[2]>> /\ t[1] \in DOMAIN f /\ t[2] \in DOMAIN f[t[1]]
    BY SpotIs
  <2>2. <<t[1], t[2]>> \in Spots(g)
    BY <2>1, SpotIs DEF Added
  <2> QED BY <2>1, <2>2
<1>5. ASSUME NEW t \in {q} \X DOMAIN s PROVE t \in Spots(g)
  <2>1. t = <<q, t[2]>> /\ t[2] \in DOMAIN s
    OBVIOUS
  <2>2. <<q, t[2]>> \in Spots(g)
    BY <2>1, SpotIs DEF Added
  <2> QED BY <2>1, <2>2
<1> QED BY <1>1, <1>2, <1>3, <1>4, <1>5
LEMMA AlikeAdded ==
    ASSUME NEW f, NEW g, NEW h, NEW k, NEW p, NEW q, NEW s, Alike(f, g),
           Added(h, f, p, s), Added(k, g, q, s)
    PROVE  Alike(h, k)
<1>1. PICK b : Carries(b, f, g)
  BY DEF Alike
<1>2. OneToOne(b, Spots(f), Spots(g)) /\ \A t \in Spots(f) : f[t[1]][t[2]] = g[b[t][1]][b[t][2]]
  BY <1>1 DEF Carries
<1>3. /\ Spots(h) = Spots(f) \cup ({p} \X DOMAIN s) /\ Spots(f) \cap ({p} \X DOMAIN s) = {}
      /\ Spots(k) = Spots(g) \cup ({q} \X DOMAIN s) /\ Spots(g) \cap ({q} \X DOMAIN s) = {}
      /\ \A t \in Spots(f) : t[1] \in DOMAIN f /\ t[1] # p
      /\ \A t \in Spots(g) : t[1] \in DOMAIN g /\ t[1] # q
  BY SpotsAdded
<1> DEFINE c == [t \in Spots(h) |-> IF t[1] = p THEN <<q, t[2]>> ELSE b[t]]
<1>4. \A t \in Spots(f) : c[t] = b[t] /\ c[t] \in Spots(g)
  BY <1>2, <1>3 DEF OneToOne
<1>5. \A i \in DOMAIN s : <<p, i>> \in Spots(h) /\ c[<<p, i>>] = <<q, i>>
  BY <1>3
<1>6. c \in [Spots(h) -> Spots(k)]
  BY <1>3, <1>4, <1>5
<1> HIDE DEF c
<1>7. \A t \in Spots(h) : t \in Spots(f) \/ \E i \in DOMAIN s : t = <<p, i>>
  BY <1>3
<1>8. \A t \in Spots(k) : t \in Spots(g) \/ \E i \in DOMAIN s : t = <<q, i>>
  BY <1>3
<1>9. ASSUME NEW t \in Spots(h), NEW u \in Spots(h), c[t] = c[u] PROVE t = u
  <2>1. CASE t \in Spots(f) /\ u \in Spots(f)
    BY <1>2, <1>4, <1>9, <2>1 DEF OneToOne
  <2>2. \A x \in Spots(f) : \A i \in DOMAIN s : c[x] # c[<<p, i>>]
    BY <1>3, <1>4, <1>5
  <2> QED BY <1>5, <1>7, <1>9, <2>1, <2>2
<1>10. ASSUME NEW t \in Spots(k) PROVE \E u \in Spots(h) : c[u] = t
  <2>1. CASE t \in Spots(g)
    <3>1. PICK u \in Spots(f) : b[u] = t
      BY <1>2, <2>1 DEF OneToOne
    <3> QED BY <1>3, <1>4, <3>1
  <2>2. CASE \E i \in DOMAIN s : t = <<q, i>>
    BY <1>5, <2>2
  <2> QED BY <1>8, <2>1, <2>2
<1>11. OneToOne(c, Spots(h), Spots(k))
  BY <1>6, <1>9, <1>10 DEF OneToOne
<1>12. ASSUME NEW t \in Spots(h) PROVE h[t[1]][t[2]] = k[c[t][1]][c[t][2]]
  <2>1. CASE t \in Spots(f)
    <3>1. c[t] \in Spots(g) /\ h[t[1]] = f[t[1]] /\ k[c[t][1]] = g[c[t][1]]
      BY <1>3, <1>4, <2>1 DEF Added
    <3> QED BY <1>2, <1>4, <2>1, <3>1
  <2>2. CASE \E i \in DOMAIN s : t = <<p, i>>
    BY <1>5, <2>2 DEF Added
  <2> QED BY <1>7, <2>1, <2>2
<1> QED BY <1>11, <1>12 DEF Carries, Alike

\* A sequence that lies in two parts.
LEMMA AlikeSplit ==
    ASSUME NEW m, NEW f, NEW g, NEW h, NEW p, NEW q, NEW r, NEW S, NEW s \in Seq(S), NEW u \in Seq(S),
           Added(f, m, p, s \o u), Added(g, m, q, s), Added(h, g, r, u)
    PROVE  Alike(h, f)
<1>1. PICK n \in Nat : n = Len(s)
  BY LenProperties
<1>2. PICK k \in Nat : k = Len(u)
  BY LenProperties
<1>3. DOMAIN s = 1 .. n /\ DOMAIN u = 1 .. k
  BY <1>1, <1>2, LenProperties
<1>4. PICK w : w = s \o u
  OBVIOUS
<1>5. /\ w \in Seq(S) /\ DOMAIN w = 1 .. n + k
      /\ \A i \in 1 .. n : w[i] = s[i]
      /\ \A i \in 1 .. k : w[n + i] = u[i]
  <2>1. /\ w \in Seq(S) /\ Len(w) = n + k
        /\ \A i \in 1 .. Len(w) : w[i] = IF i <= n THEN s[i] ELSE u[i - n]
    BY <1>1, <1>2, <1>4, ConcatProperties
  <2>2. DOMAIN w = 1 .. n + k
    BY <2>1, LenProperties
  <2>3. \A i \in 1 .. k : n + i \in 1 .. n + k /\ ~(n + i <= n) /\ n + i - n = i
    OBVIOUS
  <2>4. \A i \in 1 .. n : i \in 1 .. n + k /\ i <= n
    OBVIOUS
  <2> QED BY <2>1, <2>2, <2>3, <2>4
<1>6. /\ Spots(f) = Spots(m) \cup ({p} \X (1 .. n + k))
      /\ Spots(g) = Spots(m) \cup ({q} \X (1 .. n))
      /\ \A t \in Spots(m) : t[1] \in DOMAIN m /\ t[1] # p /\ t[1] # q
  <2>1. Added(f, m, p, w)
    BY <1>4
  <2>2. /\ Spots(f) = Spots(m) \cup ({p} \X DOMAIN w)
        /\ \A t \in Spots(m) : t[1] \in DOMAIN m /\ t[1] # p
    BY <2>1, SpotsAdded
  <2>3. /\ Spots(g) = Spots(m) \cup ({q} \X DOMAIN s)
        /\ \A t \in Spots(m) : t[1] # q
    BY SpotsAdded
  <2> QED BY <1>3, <1>5, <2>2, <2>3
<1>7. /\ Spots(h) = Spots(g) \cup ({r} \X (1 .. k))
      /\ \A t \in Spots(g) : t[1] # r
  BY <1>3, SpotsAdded
<1>8. r # q /\ \A t \in Spots(m) : t[1] # r
  <2>1. r # q
    BY DEF Added
  <2> QED BY <1>6, <1>7, <2>1
<1> DEFINE b == [t \in Spots(h) |-> IF t[1] = q THEN <<p, t[2]>>
                                    ELSE IF t[1] = r THEN <<p, n + t[2]>> ELSE t]
<1>9. \A t \in Spots(m) : t \in Spots(h) /\ b[t] = t /\ t \in Spots(f)
  BY <1>6, <1>7, <1>8
<1>10. \A i \in 1 .. n : /\ <<q, i>> \in Spots(h) /\ b[<<q, i>>] = <<p, i>>
                         /\ i \in 1 .. n + k /\ <<p, i>> \in Spots(f)
  BY <1>6, <1>7
<1>11. \A i \in 1 .. k : /\ <<r, i>> \in Spots(h) /\ b[<<r, i>>] = <<p, n + i>>
                         /\ n + i \in 1 .. n + k /\ <<p, n + i>> \in Spots(f)
  BY <1>6, <1>7, <1>8
<1>12. \A t \in Spots(h) : \/ t \in Spots(m)
                           \/ \E i \in 1 .. n : t = <<q, i>>
                           \/ \E i \in 1 .. k : t = <<r, i>>
  BY <1>6, <1>7
<1>13. b \in [Spots(h) -> Spots(f)]
  <2>1. ASSUME NEW t \in Spots(h) PROVE b[t] \in Spots(f)
    <3> HIDE DEF b
    <3>1. CASE t \in Spots(m)
      BY <1>9, <3>1
    <3>2. CASE \E i \in 1 .. n : t = <<q, i>>
      BY <1>10, <3>2
    <3>3. CASE \E i \in 1 .. k : t = <<r, i>>
      BY <1>11, <3>3
    <3> QED BY <1>12, <3>1, <3>2, <3>3
  <2> QED BY <2>1
<1> HIDE DEF b
<1>14. ASSUME NEW t \in Spots(h), NEW v \in Spots(h), b[t] = b[v] PROVE t = v
  <2>1. /\ \A x \in Spots(m) : b[x] = x /\ b[x][1] # p
        /\ \A i \in 1 .. n : b[<<q, i>>][1] = p /\ b[<<q, i>>][2] = i
        /\ \A i \in 1 .. k : b[<<r, i>>][1] = p /\ b[<<r, i>>][2] = n + i
    <3>1. ASSUME NEW i \in 1 .. n PROVE b[<<q, i>>][1] = p /\ b[<<q, i>>][2] = i
      <4>1. b[<<q, i>>] = <<p, i>>
        BY <1>10
      <4> QED BY <4>1
    <3>2. ASSUME NEW i \in 1 .. k PROVE b[<<r, i>>][1] = p /\ b[<<r, i>>][2] = n + i
      <4>1. b[<<r, i>>] = <<p, n + i>>
        BY <1>11
      <4> QED BY <4>1
    <3>3. ASSUME NEW x \in Spots(m) PROVE b[x] = x /\ b[x][1] # p
      <4>1. b[x] = x /\ x[1] # p
        BY <1>6, <1>9
      <4> QED BY <4>1
    <3> QED BY <3>1, <3>2, <3>3
  <2>2. /\ \A i \in 1 .. n : \A j \in 1 .. k : n + j # i
        /\ \A i, j \in 1 .. k : n + i = n + j => i = j
    OBVIOUS
  <2>3. CASE t \in Spots(m)
    <3>1. b[t] = t /\ b[t][1] # p
      BY <2>1, <2>3
    <3>2. b[v][1] # p
      BY <1>14, <3>1
    <3>3. /\ \A i \in 1 .. n : v # <<q, i>>
          /\ \A i \in 1 .. k : v # <<r, i>>
      BY <2>1, <3>2
    <3>4. v \in Spots(m)
      BY <1>12, <3>3
    <3> QED BY <1>14, <2>1, <3>1, <3>4
  <2>4. CASE \E i \in 1 .. n : t = <<q, i>>
    <3>1. PICK i \in 1 .. n : t = <<q, i>>
      BY <2>4
    <3>2. b[v][1] = p /\ b[v][2] = i
      BY <1>14, <2>1, <3>1
    <3>3. v \notin Spots(m) /\ \A j \in 1 .. k : v # <<r, j>>
      BY <2>1, <2>2, <3>2
    <3>4. PICK j \in 1 .. n : v = <<q, j>>
      BY <1>12, <3>3
    <3> QED BY <2>1, <3>1, <3>2, <3>4
  <2>5. CASE \E i \in 1 .. k : t = <<r, i>>
    <3>1. PICK i \in 1 .. k : t = <<r, i>>
      BY <2>5
    <3>2. b[v][1] = p /\ b[v][2] = n + i
      BY <1>14, <2>1, <3>1
    <3>3. v \notin Spots(m) /\ \A j \in 1 .. n : v # <<q, j>>
      BY <2>1, <2>2, <3>2
    <3>4. PICK j \in 1 .. k : v = <<r, j>>
      BY <1>12, <3>3
    <3>5. n + j = n + i
      BY <2>1, <3>2, <3>4
    <3> QED BY <2>2, <3>1, <3>4, <3>5
  <2> QED BY <1>12, <2>3, <2>4, <2>5
<1>15. ASSUME NEW t \in Spots(f) PROVE \E v \in Spots(h) : b[v] = t
  <2>1. CASE t \in Spots(m)
    BY <1>9, <2>1
  <2>2. CASE \E i \in 1 .. n + k : t = <<p, i>>
    <3>1. PICK i \in 1 .. n + k : t = <<p, i>>
      BY <2>2
    <3>2. CASE i \in 1 .. n
      BY <1>10, <3>1, <3>2
    <3>3. CASE ~(i \in 1 .. n)
      <4>1. i - n \in 1 .. k /\ n + (i - n) = i
        BY <3>3
      <4> QED BY <1>11, <3>1, <4>1
    <3> QED BY <3>2, <3>3
  <2> QED BY <1>6, <2>1, <2>2
<1>16. ASSUME NEW t \in Spots(h) PROVE h[t[1]][t[2]] = f[b[t][1]][b[t][2]]
  <2>1. h[r] = u /\ h[q] = s /\ f[p] = w /\ \A d \in DOMAIN m : h[d] = m[d] /\ f[d] = m[d]
    BY <1>4 DEF Added
  <2>2. CASE t \in Spots(m)
    BY <1>6, <1>9, <2>1, <2>2
  <2>3. CASE \E i \in 1 .. n : t = <<q, i>>
    <3>1. PICK i \in 1 .. n : t = <<q, i>>
      BY <2>3
    <3>2. t[1] = q /\ t[2] = i /\ b[t][1] = p /\ b[t][2] = i
      <4>1. b[<<q, i>>] = <<p, i>>
        BY <1>10
      <4> QED BY <3>1, <4>1
    <3> QED BY <1>5, <2>1, <3>2
  <2>4. CASE \E i \in 1 .. k : t = <<r, i>>
    <3>1. PICK i \in 1 .. k : t = <<r, i>>
      BY <2>4
    <3>2. t[1] = r /\ t[2] = i /\ b[t][1] = p /\ b[t][2] = n + i
      <4>1. b[<<r, i>>] = <<p, n + i>>
        BY <1>11
      <4> QED BY <3>1, <4>1
    <3> QED BY <1>5, <2>1, <3>2
  <2> QED BY <1>12, <2>2, <2>3, <2>4
<1> QED BY <1>13, <1>14, <1>15, <1>16 DEF OneToOne, Carries, Alike

\* How many bytes there are.
LEMMA CountAlike ==
    ASSUME NEW S, NEW T, NEW b, OneToOne(b, S, T), IsFiniteSet(T)
    PROVE  IsFiniteSet(S) /\ Cardinality(S) = Cardinality(T)
<1>1. b \in Injection(S, T) /\ b \in Surjection(S, T)
  BY Fun_IsInj, Fun_IsSurj DEF OneToOne
<1> QED BY <1>1, FS_Injection
LEMMA CountAdded ==
    ASSUME NEW f, NEW g, NEW q, NEW S, NEW s \in Seq(S), Added(g, f, q, s), IsFiniteSet(Spots(f))
    PROVE  IsFiniteSet(Spots(g)) /\ Cardinality(Spots(g)) = Cardinality(Spots(f)) + Len(s)
<1>1. PICK n \in Nat : n = Len(s) /\ DOMAIN s = 1 .. n
  BY LenProperties
<1>2. IsFiniteSet(1 .. n) /\ Cardinality(1 .. n) = n
  BY FS_Interval
<1>3. IsFiniteSet({q}) /\ Cardinality({q}) = 1
  BY FS_Singleton
<1>4. PICK P : P = {q} \X (1 .. n)
  OBVIOUS
<1>5. IsFiniteSet(P) /\ Cardinality(P) = n
  <2>1. IsFiniteSet(P) /\ Cardinality(P) = Cardinality({q}) * Cardinality(1 .. n)
    BY <1>2, <1>3, <1>4, FS_Product
  <2> QED BY <1>2, <1>3, <2>1
<1>6. Spots(g) = Spots(f) \cup P /\ Spots(f) \cap P = {}
  BY <1>1, <1>4, SpotsAdded
<1>7. /\ IsFiniteSet(Spots(g))
      /\ Cardinality(Spots(g)) = Cardinality(Spots(f)) + Cardinality(P) - Cardinality({})
  BY <1>5, <1>6, FS_Union
<1>8. Cardinality({}) = 0
  BY FS_EmptySet
<1> QED BY <1>1, <1>5, <1>7, <1>8, FS_CardinalityType
\* Of each byte as many.
LEMMA TallyAlike ==
    ASSUME NEW f, NEW g, Alike(f, g), IsFiniteSet(Spots(g))
    PROVE  Tally(f) = Tally(g)
<1>1. PICK b : Carries(b, f, g)
  BY DEF Alike
<1>2. OneToOne(b, Spots(f), Spots(g)) /\ \A t \in Spots(f) : f[t[1]][t[2]] = g[b[t][1]][b[t][2]]
  BY <1>1 DEF Carries
<1>3. {f[s[1]][s[2]] : s \in Spots(f)} = {g[s[1]][s[2]] : s \in Spots(g)}
  <2>1. ASSUME NEW s \in Spots(f) PROVE \E t \in Spots(g) : f[s[1]][s[2]] = g[t[1]][t[2]]
    BY <1>2 DEF OneToOne
  <2>2. ASSUME NEW t \in Spots(g) PROVE \E s \in Spots(f) : g[t[1]][t[2]] = f[s[1]][s[2]]
    <3>1. PICK s \in Spots(f) : b[s] = t
      BY <1>2 DEF OneToOne
    <3> QED BY <1>2, <3>1
  <2> QED BY <2>1, <2>2
<1>4. ASSUME NEW x
      PROVE  Cardinality({s \in Spots(f) : f[s[1]][s[2]] = x}) = Cardinality({s \in Spots(g) : g[s[1]][s[2]] = x})
  <2> DEFINE S == {s \in Spots(f) : f[s[1]][s[2]] = x}
             T == {s \in Spots(g) : g[s[1]][s[2]] = x}
             c == [s \in S |-> b[s]]
  <2>1. \A s \in S : s \in Spots(f) /\ c[s] = b[s] /\ b[s] \in T
    BY <1>2 DEF OneToOne
  <2>2. c \in [S -> T]
    BY <2>1
  <2>3. ASSUME NEW t \in T PROVE \E s \in S : b[s] = t
    <3>1. PICK s \in Spots(f) : b[s] = t
      BY <1>2 DEF OneToOne
    <3>2. s \in S
      BY <1>2, <3>1
    <3> QED BY <3>1, <3>2
  <2>4. IsFiniteSet(T)
    BY FS_Subset
  <2> HIDE DEF S, T, c
  <2>5. OneToOne(c, S, T)
    BY <1>2, <2>1, <2>2, <2>3 DEF OneToOne
  <2>6. Cardinality(S) = Cardinality(T)
    BY <2>4, <2>5, CountAlike
  <2> QED BY <2>6 DEF S, T
<1> QED BY <1>3, <1>4 DEF Tally

\* Held and Lying, of any queue, readers and log.
HeldIn(items, readers) ==
    [p \in ({"queued"} \X DOMAIN items) \cup ({"taken"} \X {t \in DOMAIN readers : readers[t].pc = "taken"}) |->
        IF p[1] = "queued" THEN items[p[2]] ELSE readers[p[2]].chunk]
LyingIn(held, log) ==
    [p \in DOMAIN held \cup ({"returned"} \X DOMAIN log) |->
        IF p[1] = "returned" THEN log[p[2]].bytes ELSE held[p]]
LEMMA HeldLying ==
    /\ Held = HeldIn(buffer, rd) /\ Held' = HeldIn(buffer', rd')
    /\ Lying = LyingIn(HeldIn(buffer, rd), returned)
    /\ Lying' = LyingIn(HeldIn(buffer', rd'), returned')
BY DEF Held, Lying, InHand, HeldIn, LyingIn

LEMMA HeldIs ==
    ASSUME NEW items, NEW readers
    PROVE  /\ \A p \in DOMAIN HeldIn(items, readers) :
                 \/ p = <<"queued", p[2]>> /\ p[2] \in DOMAIN items
                 \/ p = <<"taken", p[2]>> /\ p[2] \in DOMAIN readers /\ readers[p[2]].pc = "taken"
           /\ \A i : <<"queued", i>> \in DOMAIN HeldIn(items, readers) <=> i \in DOMAIN items
           /\ \A t : <<"taken", t>> \in DOMAIN HeldIn(items, readers) <=>
                        t \in DOMAIN readers /\ readers[t].pc = "taken"
           /\ \A i \in DOMAIN items : HeldIn(items, readers)[<<"queued", i>>] = items[i]
           /\ \A t \in DOMAIN readers :
                 readers[t].pc = "taken" => HeldIn(items, readers)[<<"taken", t>>] = readers[t].chunk
           /\ \A p \in DOMAIN HeldIn(items, readers) : p[1] # "returned"
BY DEF HeldIn
\* The same items are held.
SameHands(readers, after) ==
    /\ DOMAIN after = DOMAIN readers
    /\ \A t \in DOMAIN readers : /\ after[t].pc = "taken" <=> readers[t].pc = "taken"
                                 /\ after[t].pc = "taken" => after[t].chunk = readers[t].chunk
LEMMA HeldStays ==
    ASSUME NEW items, NEW readers, NEW after, SameHands(readers, after)
    PROVE  HeldIn(items, after) = HeldIn(items, readers)
<1>1. {t \in DOMAIN after : after[t].pc = "taken"} = {t \in DOMAIN readers : readers[t].pc = "taken"}
  BY DEF SameHands
<1>2. \A t \in {u \in DOMAIN readers : readers[u].pc = "taken"} : after[t].chunk = readers[t].chunk
  BY DEF SameHands
<1>3. PICK H : H = {t \in DOMAIN readers : readers[t].pc = "taken"}
  OBVIOUS
<1>4. ASSUME NEW p \in ({"queued"} \X DOMAIN items) \cup ({"taken"} \X H)
      PROVE  (IF p[1] = "queued" THEN items[p[2]] ELSE after[p[2]].chunk)
             = IF p[1] = "queued" THEN items[p[2]] ELSE readers[p[2]].chunk
  BY <1>2, <1>3
<1> QED BY <1>1, <1>3, <1>4 DEF HeldIn

\* One item more, in the queue or in a reader's hands.
LEMMA QueueAdds ==
    ASSUME NEW S, NEW items \in Seq(S), NEW item \in S, NEW readers
    PROVE  Added(HeldIn(Append(items, item), readers), HeldIn(items, readers),
                 <<"queued", Len(items) + 1>>, item)
<1>1. PICK n \in Nat : n = Len(items) /\ DOMAIN items = 1 .. n
  BY LenProperties
<1>2. PICK more : more = Append(items, item)
  OBVIOUS
<1>3. /\ DOMAIN more = 1 .. n + 1 /\ more[n + 1] = item
      /\ \A i \in 1 .. n : more[i] = items[i]
  <2>1. /\ more \in Seq(S) /\ Len(more) = n + 1 /\ more[n + 1] = item
        /\ \A i \in 1 .. n : more[i] = items[i]
    BY ONLY items \in Seq(S), item \in S, <1>1, <1>2, AppendProperties
  <2> QED BY <2>1, LenProperties
<1>4. DOMAIN more = DOMAIN items \cup {n + 1} /\ n + 1 \notin DOMAIN items
  BY <1>1, <1>3
<1>5. PICK f : f = HeldIn(items, readers)
  OBVIOUS
<1>6. PICK g : g = HeldIn(more, readers)
  OBVIOUS
<1>7. <<"queued", n + 1>> \notin DOMAIN f /\ g[<<"queued", n + 1>>] = item
  BY <1>3, <1>4, <1>5, <1>6, HeldIs
<1>8. ASSUME NEW p \in DOMAIN f PROVE p \in DOMAIN g /\ g[p] = f[p]
  <2>1. CASE p = <<"queued", p[2]>> /\ p[2] \in DOMAIN items
    BY <1>1, <1>3, <1>4, <1>5, <1>6, <2>1, HeldIs
  <2>2. CASE p = <<"taken", p[2]>> /\ p[2] \in DOMAIN readers /\ readers[p[2]].pc = "taken"
    BY <1>5, <1>6, <2>2, HeldIs
  <2> QED BY <1>5, <2>1, <2>2, HeldIs
<1>9. ASSUME NEW p \in DOMAIN g PROVE p \in DOMAIN f \/ p = <<"queued", n + 1>>
  BY <1>4, <1>5, <1>6, HeldIs
<1>10. <<"queued", n + 1>> \in DOMAIN g
  BY <1>4, <1>6, HeldIs
<1> QED BY <1>1, <1>2, <1>5, <1>6, <1>7, <1>8, <1>9, <1>10 DEF Added
LEMMA HandAdds ==
    ASSUME NEW items, NEW readers, NEW after, NEW t \in DOMAIN readers, NEW item,
           DOMAIN after = DOMAIN readers, readers[t].pc # "taken",
           after[t].pc = "taken", after[t].chunk = item,
           \A u \in DOMAIN readers : u # t => after[u].pc = readers[u].pc /\ after[u].chunk = readers[u].chunk
    PROVE  Added(HeldIn(items, after), HeldIn(items, readers), <<"taken", t>>, item)
<1>1. PICK f : f = HeldIn(items, readers)
  OBVIOUS
<1>2. PICK g : g = HeldIn(items, after)
  OBVIOUS
<1>3. <<"taken", t>> \notin DOMAIN f /\ <<"taken", t>> \in DOMAIN g /\ g[<<"taken", t>>] = item
  BY <1>1, <1>2, HeldIs
<1>4. ASSUME NEW p \in DOMAIN f PROVE p \in DOMAIN g /\ g[p] = f[p]
  <2>1. CASE p = <<"queued", p[2]>> /\ p[2] \in DOMAIN items
    BY <1>1, <1>2, <2>1, HeldIs
  <2>2. CASE p = <<"taken", p[2]>> /\ p[2] \in DOMAIN readers /\ readers[p[2]].pc = "taken"
    <3>1. PICK u \in DOMAIN readers : u = p[2] /\ readers[u].pc = "taken" /\ u # t
      BY <2>2
    <3>2. after[u].pc = "taken" /\ after[u].chunk = readers[u].chunk /\ u \in DOMAIN after
      BY <3>1
    <3>3. g[<<"taken", u>>] = readers[u].chunk /\ <<"taken", u>> \in DOMAIN g
      BY <1>2, <3>2, HeldIs
    <3>4. f[<<"taken", u>>] = readers[u].chunk
      BY <1>1, <3>1, HeldIs
    <3> QED BY <2>2, <3>1, <3>3, <3>4
  <2> QED BY <1>1, <2>1, <2>2, HeldIs
<1>5. ASSUME NEW p \in DOMAIN g PROVE p \in DOMAIN f \/ p = <<"taken", t>>
  <2>1. CASE p = <<"queued", p[2]>> /\ p[2] \in DOMAIN items
    BY <1>1, <1>2, <2>1, HeldIs
  <2>2. CASE p = <<"taken", p[2]>> /\ p[2] \in DOMAIN after /\ after[p[2]].pc = "taken"
    <3>1. PICK u \in DOMAIN readers : u = p[2] /\ after[u].pc = "taken"
      BY <2>2
    <3>2. CASE u # t
      <4>1. readers[u].pc = "taken"
        BY <3>1, <3>2
      <4>2. <<"taken", u>> \in DOMAIN f
        BY <1>1, <4>1, HeldIs
      <4> QED BY <2>2, <3>1, <4>2
    <3> QED BY <2>2, <3>1, <3>2
  <2> QED BY <1>2, <2>1, <2>2, HeldIs
<1> QED BY <1>1, <1>2, <1>3, <1>4, <1>5 DEF Added
\* What was added to what is held was added to all.
LEMMA LyingAdds ==
    ASSUME NEW f, NEW g, NEW q, NEW s, NEW log, Added(g, f, q, s), q[1] # "returned",
           \A p \in DOMAIN f : p[1] # "returned"
    PROVE  Added(LyingIn(g, log), LyingIn(f, log), q, s)
<1>1. \A p \in DOMAIN g : p[1] # "returned"
  BY DEF Added
<1>2. DOMAIN g = DOMAIN f \cup {q} /\ q \notin DOMAIN f /\ g[q] = s /\ \A p \in DOMAIN f : g[p] = f[p]
  BY DEF Added
<1>3. PICK x : x = LyingIn(f, log)
  OBVIOUS
<1>4. PICK y : y = LyingIn(g, log)
  OBVIOUS
<1>5. /\ DOMAIN x = DOMAIN f \cup ({"returned"} \X DOMAIN log)
      /\ \A p \in DOMAIN f : x[p] = f[p]
      /\ \A i \in DOMAIN log : x[<<"returned", i>>] = log[i].bytes
  BY <1>3 DEF LyingIn
<1>6. /\ DOMAIN y = DOMAIN g \cup ({"returned"} \X DOMAIN log)
      /\ \A p \in DOMAIN g : y[p] = g[p]
      /\ \A i \in DOMAIN log : y[<<"returned", i>>] = log[i].bytes
  BY <1>1, <1>4 DEF LyingIn
<1>7. \A p \in {"returned"} \X DOMAIN log : y[p] = x[p] /\ p[1] = "returned"
  BY <1>5, <1>6
<1>8. q \notin DOMAIN x
  BY <1>2, <1>5, <1>7
<1> QED BY <1>2, <1>3, <1>4, <1>5, <1>6, <1>7, <1>8 DEF Added
LEMMA ReturnAdds ==
    ASSUME NEW held, NEW S, NEW log \in Seq(S), NEW e \in S, \A p \in DOMAIN held : p[1] # "returned"
    PROVE  Added(LyingIn(held, Append(log, e)), LyingIn(held, log), <<"returned", Len(log) + 1>>, e.bytes)
<1>1. PICK n \in Nat : n = Len(log) /\ DOMAIN log = 1 .. n
  BY LenProperties
<1>2. PICK more : more = Append(log, e)
  OBVIOUS
<1>3. DOMAIN more = 1 .. n + 1 /\ more[n + 1] = e /\ \A i \in 1 .. n : more[i] = log[i]
  <2>1. /\ more \in Seq(S) /\ Len(more) = n + 1 /\ more[n + 1] = e
        /\ \A i \in 1 .. n : more[i] = log[i]
    BY ONLY log \in Seq(S), e \in S, <1>1, <1>2, AppendProperties
  <2> QED BY <2>1, LenProperties
<1>4. DOMAIN more = DOMAIN log \cup {n + 1} /\ n + 1 \notin DOMAIN log
  BY <1>1, <1>3
<1>5. PICK x : x = LyingIn(held, log)
  OBVIOUS
<1>6. PICK y : y = LyingIn(held, more)
  OBVIOUS
<1>7. /\ DOMAIN x = DOMAIN held \cup ({"returned"} \X DOMAIN log)
      /\ \A p \in DOMAIN held : x[p] = held[p]
      /\ \A i \in DOMAIN log : x[<<"returned", i>>] = log[i].bytes
  BY <1>5 DEF LyingIn
<1>8. /\ DOMAIN y = DOMAIN held \cup ({"returned"} \X DOMAIN more)
      /\ \A p \in DOMAIN held : y[p] = held[p]
      /\ \A i \in DOMAIN more : y[<<"returned", i>>] = more[i].bytes
  BY <1>6 DEF LyingIn
<1>9. \A p \in {"returned"} \X DOMAIN log : y[p] = x[p] /\ p \in DOMAIN y
  <2>1. \A i \in DOMAIN log : y[<<"returned", i>>] = x[<<"returned", i>>] /\ <<"returned", i>> \in DOMAIN y
    <3> SUFFICES ASSUME NEW i \in DOMAIN log
                 PROVE  y[<<"returned", i>>] = x[<<"returned", i>>] /\ <<"returned", i>> \in DOMAIN y
      OBVIOUS
    <3>1. i \in DOMAIN more /\ more[i] = log[i]
      BY <1>1, <1>3, <1>4
    <3>2. y[<<"returned", i>>] = log[i].bytes /\ x[<<"returned", i>>] = log[i].bytes
      BY <1>7, <1>8, <3>1
    <3>3. <<"returned", i>> \in {"returned"} \X DOMAIN more
      BY <3>1
    <3> QED BY <1>8, <3>2, <3>3
  <2> QED BY <2>1
<1>10. <<"returned", n + 1>> \notin DOMAIN x
  BY <1>4, <1>7
<1>11. <<"returned", n + 1>> \in DOMAIN y /\ y[<<"returned", n + 1>>] = e.bytes
  BY <1>3, <1>4, <1>8
<1>12. DOMAIN y = DOMAIN x \cup {<<"returned", n + 1>>}
  BY <1>4, <1>7, <1>8
<1>13. \A p \in DOMAIN x : y[p] = x[p]
  BY <1>7, <1>8, <1>9
<1> QED BY <1>1, <1>2, <1>5, <1>6, <1>10, <1>11, <1>12, <1>13 DEF Added
\* The first item of the queue is in a reader's hands instead.
LEMMA ShiftAlike ==
    ASSUME NEW S, NEW items \in Seq(S), items # <<>>, NEW log, NEW readers, NEW after,
           NEW t \in DOMAIN readers, DOMAIN after = DOMAIN readers, readers[t].pc # "taken",
           after[t].pc = "taken", after[t].chunk = Head(items),
           \A u \in DOMAIN readers : u # t => after[u].pc = readers[u].pc /\ after[u].chunk = readers[u].chunk
    PROVE  Alike(LyingIn(HeldIn(Tail(items), after), log), LyingIn(HeldIn(items, readers), log))
<1>1. PICK n \in Nat : n = Len(items) /\ DOMAIN items = 1 .. n
  BY LenProperties
<1>2. PICK rest : rest = Tail(items)
  OBVIOUS
<1>3. n # 0 /\ DOMAIN rest = 1 .. n - 1 /\ (\A i \in 1 .. n - 1 : rest[i] = items[i + 1])
      /\ Head(items) = items[1]
  <2>1. n # 0 /\ Head(items) = items[1]
    BY <1>1, EmptySeq
  <2>2. rest \in Seq(S) /\ Len(rest) = n - 1 /\ \A i \in 1 .. Len(rest) : rest[i] = items[i + 1]
    BY ONLY items \in Seq(S), items # <<>>, <1>1, <1>2, HeadTailProperties
  <2>3. DOMAIN rest = 1 .. n - 1
    BY <2>2, LenProperties
  <2> QED BY <2>1, <2>2, <2>3
<1>4. PICK k : k = HeldIn(items, readers)
  OBVIOUS
<1>5. PICK h : h = HeldIn(rest, after)
  OBVIOUS
<1>6. PICK f : f = LyingIn(h, log)
  OBVIOUS
<1>7. PICK g : g = LyingIn(k, log)
  OBVIOUS
<1>8. /\ DOMAIN f = DOMAIN h \cup ({"returned"} \X DOMAIN log)
      /\ \A p \in DOMAIN h : f[p] = h[p]
      /\ \A i \in DOMAIN log : f[<<"returned", i>>] = log[i].bytes
      /\ DOMAIN g = DOMAIN k \cup ({"returned"} \X DOMAIN log)
      /\ \A p \in DOMAIN k : g[p] = k[p]
      /\ \A i \in DOMAIN log : g[<<"returned", i>>] = log[i].bytes
  <2>1. (\A p \in DOMAIN h : p[1] # "returned") /\ \A p \in DOMAIN k : p[1] # "returned"
    BY <1>4, <1>5, HeldIs
  <2> QED BY <1>6, <1>7, <2>1 DEF LyingIn
<1> DEFINE From(p) == IF p = <<"taken", t>> THEN <<"queued", 1>>
                      ELSE IF p[1] = "queued" THEN <<"queued", p[2] + 1>> ELSE p
           r == [p \in DOMAIN f |-> From(p)]
\* The places after the step.
<1>9. ASSUME NEW p \in DOMAIN f
      PROVE  \/ p = <<"taken", t>>
             \/ \E i \in 1 .. n - 1 : p = <<"queued", i>>
             \/ \E u \in DOMAIN readers : u # t /\ readers[u].pc = "taken" /\ p = <<"taken", u>>
             \/ \E i \in DOMAIN log : p = <<"returned", i>>
  <2>1. CASE p \in DOMAIN h
    <3>1. CASE p = <<"queued", p[2]>> /\ p[2] \in DOMAIN rest
      BY <1>3, <3>1
    <3>2. CASE p = <<"taken", p[2]>> /\ p[2] \in DOMAIN after /\ after[p[2]].pc = "taken"
      BY <3>2
    <3> QED BY <1>5, <2>1, <3>1, <3>2, HeldIs
  <2>2. CASE p \in {"returned"} \X DOMAIN log
    BY <2>2
  <2> QED BY <1>8, <2>1, <2>2
\* Those before it.
<1>10. ASSUME NEW p \in DOMAIN g
       PROVE  \/ \E i \in 1 .. n : p = <<"queued", i>>
              \/ \E u \in DOMAIN readers : u # t /\ readers[u].pc = "taken" /\ p = <<"taken", u>>
              \/ \E i \in DOMAIN log : p = <<"returned", i>>
  <2>1. CASE p \in DOMAIN k
    <3>1. CASE p = <<"queued", p[2]>> /\ p[2] \in DOMAIN items
      BY <1>1, <3>1
    <3>2. CASE p = <<"taken", p[2]>> /\ p[2] \in DOMAIN readers /\ readers[p[2]].pc = "taken"
      BY <3>2
    <3> QED BY <1>4, <2>1, <3>1, <3>2, HeldIs
  <2>2. CASE p \in {"returned"} \X DOMAIN log
    BY <2>2
  <2> QED BY <1>8, <2>1, <2>2
<1>11. /\ <<"taken", t>> \in DOMAIN f /\ r[<<"taken", t>>] = <<"queued", 1>>
       /\ <<"queued", 1>> \in DOMAIN g /\ f[<<"taken", t>>] = g[<<"queued", 1>>]
  <2>1. <<"taken", t>> \in DOMAIN h /\ h[<<"taken", t>>] = items[1]
    BY <1>3, <1>5, HeldIs
  <2>2. <<"queued", 1>> \in DOMAIN k /\ k[<<"queued", 1>>] = items[1]
    BY <1>1, <1>3, <1>4, HeldIs
  <2> QED BY <1>8, <2>1, <2>2
<1>12. ASSUME NEW i \in 1 .. n - 1
       PROVE  /\ <<"queued", i>> \in DOMAIN f /\ r[<<"queued", i>>] = <<"queued", i + 1>>
              /\ <<"queued", i + 1>> \in DOMAIN g /\ f[<<"queued", i>>] = g[<<"queued", i + 1>>]
  <2>1. <<"queued", i>> \in DOMAIN h /\ h[<<"queued", i>>] = items[i + 1]
    BY <1>3, <1>5, HeldIs
  <2>2. i + 1 \in DOMAIN items
    BY <1>1
  <2>3. <<"queued", i + 1>> \in DOMAIN k /\ k[<<"queued", i + 1>>] = items[i + 1]
    BY <1>4, <2>2, HeldIs
  <2> QED BY <1>8, <2>1, <2>3
<1>13. ASSUME NEW u \in DOMAIN readers, u # t, readers[u].pc = "taken"
       PROVE  /\ <<"taken", u>> \in DOMAIN f /\ r[<<"taken", u>>] = <<"taken", u>>
              /\ <<"taken", u>> \in DOMAIN g /\ f[<<"taken", u>>] = g[<<"taken", u>>]
  <2>1. <<"taken", u>> \in DOMAIN k /\ k[<<"taken", u>>] = readers[u].chunk
    BY <1>4, <1>13, HeldIs
  <2>2. after[u].pc = "taken" /\ after[u].chunk = readers[u].chunk /\ u \in DOMAIN after
    BY <1>13
  <2>3. <<"taken", u>> \in DOMAIN h /\ h[<<"taken", u>>] = readers[u].chunk
    BY <1>5, <2>2, HeldIs
  <2>4. <<"taken", u>> # <<"taken", t>> /\ <<"taken", u>>[1] # "queued"
    BY <1>13
  <2> QED BY <1>8, <2>1, <2>3, <2>4
<1>14. ASSUME NEW i \in DOMAIN log
       PROVE  /\ <<"returned", i>> \in DOMAIN f /\ r[<<"returned", i>>] = <<"returned", i>>
              /\ <<"returned", i>> \in DOMAIN g /\ f[<<"returned", i>>] = g[<<"returned", i>>]
  BY <1>8
<1> HIDE DEF r
<1>15. ASSUME NEW p \in DOMAIN f PROVE r[p] \in DOMAIN g /\ f[p] = g[r[p]]
  <2>1. CASE p = <<"taken", t>>
    BY <1>11, <2>1
  <2>2. CASE \E i \in 1 .. n - 1 : p = <<"queued", i>>
    BY <1>12, <2>2
  <2>3. CASE \E u \in DOMAIN readers : u # t /\ readers[u].pc = "taken" /\ p = <<"taken", u>>
    BY <1>13, <2>3
  <2>4. CASE \E i \in DOMAIN log : p = <<"returned", i>>
    BY <1>14, <2>4
  <2> QED BY <1>9, <2>1, <2>2, <2>3, <2>4
<1>16. r \in [DOMAIN f -> DOMAIN g]
  <2>1. r = [p \in DOMAIN f |-> r[p]]
    BY DEF r
  <2> QED BY <1>15, <2>1
\* Where r leads tells where it came from.
<1>17. ASSUME NEW p \in DOMAIN f, NEW q \in DOMAIN f, r[p] = r[q] PROVE p = q
  <2>1. \A x \in DOMAIN f : \A i \in 1 .. n - 1 : r[x] = <<"queued", i + 1>> => x = <<"queued", i>>
    <3> SUFFICES ASSUME NEW x \in DOMAIN f, NEW i \in 1 .. n - 1, r[x] = <<"queued", i + 1>>
                 PROVE  x = <<"queued", i>>
      OBVIOUS
    <3>1. r[x][1] = "queued" /\ r[x][2] = i + 1 /\ i + 1 # 1
      OBVIOUS
    <3>2. CASE x = <<"taken", t>>
      BY <1>11, <3>1, <3>2
    <3>3. ASSUME NEW j \in 1 .. n - 1, x = <<"queued", j>> PROVE j = i
      <4>1. r[x] = <<"queued", j + 1>>
        BY <1>12, <3>3
      <4> QED BY <3>1, <4>1
    <3>4. ASSUME NEW u \in DOMAIN readers, u # t, readers[u].pc = "taken", x = <<"taken", u>> PROVE FALSE
      BY <1>13, <3>1, <3>4
    <3>5. ASSUME NEW j \in DOMAIN log, x = <<"returned", j>> PROVE FALSE
      BY <1>14, <3>1, <3>5
    <3> QED BY <1>9, <3>2, <3>3, <3>4, <3>5
  <2>2. \A x \in DOMAIN f : r[x] = <<"queued", 1>> => x = <<"taken", t>>
    <3> SUFFICES ASSUME NEW x \in DOMAIN f, r[x] = <<"queued", 1>> PROVE x = <<"taken", t>>
      OBVIOUS
    <3>1. r[x][1] = "queued" /\ r[x][2] = 1
      OBVIOUS
    <3>3. ASSUME NEW j \in 1 .. n - 1, x = <<"queued", j>> PROVE FALSE
      <4>1. r[x] = <<"queued", j + 1>>
        BY <1>12, <3>3
      <4>2. r[x][2] = j + 1
        BY <4>1
      <4>3. j + 1 # 1
        OBVIOUS
      <4> QED BY <3>1, <4>2, <4>3
    <3>4. ASSUME NEW u \in DOMAIN readers, u # t, readers[u].pc = "taken", x = <<"taken", u>> PROVE FALSE
      BY <1>13, <3>1, <3>4
    <3>5. ASSUME NEW j \in DOMAIN log, x = <<"returned", j>> PROVE FALSE
      BY <1>14, <3>1, <3>5
    <3> QED BY <1>9, <3>3, <3>4, <3>5
  <2>3. \A x \in DOMAIN f : r[x][1] # "queued" => r[x] = x
    <3> SUFFICES ASSUME NEW x \in DOMAIN f, r[x][1] # "queued" PROVE r[x] = x
      OBVIOUS
    <3>1. x # <<"taken", t>>
      <4>1. <<"queued", 1>>[1] = "queued"
        OBVIOUS
      <4> QED BY <1>11, <4>1
    <3>2. ASSUME NEW i \in 1 .. n - 1, x = <<"queued", i>> PROVE FALSE
      <4>1. r[x] = <<"queued", i + 1>>
        BY <1>12, <3>2
      <4> QED BY <4>1
    <3> QED BY <1>9, <1>13, <1>14, <3>1, <3>2
  <2>4. ASSUME NEW i \in 1 .. n - 1, p = <<"queued", i>> PROVE p = q
    BY <1>12, <1>17, <2>1, <2>4
  <2>5. ASSUME p = <<"taken", t>> PROVE p = q
    BY <1>11, <1>17, <2>2, <2>5
  <2>6. ASSUME r[p][1] # "queued" PROVE p = q
    BY <1>17, <2>3, <2>6
  <2>7. ASSUME NEW u \in DOMAIN readers, u # t, readers[u].pc = "taken", p = <<"taken", u>>
        PROVE  r[p][1] # "queued"
    BY <1>13, <2>7
  <2>8. ASSUME NEW i \in DOMAIN log, p = <<"returned", i>> PROVE r[p][1] # "queued"
    BY <1>14, <2>8
  <2> QED BY <1>9, <2>4, <2>5, <2>6, <2>7, <2>8
<1>18. ASSUME NEW q \in DOMAIN g PROVE \E p \in DOMAIN f : r[p] = q
  <2>1. ASSUME NEW i \in 1 .. n, q = <<"queued", i>> PROVE \E p \in DOMAIN f : r[p] = q
    <3>1. CASE i = 1
      BY <1>11, <2>1, <3>1
    <3>2. CASE i # 1
      <4>1. i - 1 \in 1 .. n - 1 /\ i - 1 + 1 = i
        BY <3>2
      <4> QED BY <1>12, <2>1, <4>1
    <3> QED BY <3>1, <3>2
  <2> QED BY <1>10, <1>13, <1>14, <2>1
<1>19. OneToOne(r, DOMAIN f, DOMAIN g)
  BY <1>16, <1>17, <1>18 DEF OneToOne
<1> QED BY <1>2, <1>4, <1>5, <1>6, <1>7, <1>15, <1>19, AlikeMoved
\* All that lies where nothing was returned is held.
LEMMA LyingNone ==
    ASSUME NEW items, NEW readers
    PROVE  LyingIn(HeldIn(items, readers), <<>>) = HeldIn(items, readers)
<1>1. PICK h : h = HeldIn(items, readers)
  OBVIOUS
<1>2. h = [p \in DOMAIN h |-> h[p]] /\ \A p \in DOMAIN h : p[1] # "returned"
  <2>1. HeldIn(items, readers) = [p \in DOMAIN HeldIn(items, readers) |-> HeldIn(items, readers)[p]]
    BY DEF HeldIn
  <2> QED BY <1>1, <2>1, HeldIs
<1>3. DOMAIN h \cup ({"returned"} \X DOMAIN <<>>) = DOMAIN h
  OBVIOUS
<1>4. LyingIn(h, <<>>) = [p \in DOMAIN h |-> h[p]]
  <2>1. \A p \in DOMAIN h : (IF p[1] = "returned" THEN <<>>[p[2]].bytes ELSE h[p]) = h[p]
    BY <1>2
  <2> QED BY <1>3, <2>1 DEF LyingIn
<1> QED BY <1>1, <1>2, <1>4
LEMMA AlikeSame == ASSUME NEW f PROVE Alike(f, f)
<1> DEFINE b == [s \in Spots(f) |-> s]
<1>1. Carries(b, f, f)
  BY DEF Carries, OneToOne
<1> QED BY <1>1 DEF Alike

\* Every byte the source gave lies in one place, _bufferedBytes counts those
\* held, and the waiter of the queue waits.
FirstItems(n) == SubSeq(Source, 1, n)
Kept ==
    /\ waiter # None => rd[waiter].pc = "waits"
    /\ Alike(Lying, FirstItems(pulled)) /\ IsFiniteSet(Spots(FirstItems(pulled)))
    /\ IsFiniteSet(Spots(Held)) /\ bufferedBytes = Cardinality(Spots(Held))
LEMMA KeptIs ==
    /\ Kept <=> /\ waiter # None => rd[waiter].pc = "waits"
                /\ Alike(LyingIn(HeldIn(buffer, rd), returned), FirstItems(pulled))
                /\ IsFiniteSet(Spots(FirstItems(pulled))) /\ IsFiniteSet(Spots(HeldIn(buffer, rd)))
                /\ bufferedBytes = Cardinality(Spots(HeldIn(buffer, rd)))
    /\ Kept' <=> /\ waiter' # None => rd'[waiter'].pc = "waits"
                 /\ Alike(LyingIn(HeldIn(buffer', rd'), returned'), FirstItems(pulled'))
                 /\ IsFiniteSet(Spots(FirstItems(pulled'))) /\ IsFiniteSet(Spots(HeldIn(buffer', rd')))
                 /\ bufferedBytes' = Cardinality(Spots(HeldIn(buffer', rd')))
BY DEF Kept, FirstItems, Alike, Carries, OneToOne, Spots, Lying, Held, InHand, LyingIn, HeldIn

LEMMA KeptStays ==
    ASSUME Kept, SameHands(rd, rd'), waiter' # None => rd'[waiter'].pc = "waits",
           UNCHANGED <<buffer, returned, pulled, bufferedBytes>>
    PROVE  Kept'
<1>1. HeldIn(buffer', rd') = HeldIn(buffer, rd)
  BY HeldStays
<1>2. LyingIn(HeldIn(buffer', rd'), returned') = LyingIn(HeldIn(buffer, rd), returned)
  BY <1>1
<1> QED BY <1>1, <1>2, KeptIs
\* What a task's place becomes leaves the hands as they are when it had no item.
LEMMA PlaceStays ==
    ASSUME ReadTypes, NEW t \in Task, NEW n \in Size \cup {AnySize}, NEW chunk \in Seq(Int),
           NEW pc \in {"idle", "pumps", "pumped", "waits", "bytes", "null", "error"},
           rd[t].pc # "taken", rd' = Reading(t, n, pc, chunk)
    PROVE  SameHands(rd, rd') /\ rd'[t].pc = pc /\ \A u \in Task : u # t => rd'[u] = rd[u]
<1>1. /\ rd' \in [Task -> ReadOf] /\ rd'[t] = [n |-> n, pc |-> pc, chunk |-> chunk]
      /\ \A u \in Task : u # t => rd'[u] = rd[u]
  <2>1. pc \in {"idle", "pumps", "pumped", "waits", "taken", "bytes", "null", "error"}
    OBVIOUS
  <2>2. /\ Reading(t, n, pc, chunk) \in [Task -> ReadOf]
        /\ Reading(t, n, pc, chunk)[t] = [n |-> n, pc |-> pc, chunk |-> chunk]
        /\ \A u \in Task : u # t => Reading(t, n, pc, chunk)[u] = rd[u]
    <3>1. [n |-> n, pc |-> pc, chunk |-> chunk] \in ReadOf
      BY <2>1 DEF ReadOf
    <3> QED BY <3>1 DEF Reading, ReadTypes
  <2> QED BY <2>2
<1>2. DOMAIN rd' = Task /\ DOMAIN rd = Task /\ rd'[t].pc = pc /\ pc # "taken"
  BY <1>1 DEF ReadTypes
<1> QED BY <1>1, <1>2 DEF SameHands
\* The waiter waits still.
LEMMA WaiterStays ==
    ASSUME ReadTypes, Kept, NEW t \in Task, rd[t].pc # "waits", waiter' = waiter,
           \A u \in Task : u # t => rd'[u] = rd[u]
    PROVE  waiter' # None => rd'[waiter'].pc = "waits"
BY DEF Kept, ReadTypes
LEMMA ContinueKept ==
    ASSUME ReadTypes, Kept, NEW t \in Task, NEW n \in Size \cup {AnySize},
           rd[t].pc \in {"idle", "pumped"}, Continue(t, n), UNCHANGED <<pulled, bufferedBytes>>
    PROVE  Kept'
<1>1. ASSUME NEW outcome \in {"null", "error"}, Returns(t, outcome, <<>>), UNCHANGED <<buffer, waiter>>
      PROVE  Kept'
  <2>1. AnySize \in Size \cup {AnySize} /\ returned' = returned
    BY <1>1 DEF Returns
  <2>2. PICK pc \in {"idle", "null", "error"} : rd' = Reading(t, AnySize, pc, <<>>)
    BY <1>1 DEF Returns
  <2>3. SameHands(rd, rd') /\ \A u \in Task : u # t => rd'[u] = rd[u]
    BY <2>1, <2>2, Empty, PlaceStays
  <2>4. waiter' # None => rd'[waiter'].pc = "waits"
    BY <1>1, <2>3, WaiterStays
  <2> QED BY <1>1, <2>1, <2>3, <2>4, KeptStays
<1>2. CASE Shift(t, n) /\ buffer = <<>>
  <2>1. rd' = Reading(t, n, "waits", <<>>) /\ waiter' = t /\ UNCHANGED <<buffer, returned>>
    BY <1>2 DEF Shift
  <2>2. SameHands(rd, rd') /\ rd'[t].pc = "waits"
    BY <2>1, Empty, PlaceStays
  <2> QED BY <2>1, <2>2, KeptStays
<1>3. CASE Shift(t, n) /\ buffer # <<>>
  <2>1. /\ rd' = Reading(t, n, "taken", Head(buffer)) /\ buffer' = Tail(buffer)
        /\ UNCHANGED <<waiter, returned>>
    BY <1>3 DEF Shift
  <2>2. buffer \in Seq(Seq(Int)) /\ Head(buffer) \in Seq(Int) /\ DOMAIN rd = Task
    BY <1>3, HeadTailProperties DEF ReadTypes
  <2>3. /\ rd' \in [Task -> ReadOf] /\ rd'[t] = [n |-> n, pc |-> "taken", chunk |-> Head(buffer)]
        /\ \A u \in Task : u # t => rd'[u] = rd[u]
    <3>1. PICK item \in Seq(Int) : item = Head(buffer)
      BY <2>2
    <3>2. /\ Reading(t, n, "taken", item) \in [Task -> ReadOf]
          /\ Reading(t, n, "taken", item)[t] = [n |-> n, pc |-> "taken", chunk |-> item]
          /\ \A u \in Task : u # t => Reading(t, n, "taken", item)[u] = rd[u]
      <4>1. [n |-> n, pc |-> "taken", chunk |-> item] \in ReadOf
        BY DEF ReadOf
      <4> QED BY <4>1 DEF Reading, ReadTypes
    <3> QED BY <2>1, <3>1, <3>2
  <2>4. /\ DOMAIN rd' = DOMAIN rd /\ rd'[t].pc = "taken" /\ rd'[t].chunk = Head(buffer)
        /\ \A u \in DOMAIN rd : u # t => rd'[u].pc = rd[u].pc /\ rd'[u].chunk = rd[u].chunk
    BY <2>2, <2>3
  <2>5. \A log : Alike(LyingIn(HeldIn(Tail(buffer), rd'), log), LyingIn(HeldIn(buffer, rd), log))
    BY <1>3, <2>2, <2>4, ShiftAlike
  <2>6. Alike(LyingIn(HeldIn(buffer', rd'), returned'), FirstItems(pulled'))
    BY <2>1, <2>5, AlikeTrans, KeptIs
  <2>7. Alike(HeldIn(buffer', rd'), HeldIn(buffer, rd))
    <3>1. Alike(LyingIn(HeldIn(buffer', rd'), <<>>), LyingIn(HeldIn(buffer, rd), <<>>))
      BY <2>1, <2>5
    <3> QED BY <3>1, LyingNone
  <2>8. /\ IsFiniteSet(Spots(HeldIn(buffer', rd')))
        /\ bufferedBytes' = Cardinality(Spots(HeldIn(buffer', rd')))
    BY <2>7, CountAlike, KeptIs DEF Alike, Carries
  <2>9. waiter' # None => rd'[waiter'].pc = "waits"
    BY <2>1, <2>3, WaiterStays
  <2> QED BY <2>6, <2>8, <2>9, KeptIs
<1> QED BY <1>1, <1>2, <1>3 DEF Continue

\* An item that is pushed goes to the queue, or to the reader that waits.
LEMMA PushAdds ==
    ASSUME ReadTypes, NEW readers \in [Task -> ReadOf], NEW item \in Seq(Int), Push(readers, item),
           waiter # None => readers[waiter].pc = "waits"
    PROVE  /\ waiter' = None
           /\ \E q : /\ q[1] # "returned"
                     /\ Added(HeldIn(buffer', rd'), HeldIn(buffer, readers), q, item)
<1>1. waiter' = None
  BY DEF Push
<1>2. CASE waiter = None
  <2>1. rd' = readers /\ buffer' = Append(buffer, item) /\ buffer \in Seq(Seq(Int))
    BY <1>2 DEF Push, ReadTypes
  <2>2. Added(HeldIn(buffer', rd'), HeldIn(buffer, readers), <<"queued", Len(buffer) + 1>>, item)
    BY <2>1, QueueAdds
  <2>3. <<"queued", Len(buffer) + 1>>[1] # "returned"
    OBVIOUS
  <2> QED BY <1>1, <2>2, <2>3
<1>3. CASE waiter # None
  <2>1. waiter \in Task /\ readers[waiter].pc = "waits" /\ buffer' = buffer
    BY <1>3 DEF Push, ReadTypes
  <2>2. rd' = [readers EXCEPT ![waiter].pc = "taken", ![waiter].chunk = item]
    BY <1>3 DEF Push
  <2>3. /\ DOMAIN rd' = DOMAIN readers /\ waiter \in DOMAIN readers
        /\ rd'[waiter].pc = "taken" /\ rd'[waiter].chunk = item
        /\ \A u \in DOMAIN readers : u # waiter => rd'[u] = readers[u]
    <3>1. readers[waiter] \in ReadOf
      BY <2>1
    <3> QED BY <2>1, <2>2, <3>1 DEF ReadOf
  <2>4. readers[waiter].pc # "taken"
    BY <2>1
  <2>5. PICK t \in DOMAIN readers : t = waiter
    BY <2>3
  <2>6. Added(HeldIn(buffer, rd'), HeldIn(buffer, readers), <<"taken", t>>, item)
    BY <2>3, <2>4, <2>5, HandAdds
  <2>7. <<"taken", t>>[1] # "returned"
    OBVIOUS
  <2> QED BY <1>1, <2>1, <2>6, <2>7
<1> QED BY <1>2, <1>3

LEMMA GivenAdds ==
    ASSUME NEW n \in Nat, n + 1 \in 1 .. Len(Source)
    PROVE  Added(FirstItems(n + 1), FirstItems(n), n + 1, Source[n + 1]) /\ Source[n + 1] \in Seq(Int)
<1>1. Source \in Seq(Seq(Int)) /\ Len(Source) \in Nat
  BY CoreConstants
<1>2. PICK f : f = FirstItems(n)
  OBVIOUS
<1>3. PICK g : g = FirstItems(n + 1)
  OBVIOUS
<1>4. DOMAIN f = 1 .. n /\ \A i \in 1 .. n : f[i] = Source[i]
  <2>1. 1 \in Int /\ n \in Int /\ n <= Len(Source)
    BY <1>1
  <2>2. f = [i \in 1 .. n |-> Source[i]]
    BY <1>2 DEF FirstItems
  <2> QED BY <2>2
<1>5. DOMAIN g = 1 .. n + 1 /\ \A i \in 1 .. n + 1 : g[i] = Source[i]
  <2>1. g = [i \in 1 .. n + 1 |-> Source[i]]
    BY <1>3 DEF FirstItems
  <2> QED BY <2>1
<1>6. 1 .. n + 1 = (1 .. n) \cup {n + 1} /\ n + 1 \notin 1 .. n
  OBVIOUS
<1>7. Added(g, f, n + 1, Source[n + 1])
  BY <1>4, <1>5, <1>6 DEF Added
<1> QED BY <1>2, <1>3, <1>7, CoreConstants
\* The source's chunk, of which there is one more.
LEMMA PulledKept ==
    ASSUME ReadTypes, Kept, Pulled
    PROVE  Kept'
<1>1. /\ Pumped \in [Task -> ReadOf]
      /\ \A t \in Task : Pumped[t] = IF rd[t].pc = "pumps" THEN [rd[t] EXCEPT !.pc = "pumped"] ELSE rd[t]
  BY PumpedTypes
<1>2. SameHands(rd, Pumped) /\ \A t \in Task : rd[t].pc = "waits" => Pumped[t].pc = "waits"
  <2>1. DOMAIN rd = Task /\ DOMAIN Pumped = Task /\ \A t \in Task : rd[t] \in ReadOf
    BY <1>1 DEF ReadTypes
  <2>2. \A t \in Task : rd[t].pc = "pumps" => Pumped[t].pc = "pumped"
    BY <1>1, <2>1 DEF ReadOf
  <2>3. \A t \in Task : rd[t].pc # "pumps" => Pumped[t] = rd[t]
    BY <1>1
  <2> QED BY <2>1, <2>2, <2>3 DEF SameHands
<1>3. waiter # None => waiter \in Task /\ Pumped[waiter].pc = "waits"
  BY <1>2 DEF Kept, ReadTypes
<1>4. returned' = returned
  BY DEF Pulled
<1>5. CASE /\ pulled < Len(Source) /\ pulled' = pulled + 1 /\ Push(Pumped, Source[pulled'])
           /\ bufferedBytes' = bufferedBytes + Len(Source[pulled'])
  <2>1. pulled \in Nat /\ pulled + 1 \in 1 .. Len(Source)
    BY <1>5, CoreConstants DEF ReadTypes
  <2>2. Added(FirstItems(pulled + 1), FirstItems(pulled), pulled + 1, Source[pulled + 1])
    BY <2>1, GivenAdds
  <2>3. PICK item \in Seq(Int) : item = Source[pulled + 1]
    BY <2>1, CoreConstants
  <2>4. Push(Pumped, item) /\ bufferedBytes' = bufferedBytes + Len(item)
    BY <1>5, <2>3
  <2>5. waiter' = None
    BY <2>4 DEF Push
  <2>6. PICK q : q[1] # "returned" /\ Added(HeldIn(buffer', rd'), HeldIn(buffer, Pumped), q, item)
    BY <1>1, <1>3, <2>4, PushAdds
  <2>7. HeldIn(buffer, Pumped) = HeldIn(buffer, rd)
    BY <1>2, HeldStays
  <2>8. Added(HeldIn(buffer', rd'), HeldIn(buffer, rd), q, item)
    BY <2>6, <2>7
  <2>9. \A p \in DOMAIN HeldIn(buffer, rd) : p[1] # "returned"
    BY HeldIs
  <2>10. Added(LyingIn(HeldIn(buffer', rd'), returned'), LyingIn(HeldIn(buffer, rd), returned), q, item)
    BY <1>4, <2>6, <2>8, <2>9, LyingAdds
  <2>11. Alike(LyingIn(HeldIn(buffer', rd'), returned'), FirstItems(pulled'))
    BY <1>5, <2>2, <2>3, <2>10, AlikeAdded, KeptIs
  <2>12. /\ IsFiniteSet(Spots(HeldIn(buffer', rd')))
         /\ Cardinality(Spots(HeldIn(buffer', rd'))) = Cardinality(Spots(HeldIn(buffer, rd))) + Len(item)
    BY <2>8, CountAdded, KeptIs
  <2>13. IsFiniteSet(Spots(FirstItems(pulled')))
    BY <1>5, <2>2, <2>3, CountAdded, KeptIs
  <2> QED BY <2>4, <2>5, <2>11, <2>12, <2>13, KeptIs
<1>6. CASE rd' = Pumped /\ UNCHANGED <<buffer, waiter, bufferedBytes, pulled>>
  <2>1. SameHands(rd, rd') /\ (waiter' # None => rd'[waiter'].pc = "waits")
    BY <1>2, <1>3, <1>6
  <2> QED BY <1>4, <1>6, <2>1, KeptStays
<1> QED BY <1>5, <1>6 DEF Pulled

\* A read that returns what it has, or a part of it.
LEMMA TakeKept ==
    ASSUME ReadTypes, Kept, NEW t \in Task, Take(t)
    PROVE  Kept'
<1>1. PICK chunk \in Seq(Int) : chunk = rd[t].chunk
  BY ReadPlaces
<1>2. PICK n \in Size \cup {AnySize} : n = rd[t].n
  BY ReadPlaces
<1>3. rd[t].pc = "taken" /\ pulled' = pulled /\ returned \in Seq(Return) /\ DOMAIN rd = Task
  BY DEF Take, Cut, ReadTypes
<1>4. PICK idle \in [Task -> ReadOf] : idle = [rd EXCEPT ![t] = Idle]
  BY Empty DEF ReadTypes, ReadOf, Idle
<1>5. idle[t].pc = "idle" /\ \A u \in Task : u # t => idle[u] = rd[u]
  BY <1>4 DEF ReadTypes, Idle
<1>6. PICK f : f = HeldIn(buffer, idle)
  OBVIOUS
<1>7. Added(HeldIn(buffer, rd), f, <<"taken", t>>, chunk)
  <2>1. DOMAIN idle = Task /\ idle[t].pc # "taken"
    BY <1>5
  <2> QED BY <1>1, <1>3, <1>5, <1>6, <2>1, HandAdds
<1>8. \A p \in DOMAIN f : p[1] # "returned"
  BY <1>6, HeldIs
<1>9. Added(LyingIn(HeldIn(buffer, rd), returned), LyingIn(f, returned), <<"taken", t>>, chunk)
  <2>1. <<"taken", t>>[1] # "returned"
    OBVIOUS
  <2> QED BY <1>7, <1>8, <2>1, LyingAdds
<1>10. /\ IsFiniteSet(Spots(f)) /\ Cardinality(Spots(f)) \in Nat /\ Len(chunk) \in Nat
       /\ bufferedBytes = Cardinality(Spots(f)) + Len(chunk)
  <2>1. Spots(f) \subseteq Spots(HeldIn(buffer, rd))
    BY <1>7, SpotsAdded
  <2>2. IsFiniteSet(Spots(f))
    BY <2>1, KeptIs, FS_Subset
  <2>3. Cardinality(Spots(HeldIn(buffer, rd))) = Cardinality(Spots(f)) + Len(chunk)
    BY <1>7, <2>2, CountAdded
  <2> QED BY <2>2, <2>3, KeptIs, FS_CardinalityType, LenProperties
<1>11. waiter # None => idle[waiter].pc = "waits"
  BY <1>3, <1>5 DEF Kept, ReadTypes
<1>12. CASE Returns(t, "bytes", chunk) /\ bufferedBytes' = bufferedBytes - Len(chunk) /\ UNCHANGED <<buffer, waiter>>
  <2>1. rd' = Reading(t, AnySize, IF t = Pipe THEN "bytes" ELSE "idle", chunk)
        /\ returned' = Append(returned, [by |-> t, bytes |-> chunk])
    BY <1>12 DEF Returns
  <2>2. /\ DOMAIN rd' = Task /\ rd'[t].pc \in {"bytes", "idle"}
        /\ \A u \in Task : u # t => rd'[u] = rd[u]
    BY <1>3, <2>1 DEF Reading
  <2>3. SameHands(idle, rd')
    BY <1>5, <2>2 DEF SameHands
  <2>4. HeldIn(buffer', rd') = f
    BY <1>6, <1>12, <2>3, HeldStays
  <2>5. PICK e \in Return : e = [by |-> t, bytes |-> chunk]
    BY DEF Return
  <2>6. Added(LyingIn(f, returned'), LyingIn(f, returned), <<"returned", Len(returned) + 1>>, chunk)
    <3>1. e.bytes = chunk
      BY <2>5
    <3> QED BY <1>3, <1>8, <2>1, <2>5, <3>1, ReturnAdds
  <2>7. Alike(LyingIn(f, returned'), LyingIn(HeldIn(buffer, rd), returned))
    BY <1>9, <2>6, AlikeSame, AlikeAdded
  <2>8. Alike(LyingIn(HeldIn(buffer', rd'), returned'), FirstItems(pulled'))
    BY <1>3, <2>4, <2>7, AlikeTrans, KeptIs
  <2>9. waiter' # None => rd'[waiter'].pc = "waits"
    BY <1>3, <1>12, <2>2 DEF Kept, ReadTypes
  <2>10. bufferedBytes' = Cardinality(Spots(f))
    BY <1>10, <1>12
  <2> QED BY <1>3, <1>10, <2>4, <2>8, <2>9, <2>10, KeptIs
<1>13. CASE /\ returned' = Append(returned, [by |-> t, bytes |-> SubSeq(chunk, 1, n)])
            /\ Push([rd EXCEPT ![t] = Idle], SubSeq(chunk, n + 1, Len(chunk)))
            /\ bufferedBytes' = bufferedBytes - n
            /\ ~(n = AnySize \/ Len(chunk) <= n)
  <2>1. n \in Nat /\ ~(Len(chunk) <= n)
    BY <1>13, CoreConstants
  <2>2. PICK s \in Seq(Int) : s = SubSeq(chunk, 1, n)
    BY <2>1, Halves
  <2>3. PICK u \in Seq(Int) : u = SubSeq(chunk, n + 1, Len(chunk))
    BY <2>1, Halves
  <2>4. chunk = s \o u /\ Len(u) = Len(chunk) - n
    BY <2>1, <2>2, <2>3, HalvesJoin
  <2>5. Push(idle, u)
    BY <1>4, <1>13, <2>3
  <2>6. waiter' = None
    BY <2>5 DEF Push
  <2>7. PICK q : q[1] # "returned" /\ Added(HeldIn(buffer', rd'), f, q, u)
    BY <1>6, <1>11, <2>5, PushAdds
  <2>8. PICK e \in Return : e = [by |-> t, bytes |-> s]
    BY DEF Return
  <2>9. Added(LyingIn(f, returned'), LyingIn(f, returned), <<"returned", Len(returned) + 1>>, s)
    <3>1. e.bytes = s
      BY <2>8
    <3> QED BY <1>3, <1>8, <1>13, <2>2, <2>8, <3>1, ReturnAdds
  <2>10. Added(LyingIn(HeldIn(buffer', rd'), returned'), LyingIn(f, returned'), q, u)
    BY <1>8, <2>7, LyingAdds
  <2>11. Alike(LyingIn(HeldIn(buffer', rd'), returned'), LyingIn(HeldIn(buffer, rd), returned))
    BY <1>9, <2>4, <2>9, <2>10, AlikeSplit
  <2>12. Alike(LyingIn(HeldIn(buffer', rd'), returned'), FirstItems(pulled'))
    BY <1>3, <2>11, AlikeTrans, KeptIs
  <2>13. /\ IsFiniteSet(Spots(HeldIn(buffer', rd')))
         /\ Cardinality(Spots(HeldIn(buffer', rd'))) = Cardinality(Spots(f)) + Len(u)
    BY <1>10, <2>7, CountAdded
  <2>14. bufferedBytes' = Cardinality(Spots(HeldIn(buffer', rd')))
    BY <1>10, <1>13, <2>1, <2>4, <2>13
  <2> QED BY <1>3, <2>6, <2>12, <2>13, <2>14, KeptIs
<1>14. \/ Returns(t, "bytes", chunk) /\ bufferedBytes' = bufferedBytes - Len(chunk) /\ UNCHANGED <<buffer, waiter>>
       \/ /\ returned' = Append(returned, [by |-> t, bytes |-> SubSeq(chunk, 1, n)])
          /\ Push([rd EXCEPT ![t] = Idle], SubSeq(chunk, n + 1, Len(chunk)))
          /\ bufferedBytes' = bufferedBytes - n
          /\ ~(n = AnySize \/ Len(chunk) <= n)
  BY <1>1, <1>2 DEF Take, Cut
<1> QED BY <1>12, <1>13, <1>14

LEMMA ReadKept ==
    ASSUME ReadTypes, Kept, NEW t \in Task, NEW n \in Size \cup {AnySize}, Read(t, n)
    PROVE  Kept'
<1>1. rd[t].pc = "idle" /\ UNCHANGED <<pulled, bufferedBytes>>
  BY DEF Read
<1>2. CASE Continue(t, n)
  BY <1>1, <1>2, ContinueKept
<1>3. CASE rd' = Reading(t, n, IF pumping THEN "pumped" ELSE "pumps", <<>>) /\ UNCHANGED <<buffer, waiter, returned>>
  <2>1. PICK pc \in {"pumped", "pumps"} : rd' = Reading(t, n, pc, <<>>)
    BY <1>3
  <2>2. SameHands(rd, rd') /\ \A u \in Task : u # t => rd'[u] = rd[u]
    BY <1>1, <2>1, Empty, PlaceStays
  <2>3. waiter' # None => rd'[waiter'].pc = "waits"
    BY <1>1, <1>3, <2>2, WaiterStays
  <2> QED BY <1>1, <1>3, <2>2, <2>3, KeptStays
<1> QED BY <1>2, <1>3 DEF Read
LEMMA KeptNext ==
    ASSUME CoreTypes, Numbered, Settles, Kept, [CoreNext]_coreVars
    PROVE  Kept'
<1>1. ReadTypes /\ DOMAIN rd = Task /\ Reader \subseteq Task /\ Pipe \in Task
  BY CoreConstants DEF CoreTypes, ReadTypes
<1>2. ASSUME UNCHANGED <<buffer, waiter, rd, returned, pulled, bufferedBytes>> PROVE Kept'
  <2>1. SameHands(rd, rd') /\ (waiter' # None => rd'[waiter'].pc = "waits")
    BY <1>2 DEF SameHands, Kept
  <2> QED BY <1>2, <2>1, KeptStays
<1>3. CASE Pulled
  BY <1>1, <1>3, PulledKept
<1>4. CASE ReadSteps
  <2>1. PICK t \in Task : ReadOn(t) \/ Take(t)
    BY <1>1, <1>4 DEF ReadSteps
  <2>2. CASE ReadOn(t)
    <3>1. rd[t].pc = "pumped" /\ Continue(t, rd[t].n) /\ UNCHANGED <<pulled, bufferedBytes>>
      BY <2>2 DEF ReadOn
    <3> QED BY <1>1, <3>1, ReadPlaces, ContinueKept
  <2> QED BY <1>1, <2>1, <2>2, TakeKept
<1>5. CASE PipeRead
  <2>1. CASE UNCHANGED readable
    BY <1>2, <2>1 DEF readable
  <2>2. CASE Read(Pipe, AnySize)
    BY <1>1, <2>2, ReadKept
  <2> QED BY <1>5, <2>1, <2>2 DEF PipeRead
<1>6. CASE PipeGot
  <2>1. /\ rd'[Pipe] = Idle /\ \A u \in Task : u # Pipe => rd'[u] = rd[u]
        /\ rd[Pipe].pc \in {"bytes", "null", "error"}
        /\ UNCHANGED <<buffer, waiter, pulled, returned>>
    BY <1>6, GotPlaces
  <2>2. DOMAIN rd' = Task /\ bufferedBytes' = bufferedBytes
    BY <1>1, <1>6 DEF PipeGot
  <2>3. SameHands(rd, rd')
    BY <1>1, <2>1, <2>2 DEF SameHands, Idle
  <2>4. waiter' # None => rd'[waiter'].pc = "waits"
    BY <1>1, <2>1, WaiterStays
  <2> QED BY <2>1, <2>2, <2>3, <2>4, KeptStays
<1>7. CASE \E t \in Reader : UserRead(t)
  BY <1>1, <1>7, ReadKept DEF UserRead
<1>8. CASE \/ PipeCancels \/ PipeAborts \/ SinkAnswers \/ SinkWrite \/ UserCancel \/ UserWrite \/ UserEnd
           \/ UserAbort \/ PipeStart \/ Signal \/ UNCHANGED coreVars
  <2>1. UNCHANGED <<buffer, waiter, rd, returned, pulled, bufferedBytes>>
    BY <1>8 DEF PipeCancels, PipeAborts, SinkAnswers, SinkWrite, UserCancel, UserWrite, UserEnd,
                UserAbort, PipeStart, Signal, readable, coreVars
  <2> QED BY <1>2, <2>1
<1>9. CASE \E t \in {Pipe, User} : EndCloses(t)
  BY <1>2, <1>9 DEF EndCloses, readable
<1> QED BY <1>3, <1>4, <1>5, <1>6, <1>7, <1>8, <1>9 DEF CoreNext, PipeSteps, Answers, UserSteps
LEMMA KeptInit == CoreInit => Kept
<1> SUFFICES ASSUME CoreInit PROVE Kept
  OBVIOUS
<1>1. waiter = None /\ buffer = <<>> /\ returned = <<>> /\ pulled = 0 /\ bufferedBytes = 0
      /\ \A t \in DOMAIN rd : rd[t].pc # "taken"
  BY DEF CoreInit, Idle
<1>2. Spots(FirstItems(0)) = {}
  <2>1. FirstItems(0) = <<>>
    BY CoreConstants DEF FirstItems
  <2> QED BY <2>1 DEF Spots
<1>3. DOMAIN Held = {} /\ DOMAIN Lying = {}
  <2>1. InHand = {} /\ DOMAIN buffer = {} /\ DOMAIN returned = {}
    BY <1>1 DEF InHand
  <2> QED BY <2>1 DEF Held, Lying
<1>4. Spots(Held) = {} /\ Spots(Lying) = {}
  BY <1>3 DEF Spots
<1>5. Alike(Lying, FirstItems(0))
  <2>1. Carries(<<>>, Lying, FirstItems(0))
    BY <1>2, <1>4 DEF Carries, OneToOne
  <2> QED BY <2>1 DEF Alike
<1> QED BY <1>1, <1>2, <1>4, <1>5, FS_EmptySet DEF Kept
-----------------------------------------------------------------------------
(* The order in which reads that never overlap return the bytes.           *)

\* What the first chunks of the source are, byte for byte.
Chunk == [bytes : Seq(Int)]
Wrapped(n) == [i \in 1 .. n |-> [bytes |-> Source[i]]]
FirstBytes(n) == BytesOf(Wrapped(n), 1 .. n)
LEMMA WrappedIs ==
    ASSUME NEW n \in 0 .. Len(Source)
    PROVE  Wrapped(n) \in Seq(Chunk) /\ Len(Wrapped(n)) = n
<1>1. n \in Nat /\ \A i \in 1 .. n : [bytes |-> Source[i]] \in Chunk
  BY CoreConstants DEF Chunk
<1>2. Wrapped(n) \in [1 .. n -> Chunk]
  BY <1>1 DEF Wrapped
<1>3. Wrapped(n) \in Seq(Chunk)
  BY <1>1, <1>2, SeqDef
<1>4. DOMAIN Wrapped(n) = 1 .. n /\ DOMAIN Wrapped(n) = 1 .. Len(Wrapped(n)) /\ Len(Wrapped(n)) \in Nat
  BY <1>2, <1>3, LenProperties
<1> QED BY <1>1, <1>3, <1>4
LEMMA FirstNext ==
    ASSUME NEW n \in Nat, n + 1 \in 1 .. Len(Source)
    PROVE  FirstBytes(n + 1) = FirstBytes(n) \o Source[n + 1]
<1>1. Len(Source) \in Nat /\ Source[n + 1] \in Seq(Int)
  BY CoreConstants
<1>2. PICK old \in Seq(Chunk) : old = Wrapped(n) /\ Len(old) = n
  BY <1>1, WrappedIs
<1>3. PICK new \in Seq(Chunk) : new = Wrapped(n + 1) /\ Len(new) = n + 1
  BY <1>1, WrappedIs
<1>4. PICK e \in Chunk : e = [bytes |-> Source[n + 1]]
  BY <1>1 DEF Chunk
<1>5. PICK more \in Seq(Chunk) : more = Append(old, e)
  BY AppendProperties
<1>6. Len(more) = n + 1 /\ more[n + 1] = e /\ \A i \in 1 .. n : more[i] = old[i]
  BY <1>2, <1>5, AppendProperties
<1>7. ASSUME NEW i \in 1 .. n + 1 PROVE more[i] = new[i]
  <2>1. new[i] = [bytes |-> Source[i]]
    BY <1>3 DEF Wrapped
  <2>2. CASE i \in 1 .. n
    BY <1>2, <1>6, <2>1, <2>2 DEF Wrapped
  <2>3. CASE i = n + 1
    BY <1>4, <1>6, <2>1, <2>3
  <2> QED BY <2>2, <2>3
<1>8. more = new
  BY <1>3, <1>6, <1>7, SeqEqual
<1>9. \A i \in 1 .. n : i \in 1 .. n <=> i \in 1 .. n + 1
  OBVIOUS
<1>10. n + 1 \in 1 .. n + 1
  OBVIOUS
<1>11. PICK wider : wider = 1 .. n + 1
  OBVIOUS
<1>12. PICK chosen : chosen = 1 .. n
  OBVIOUS
<1>13. BytesOf(Append(old, e), wider) =
          IF Len(old) + 1 \in wider THEN BytesOf(old, chosen) \o e.bytes ELSE BytesOf(old, chosen)
  <2>1. old \in Seq(Chunk) /\ Len(old) \in Nat /\ \A i \in 1 .. Len(old) : old[i] \in Chunk
    BY <1>2, LenProperties
  <2>2. \A i \in 1 .. Len(old) : i \in chosen <=> i \in wider
    BY <1>2, <1>9, <1>11, <1>12
  <2> QED BY <2>1, <2>2, BytesAppend
<1> QED BY <1>2, <1>3, <1>4, <1>5, <1>8, <1>10, <1>11, <1>12, <1>13 DEF FirstBytes
LEMMA FirstSeq == ASSUME NEW n \in 0 .. Len(Source) PROVE FirstBytes(n) \in Seq(Int)
<1>1. PICK log \in Seq(Chunk) : log = Wrapped(n) /\ Len(log) = n /\ n \in Nat
  BY WrappedIs, CoreConstants
<1>2. \A i \in 1 .. Len(log) : log[i] \in Chunk
  BY LenProperties
<1>3. \A i \in 1 .. Len(log) : log[i].bytes \in Seq(Int)
  BY <1>2 DEF Chunk
<1> QED BY <1>1, <1>3, BytesSeq DEF FirstBytes
LEMMA JoinBytes ==
    ASSUME NEW a \in Seq(Int), NEW b \in Seq(Int), NEW c \in Seq(Int)
    PROVE  (a \o b) \o c = a \o (b \o c) /\ b \o c \in Seq(Int)
BY ConcatAssociative, ConcatProperties
\* What is missing of the source follows.
LEMMA FirstRest ==
    ASSUME NEW k \in 0 .. Len(Source)
    PROVE  \E rest \in Seq(Int) : FirstBytes(k) \o rest = Bytes
<1>1. PICK n \in Nat : n = Len(Source)
  BY CoreConstants
<1> DEFINE Lacks == {d \in 0 .. n : ~\E rest \in Seq(Int) : FirstBytes(n - d) \o rest = Bytes}
<1>2. FirstBytes(n) = Bytes
  <2>1. PICK log \in Seq(Chunk) : log = Wrapped(n) /\ Len(log) = n
    BY <1>1, WrappedIs
  <2>2. \A i \in 1 .. n : log[i].bytes = Source[i]
    BY <2>1 DEF Wrapped
  <2> QED BY <1>1, <2>1, <2>2, CoreConstants, BytesAll DEF FirstBytes, Bytes
<1>3. Lacks = {}
  <2> SUFFICES ASSUME Lacks # {} PROVE FALSE
    OBVIOUS
  <2>1. PICK d \in Lacks : \A j \in Lacks : d <= j
    <3>1. Lacks \subseteq Nat
      OBVIOUS
    <3> HIDE DEF Lacks
    <3> QED BY <3>1, LeastExists
  <2>2. d \in 0 .. n /\ ~\E rest \in Seq(Int) : FirstBytes(n - d) \o rest = Bytes
    OBVIOUS
  <2>3. CASE d = 0
    <3>1. FirstBytes(n) \in Seq(Int) /\ n - d = n
      BY <1>1, <2>3, FirstSeq
    <3>2. FirstBytes(n) \o <<>> = FirstBytes(n)
      BY <3>1, ConcatEmptySeq
    <3> QED BY <1>2, <2>2, <3>1, <3>2, Empty
  <2>4. CASE d # 0
    <3>1. d - 1 \in 0 .. n /\ ~(d <= d - 1) /\ n - d \in Nat /\ n - (d - 1) = (n - d) + 1
          /\ (n - d) + 1 \in 1 .. n /\ n - d \in 0 .. n
      BY <2>2, <2>4
    <3>2. d - 1 \notin Lacks
      BY <2>1, <3>1
    <3>3. PICK rest \in Seq(Int) : FirstBytes((n - d) + 1) \o rest = Bytes
      BY <3>1, <3>2
    <3>4. PICK item \in Seq(Int) : item = Source[(n - d) + 1]
      BY <1>1, <3>1, CoreConstants
    <3>5. PICK m \in Nat : m = n - d
      BY <3>1
    <3>6. FirstBytes(m + 1) = FirstBytes(m) \o item
      BY <1>1, <3>1, <3>4, <3>5, FirstNext
    <3>7. FirstBytes(m) \in Seq(Int)
      BY <1>1, <3>1, <3>5, FirstSeq
    <3>8. FirstBytes(m) \o (item \o rest) = Bytes /\ item \o rest \in Seq(Int)
      <4>1. PICK front \in Seq(Int) : front = FirstBytes(m)
        BY <3>7
      <4>2. (front \o item) \o rest = front \o (item \o rest)
        BY JoinBytes
      <4>3. (front \o item) \o rest = Bytes
        BY <3>3, <3>5, <3>6, <4>1
      <4> QED BY <4>1, <4>2, <4>3, ConcatProperties
    <3> QED BY <2>2, <3>5, <3>8
  <2> QED BY <2>3, <2>4
<1>4. n - k \in 0 .. n /\ n - (n - k) = k
  BY <1>1
<1>5. n - k \notin Lacks
  BY <1>3
<1> QED BY <1>4, <1>5

\* While no two reads met: what was returned and the one item that may be
\* queued or in a reader's hands are what the source gave.
Out == BytesOf(returned, DOMAIN returned)
NoneTaken == \A t \in Task : rd[t].pc # "taken"
Ordered ==
    ~overlapped =>
        /\ \A t \in Task : rd[t].pc = "pumps" => buffer = <<>>
        /\ buffer = <<>> /\ NoneTaken => Out = FirstBytes(pulled)
        /\ buffer # <<>> => NoneTaken /\ Len(buffer) = 1 /\ Out \o Head(buffer) = FirstBytes(pulled)
        /\ \A t \in Task : rd[t].pc = "taken" => Out \o rd[t].chunk = FirstBytes(pulled)
LEMMA OutGrows ==
    ASSUME ReadTypes, NEW e \in Return, returned' = Append(returned, e)
    PROVE  Out' = Out \o e.bytes
<1>1. returned \in Seq(Return) /\ Len(returned) \in Nat /\ DOMAIN returned = 1 .. Len(returned)
  BY LenProperties DEF ReadTypes
<1>2. DOMAIN returned' = 1 .. Len(returned) + 1
  BY ReturnedGrows
<1>3. PICK old : old = DOMAIN returned
  OBVIOUS
<1>4. PICK new : new = DOMAIN returned'
  OBVIOUS
<1>5. (\A i \in 1 .. Len(returned) : i \in old <=> i \in new) /\ Len(returned) + 1 \in new
  BY <1>1, <1>2, <1>3, <1>4
<1>6. BytesOf(Append(returned, e), new) =
         IF Len(returned) + 1 \in new THEN BytesOf(returned, old) \o e.bytes
         ELSE BytesOf(returned, old)
  BY <1>1, <1>5, BytesAppend
<1> QED BY <1>3, <1>4, <1>5, <1>6 DEF Out
LEMMA OutStays == ASSUME returned' = returned PROVE Out' = Out
BY DEF Out
LEMMA OutSeq == ASSUME ReadTypes PROVE Out \in Seq(Int)
<1>1. returned \in Seq(Return) /\ Len(returned) \in Nat
  BY LenProperties DEF ReadTypes
<1>2. \A i \in 1 .. Len(returned) : returned[i] \in Return
  BY <1>1, LenProperties
<1>3. \A i \in 1 .. Len(returned) : returned[i].bytes \in Seq(Int)
  BY <1>2 DEF Return
<1> QED BY <1>1, <1>3, BytesSeq DEF Out
\* A queue of one item.
LEMMA OneItem ==
    ASSUME NEW item \in Seq(Int)
    PROVE  /\ Append(<<>>, item) # <<>> /\ Len(Append(<<>>, item)) = 1
           /\ Head(Append(<<>>, item)) = item
<1>1. PICK s : s = Append(<<>>, item)
  OBVIOUS
<1>2. s \in Seq(Seq(Int)) /\ Len(s) = 1 /\ s[1] = item
  <2>1. <<>> \in Seq(Seq(Int)) /\ Len(<<>>) = 0
    BY EmptySeq
  <2> QED BY <1>1, <2>1, AppendProperties
<1> QED BY <1>1, <1>2, EmptySeq
LEMMA OrderedNext ==
    ASSUME CoreTypes, OneReader, Ordered, Numbered, Settles, CoreNext
    PROVE  Ordered'
<1>1. SUFFICES ASSUME ~overlapped' PROVE Ordered'
  BY DEF Ordered
<1>2. /\ ReadTypes /\ ~overlapped
      /\ \A t \in Task : rd[t].pc = "pumps" => buffer = <<>>
      /\ buffer = <<>> /\ NoneTaken => Out = FirstBytes(pulled)
      /\ buffer # <<>> => NoneTaken /\ Len(buffer) = 1 /\ Out \o Head(buffer) = FirstBytes(pulled)
      /\ \A t \in Task : rd[t].pc = "taken" => Out \o rd[t].chunk = FirstBytes(pulled)
  BY <1>1, Kinds DEF Ordered, CoreTypes
<1>3. ASSUME NEW t \in Task, NEW n \in Size \cup {AnySize}, ReadMoves(t, n)
      PROVE  Ordered'
  <2>1. returned' = returned /\ pulled' = pulled /\ NoneTaken /\ \A u \in Task : u # t => rd[u].pc = "idle"
    BY <1>3 DEF ReadMoves, Alone, NoneTaken
  <2>2. /\ \A u \in Task : u # t => rd'[u] = rd[u]
        /\ rd'[t].pc = "taken" => buffer # <<>> /\ rd'[t].chunk = Head(buffer) /\ buffer' = Tail(buffer)
        /\ rd'[t].pc # "taken" => buffer' = buffer
        /\ rd'[t].pc = "pumps" => buffer = <<>>
    BY <1>3, ReadMovesPlaces
  <2>3. Out' = Out
    BY <2>1, OutStays
  <2>4. CASE rd'[t].pc = "taken"
    <3>1. buffer' = <<>>
      <4>1. buffer \in Seq(Seq(Int)) /\ buffer # <<>> /\ Len(buffer) = 1
        BY <1>2, <2>2, <2>4 DEF ReadTypes
      <4>2. PICK s : s = Tail(buffer)
        OBVIOUS
      <4>3. s \in Seq(Seq(Int)) /\ Len(s) = 0
        BY ONLY <4>1, <4>2, HeadTailProperties
      <4> QED BY <2>2, <2>4, <4>2, <4>3, EmptySeq
    <3>2. Out' \o rd'[t].chunk = FirstBytes(pulled')
      BY <1>2, <2>1, <2>2, <2>3, <2>4
    <3>3. \A u \in Task : rd'[u].pc = "taken" => u = t
      BY <2>1, <2>2
    <3>4. ~NoneTaken'
      BY <2>4 DEF NoneTaken
    <3> QED BY <3>1, <3>2, <3>3, <3>4 DEF Ordered, FirstBytes, Wrapped
  <2>5. CASE rd'[t].pc # "taken"
    <3>1. NoneTaken' /\ \A u \in Task : rd'[u].pc # "taken"
      BY <2>1, <2>2, <2>5 DEF NoneTaken
    <3>2. \A u \in Task : rd'[u].pc = "pumps" => buffer = <<>>
      BY <2>1, <2>2
    <3> QED BY <1>2, <2>1, <2>2, <2>3, <2>5, <3>1, <3>2 DEF Ordered, FirstBytes, Wrapped
  <2> QED BY <2>4, <2>5
<1>4. ASSUME NEW t \in Task, TakeMoves(t) PROVE Ordered'
  <2>1. /\ rd[t].pc = "taken" /\ pulled' = pulled /\ buffer = <<>>
        /\ \A u \in Task : u # t => rd[u].pc = "idle"
        /\ Out \o rd[t].chunk = FirstBytes(pulled)
    BY <1>2, <1>4 DEF TakeMoves, Alone, NoneTaken
  <2>2. \A u \in Task : rd'[u].pc \notin {"taken", "pumps"}
    <3>1. /\ \A u \in Task : u # t => rd'[u] = rd[u]
          /\ rd'[t].pc = IF t = Pipe THEN "bytes" ELSE "idle"
      BY <1>4, TakeMovesPlaces
    <3> QED BY <2>1, <3>1
  <2>3. NoneTaken'
    BY <2>2 DEF NoneTaken
  <2>4. CASE returned' = Append(returned, [by |-> t, bytes |-> rd[t].chunk]) /\ buffer' = buffer
    <3>1. PICK e \in Return : e = [by |-> t, bytes |-> rd[t].chunk]
      BY <1>2, ReadPlaces DEF Return
    <3>2. Out' = Out \o rd[t].chunk
      BY <1>2, <2>4, <3>1, OutGrows
    <3> QED BY <2>1, <2>2, <2>3, <2>4, <3>2 DEF Ordered, FirstBytes, Wrapped
  <2>5. ASSUME NEW e \in Return, NEW rest \in Seq(Int), returned' = Append(returned, e),
               buffer' = Append(buffer, rest), e.bytes \o rest = rd[t].chunk
        PROVE  Ordered'
    <3>1. Out' = Out \o e.bytes
      BY <1>2, <2>5, OutGrows
    <3>2. buffer' # <<>> /\ Len(buffer') = 1 /\ Head(buffer') = rest
      BY <2>1, <2>5, OneItem
    <3>3. Out \in Seq(Int) /\ e.bytes \in Seq(Int)
      BY <1>2, OutSeq DEF Return
    <3>4. Out' \o rest = FirstBytes(pulled)
      <4>1. PICK out \in Seq(Int) : out = Out
        BY <3>3
      <4>2. PICK part \in Seq(Int) : part = e.bytes
        BY <3>3
      <4>3. (out \o part) \o rest = out \o (part \o rest)
        BY JoinBytes
      <4> QED BY <2>1, <2>5, <3>1, <4>1, <4>2, <4>3
    <3> QED BY <2>1, <2>2, <2>3, <3>2, <3>4 DEF Ordered, FirstBytes, Wrapped
  <2> QED BY <1>4, <2>4, <2>5 DEF TakeMoves
<1>5. ASSUME NEW t \in Task, PullMoves(t) PROVE Ordered'
  <2>1. /\ returned' = returned /\ rd[t].pc = "pumps"
        /\ rd'[t] = [rd[t] EXCEPT !.pc = "pumped"] /\ \A u \in Task : u # t => rd'[u] = rd[u]
        /\ \A u \in Task : u # t => rd[u].pc = "idle"
    BY <1>5 DEF PullMoves, Alone
  <2>2. rd'[t].pc = "pumped"
    BY <1>2, <2>1 DEF ReadTypes, ReadOf
  <2>3. \A u \in Task : rd[u].pc # "taken" /\ rd'[u].pc \notin {"taken", "pumps"}
    BY <2>1, <2>2
  <2>4. NoneTaken /\ NoneTaken' /\ Out' = Out
    BY <2>1, <2>3, OutStays DEF NoneTaken
  <2>5. buffer = <<>> /\ Out = FirstBytes(pulled)
    BY <1>2, <2>1, <2>4
  <2>6. CASE pulled' = pulled /\ buffer' = buffer
    BY <2>3, <2>4, <2>5, <2>6 DEF Ordered, FirstBytes, Wrapped
  <2>7. CASE /\ pulled + 1 \in 1 .. Len(Source) /\ pulled' = pulled + 1
             /\ buffer' = Append(buffer, Source[pulled + 1])
    <3>1. PICK item \in Seq(Int) : item = Source[pulled + 1]
      BY <2>7, CoreConstants
    <3>2. buffer' # <<>> /\ Len(buffer') = 1 /\ Head(buffer') = item
      BY <2>5, <2>7, <3>1, OneItem
    <3>3. FirstBytes(pulled + 1) = FirstBytes(pulled) \o item
      BY <1>2, <2>7, <3>1, FirstNext, CoreConstants DEF ReadTypes
    <3> QED BY <2>3, <2>4, <2>5, <2>7, <3>2, <3>3 DEF Ordered, FirstBytes, Wrapped
  <2> QED BY <1>5, <2>6, <2>7 DEF PullMoves
<1>6. ASSUME UNCHANGED <<buffer, pulled, returned>>,
             \A u \in Task : /\ rd'[u].pc = "taken" => rd[u].pc = "taken" /\ rd'[u].chunk = rd[u].chunk
                             /\ rd[u].pc = "taken" => rd'[u].pc = "taken"
                             /\ rd'[u].pc = "pumps" => rd[u].pc = "pumps"
      PROVE  Ordered'
  <2>1. Out' = Out /\ (NoneTaken' <=> NoneTaken)
    BY <1>6, OutStays DEF NoneTaken
  <2> QED BY <1>2, <1>6, <2>1 DEF Ordered, FirstBytes, Wrapped
<1>7. CASE PipeGot
  <2>1. /\ rd'[Pipe] = Idle /\ \A u \in Task : u # Pipe => rd'[u] = rd[u]
        /\ rd[Pipe].pc \in {"bytes", "null", "error"}
        /\ UNCHANGED <<buffer, pulled, returned>>
    BY <1>7, GotPlaces
  <2>2. rd'[Pipe].pc = "idle"
    BY <2>1 DEF Idle
  <2>3. \A u \in Task : u = Pipe \/ rd'[u] = rd[u]
    BY <2>1
  <2>4. \A u \in Task : /\ rd'[u].pc = "taken" => rd[u].pc = "taken" /\ rd'[u].chunk = rd[u].chunk
                        /\ rd[u].pc = "taken" => rd'[u].pc = "taken"
                        /\ rd'[u].pc = "pumps" => rd[u].pc = "pumps"
    BY <2>1, <2>2, <2>3
  <2> QED BY <1>6, <2>1, <2>4
<1>8. CASE Beside
  <2>1. UNCHANGED <<buffer, pulled, rd, returned>>
    BY <1>8, BesideReads
  <2> QED BY <1>6, <2>1
<1> QED BY <1>1, <1>3, <1>4, <1>5, <1>7, <1>8, Kinds
LEMMA OrderedInit == ASSUME CoreInit PROVE Ordered
<1>1. /\ buffer = <<>> /\ returned = <<>> /\ pulled = 0 /\ \A t \in Task : rd[t].pc = "idle"
  BY DEF CoreInit, Idle, Task
<1>2. Out = <<>>
  BY <1>1, BytesNone DEF Out
<1>3. FirstBytes(0) = <<>>
  <2>1. Wrapped(0) \in Seq(Chunk) /\ Len(Wrapped(0)) = 0
    BY CoreConstants, WrappedIs
  <2>2. Wrapped(0) = <<>>
    BY <2>1, EmptySeq
  <2> QED BY <2>2, BytesNone DEF FirstBytes
<1> QED BY <1>1, <1>2, <1>3 DEF Ordered
LEMMA OrderedStays == ASSUME Ordered, UNCHANGED coreVars PROVE Ordered'
<1>1. /\ UNCHANGED <<buffer, pulled, returned, rd, overlapped>> /\ Out' = Out
  BY OutStays DEF coreVars, readable
<1> QED BY <1>1 DEF Ordered, NoneTaken, FirstBytes, Wrapped

\* What the readables of the kernel keep, with all it rests on.
ReadInv == CoreInv /\ Kept /\ Ordered
LEMMA ReadKeepsIt == ASSUME ReadInv PROVE ReadableKeepsBytes
<1>1. Tally(Lying) = Tally(SubSeq(Source, 1, pulled)) /\ bufferedBytes = Cardinality(Spots(Held))
  BY TallyAlike DEF ReadInv, Kept, FirstItems
<1>2. ASSUME ~overlapped PROVE IsPrefix(Out, Bytes)
  <2>1. /\ ReadTypes /\ CoreTypes /\ pulled \in 0 .. Len(Source)
        /\ buffer = <<>> /\ NoneTaken => Out = FirstBytes(pulled)
        /\ buffer # <<>> => Out \o Head(buffer) = FirstBytes(pulled)
        /\ \A t \in Task : rd[t].pc = "taken" => Out \o rd[t].chunk = FirstBytes(pulled)
    BY <1>2 DEF ReadInv, CoreInv, CoreTypes, ReadTypes, Ordered
  <2>2. Out \in Seq(Int)
    BY <2>1, OutSeq
  <2>3. PICK on \in Seq(Int) : Out \o on = FirstBytes(pulled)
    <3>1. CASE buffer # <<>>
      <4>1. Head(buffer) \in Seq(Int)
        BY <2>1, <3>1, HeadTailProperties DEF ReadTypes
      <4> QED BY <2>1, <3>1, <4>1
    <3>2. ASSUME NEW t \in Task, rd[t].pc = "taken"
          PROVE  \E on \in Seq(Int) : Out \o on = FirstBytes(pulled)
      BY <2>1, <3>2, ReadPlaces
    <3>3. CASE buffer = <<>> /\ NoneTaken
      <4>1. Out \o <<>> = Out
        BY <2>2, ConcatEmptySeq
      <4> QED BY <2>1, <3>3, <4>1, Empty
    <3> QED BY <3>1, <3>2, <3>3 DEF NoneTaken
  <2>4. PICK rest \in Seq(Int) : FirstBytes(pulled) \o rest = Bytes
    BY <2>1, FirstRest
  <2>5. PICK out \in Seq(Int) : out = Out
    BY <2>2
  <2>6. (out \o on) \o rest = out \o (on \o rest) /\ on \o rest \in Seq(Int)
    BY JoinBytes
  <2>7. PICK more \in Seq(Int) : out \o more = Bytes
    BY <2>3, <2>4, <2>5, <2>6
  <2>8. PICK all : all = out \o more
    OBVIOUS
  <2>9. /\ all \in Seq(Int) /\ Len(all) = Len(out) + Len(more) /\ Len(out) \in Nat /\ Len(more) \in Nat
        /\ \A i \in 1 .. Len(out) : all[i] = out[i]
    BY <2>8, ConcatProperties, LenProperties
  <2>10. SubSeq(all, 1, Len(out)) = out /\ SubSeq(out, 1, Len(out)) = out
    BY <2>9, SubSeqProperties, SeqEqual
  <2> QED BY <2>5, <2>7, <2>8, <2>9, <2>10 DEF IsPrefix
<1> QED BY <1>1, <1>2 DEF ReadableKeepsBytes, Out
\* The kernel's readable, in every behaviour: the bytes the source gave are those
\* that reads returned, that wait in the queue or that a reader holds, each as
\* often, with overlapping reads and split chunks too; _bufferedBytes is the number
\* of those not returned; and reads that never overlap return the source in order.
THEOREM ReadablesKeep == CoreSpec => []ReadableKeepsBytes
<1>1. CoreInit => ReadInv
  BY CoreInitInv, KeptInit, OrderedInit DEF ReadInv
<1>2. ReadInv /\ [CoreNext]_coreVars => ReadInv'
  BY CoreNextInv, KeptNext, OrderedNext, OrderedStays DEF ReadInv, CoreInv
<1>3. ReadInv => ReadableKeepsBytes
  BY ReadKeepsIt
<1> QED BY <1>1, <1>2, <1>3, PTL DEF CoreSpec
=============================================================================

--------------------------- MODULE IsoTpPairProofs ---------------------------
(***************************************************************************)
(* Proofs about what two ISO-TP sessions do together.                      *)
(*                                                                         *)
(* While nothing comes between them: flow control is asked for and given   *)
(* at the same frame, the sender stays within the block it was granted,    *)
(* and the two never wait for each other.  The invariant follows the       *)
(* frames under way: it foresees every state the receive machine will pass *)
(* through as it takes them, and says where the transmit machine stands    *)
(* between two answers.                                                    *)
(*                                                                         *)
(* While the bus loses no frame: the two implement PayloadChannel.  The    *)
(* invariant orders the payloads that begin in the frames under way, the   *)
(* ones in the hands of the two machines, and the ones already delivered,  *)
(* and accounts for every one that has begun.                              *)
(***************************************************************************)
EXTENDS IsoTpSessionProofs, IsoTpChannel, FiniteSetTheorems

-----------------------------------------------------------------------------
\* Nothing comes between the two ends: no frame is lost, no timer runs out while the
\* frame it waits for can still come, no end is closed, nobody else sends frames, and
\* each end answers by itself.
Undisturbed ==
  /\ Lossless /\ Patient /\ CloseNodes = {} /\ MaxInject = 0
  /\ \A n \in Node : Peer[n] # n /\ ~ManualFlowControl[n]

\* The frames under way from n to its peer, the first one to arrive first.
Line(n) == inbox[Peer[n]] \o txChan[n]

Answers(q) == {i \in 1..Len(q) : q[i].type = "FC"}
Portions(q) == {i \in 1..Len(q) : q[i].type = "CF"}

\* The receive machine y of n when it has taken f, the frame that is due.
Expected(n, y, f) ==
  LET r == [y EXCEPT !.len = @ + f.len, !.seq = (@ + 1) % SeqMod, !.timerCF = TRUE] IN
  IF f.type = "SF" THEN RxIdle
  ELSE IF f.type = "FF" THEN IF AcceptsSize(n, f.msg) THEN Reception(n, f.msg) ELSE RxIdle
  ELSE IF f.type # "CF" THEN y
  ELSE IF r.len = y.frameLen THEN RxIdle
  ELSE [r EXCEPT !.block = IF BlockReceived(n, @ + 1) THEN 0 ELSE @ + 1]

\* It is due: a payload begins when none is being received, and goes on where it stands.
Meets(y, f) ==
  /\ f.type \in DataTypes => f.id = "base"
  /\ f.type \in {"SF", "FF"} => y.state = "Idle"
  /\ f.type = "CF" => /\ y.state = "WaitCF" /\ y.msg = f.msg /\ y.len = f.off
                      /\ y.seq = f.sn /\ f.len = ChunkAt(f.msg, f.off)

\* The receive machine answers f with flow control.
Grants(n, y, f) ==
  \/ f.type = "FF" /\ AcceptsSize(n, f.msg)
  \/ f.type = "CF" /\ y.len + f.len < y.frameLen /\ BlockReceived(n, y.block + 1)

\* A receive machine of n: at rest, or inside a payload and a block.
Sound(n, y) ==
  \/ y = RxIdle
  \/ /\ y.state = "WaitCF" /\ y.msg \in Msg /\ y.frameLen = Size[y.msg]
     /\ y.len < y.frameLen /\ y.timerCF
     /\ BlockSize[n] > 0 => y.block < BlockSize[n]

\* What becomes of receive machine r of n: its states y before, between and after the
\* frames of q.
Foreseen(n, y, r, q) ==
  /\ y \in Seq(RxMachine) /\ Len(y) = Len(q) + 1 /\ y[1] = r
  /\ \A i \in 1..Len(y) : Sound(n, y[i])
  /\ \A i \in 1..Len(q) : Meets(y[i], q[i]) /\ y[i + 1] = Expected(n, y[i], q[i])
  /\ \A j \in 1..Len(q) : q[j].type = "CF" => \A i \in 1..j : y[i].state = "WaitCF"

\* No frame of q is answered.
Silent(n, y, q) == \A i \in 1..Len(q) : ~Grants(n, y[i], q[i])

\* Transmit machine t and receive machine r are at the same place of the same payload.
Abreast(t, r) == /\ r.state = "WaitCF"
                 /\ r.msg = t.msg /\ r.len = t.off /\ r.seq = t.seq

\* Transmit machine t, facing receiver n with its future y, the frames q on their way to
\* it and b coming back, neither has leave to send nor will get it, ...
Unanswered(n, t, y, q, b) ==
  t.state # "Transmit" /\ Answers(b) = {} /\ Silent(n, y, q) /\ y[Len(y)] = RxIdle

\* ... or will get it in answer to the last frame it sent, ...
AnswerDue(n, y, q, i) ==
  /\ i \in 1..Len(q) /\ Grants(n, y[i], q[i])
  /\ \A k \in 1..Len(q) : k > i => q[k].type \notin DataTypes
  /\ \A k \in 1..Len(q) : Grants(n, y[k], q[k]) => k = i
  /\ \A k \in 1..Len(y) : k > i => y[k] = y[Len(y)]

Due(n, t, y, q, b) ==
  /\ t.state = "WaitFC" /\ Answers(b) = {}
  /\ \E i \in 1..Len(q) : AnswerDue(n, y, q, i)
  /\ Abreast(t, y[Len(y)]) /\ y[Len(y)].block = 0

\* ... or has it under way, ...
Granted(t, y, q, b) ==
  /\ t.state = "WaitFC"
  /\ \E j \in 1..Len(b) : Answers(b) = {j}
  /\ \A k \in 1..Len(q) : q[k].type \notin DataTypes
  /\ \A k \in 1..Len(y) : y[k] = y[Len(y)]
  /\ Abreast(t, y[Len(y)]) /\ y[Len(y)].block = 0

\* ... or makes use of it.  z is the block size of the last answer.
Sending(n, t, z, y, q, b) ==
  /\ t.state = "Transmit" /\ Answers(b) = {} /\ Silent(n, y, q)
  /\ \A k \in 1..Len(y) : y[k].state = "WaitCF"
  /\ Abreast(t, y[Len(y)]) /\ y[Len(y)].block = t.block
  /\ z = BlockSize[n] /\ y[1].block + Cardinality(Portions(q)) = t.block

Agree(n, t, z, r, q, b) ==
  /\ q \in Seq(Frame) /\ b \in Seq(Frame)
  /\ BlockSize[n] > 0 => r.block + Cardinality(Portions(q)) <= BlockSize[n]
  /\ \E y : /\ Foreseen(n, y, r, q)
            /\ \/ Unanswered(n, t, y, q, b) \/ Due(n, t, y, q, b)
               \/ Granted(t, y, q, b) \/ Sending(n, t, z, y, q, b)

AgreeAt(n) == Agree(Peer[n], tx[n], remoteBlockSize[n], rx[Peer[n]], Line(n), Line(Peer[n]))

\* The answers of n in queue q let its peer go on, for a block.
Permits(n, q) == \A i \in Answers(q) :
  q[i].id = "base" /\ q[i].status = "CTS" /\ q[i].bs = BlockSize[n]

\* Both ends are open, answer with their block size, and agree about each transfer.
Agreement == \A n \in Node :
  /\ status[n] = "open" /\ txAddress[n] = "base"
  /\ Permits(n, Line(n))
  /\ AgreeAt(n)

-----------------------------------------------------------------------------
\* Queues taken from, added to and moved between.
LEMMA LineTail ==
  ASSUME NEW a \in Seq(Frame), NEW b \in Seq(Frame), a # <<>>
  PROVE  /\ a \o b # <<>> /\ Head(a \o b) = Head(a) /\ Tail(a \o b) = Tail(a) \o b
OBVIOUS

LEMMA LineAppend ==
  ASSUME NEW a \in Seq(Frame), NEW b \in Seq(Frame), NEW f \in Frame
  PROVE  a \o Append(b, f) = Append(a \o b, f)
OBVIOUS

LEMMA LineMove ==
  ASSUME NEW a \in Seq(Frame), NEW b \in Seq(Frame), b # <<>>
  PROVE  Append(a, Head(b)) \o Tail(b) = a \o b
OBVIOUS

\* Positions in a queue can be counted ...
LEMMA CountType ==
  ASSUME NEW q \in Seq(Frame)
  PROVE  IsFiniteSet(Portions(q)) /\ Cardinality(Portions(q)) \in Nat
<1>1. Len(q) \in Nat /\ Portions(q) \subseteq 1..Len(q)
  BY DEF Portions
<1>2. IsFiniteSet(1..Len(q))
  BY <1>1, FS_Interval
<1>3. IsFiniteSet(Portions(q))
  BY <1>1, <1>2, FS_Subset
<1> QED BY <1>3, FS_CardinalityType

\* ... those of two queues one after the other by queue.
LEMMA CountConcat ==
  ASSUME NEW a \in Seq(Frame), NEW b \in Seq(Frame)
  PROVE  Cardinality(Portions(a \o b)) = Cardinality(Portions(a)) + Cardinality(Portions(b))
<1> DEFINE S == {i + Len(a) : i \in Portions(b)}
<1>1. /\ Len(a) \in Nat /\ Len(b) \in Nat /\ Len(a \o b) = Len(a) + Len(b) /\ a \o b \in Seq(Frame)
      /\ \A i \in 1..Len(a) : (a \o b)[i] = a[i]
      /\ \A i \in 1..Len(b) : (a \o b)[i + Len(a)] = b[i]
  OBVIOUS
<1>2. Portions(a \o b) = Portions(a) \cup S
  <2>1. ASSUME NEW k \in Portions(a \o b) PROVE k \in Portions(a) \cup S
    <3>1. k \in 1..(Len(a) + Len(b)) /\ (a \o b)[k].type = "CF"
      BY <1>1 DEF Portions
    <3>2. CASE k <= Len(a)
      BY <1>1, <3>1, <3>2 DEF Portions
    <3>3. CASE k > Len(a)
      <4>1. k - Len(a) \in 1..Len(b) /\ (k - Len(a)) + Len(a) = k
        BY <1>1, <3>1, <3>3
      <4>2. k - Len(a) \in Portions(b)
        BY <1>1, <3>1, <4>1 DEF Portions
      <4> QED BY <4>1, <4>2
    <3> QED BY <1>1, <3>1, <3>2, <3>3
  <2>2. Portions(a) \subseteq Portions(a \o b)
    BY <1>1 DEF Portions
  <2>3. S \subseteq Portions(a \o b)
    BY <1>1 DEF Portions
  <2> QED BY <2>1, <2>2, <2>3
<1>3. Portions(a) \cap S = {}
  BY <1>1 DEF Portions
<1>4. IsFiniteSet(S) /\ Cardinality(S) = Cardinality(Portions(b))
  <2> DEFINE g == [i \in Portions(b) |-> i + Len(a)]
  <2>1. Portions(b) \subseteq Nat
    BY <1>1 DEF Portions
  <2>2. g \in Bijection(Portions(b), S)
    BY <1>1, <2>1 DEF Bijection, Injection, Surjection, IsInjective
  <2> HIDE DEF g
  <2> QED BY <2>2, CountType, FS_Bijection DEF ExistsBijection
<1> HIDE DEF S
<1>5. Cardinality(Portions(a) \cup S)
        = Cardinality(Portions(a)) + Cardinality(S) - Cardinality(Portions(a) \cap S)
  BY <1>4, CountType, FS_Union
<1>6. Cardinality({}) = 0
  BY FS_EmptySet
<1>7. Cardinality(Portions(a)) \in Nat /\ Cardinality(Portions(b)) \in Nat
  BY CountType
<1>8. Cardinality(Portions(a \o b)) = Cardinality(Portions(a) \cup S)
  BY <1>2
<1>9. Cardinality(Portions(a) \cap S) = 0
  BY <1>3, <1>6
<1> QED BY <1>4, <1>5, <1>7, <1>8, <1>9

LEMMA CountOne ==
  ASSUME NEW f \in Frame
  PROVE  Cardinality(Portions(<<f>>)) = IF f.type = "CF" THEN 1 ELSE 0
<1>1. Portions(<<f>>) = IF f.type = "CF" THEN {1} ELSE {}
  BY DEF Portions
<1> QED BY <1>1, FS_EmptySet, FS_Singleton

LEMMA CountAppend ==
  ASSUME NEW q \in Seq(Frame), NEW f \in Frame
  PROVE  Cardinality(Portions(Append(q, f)))
           = Cardinality(Portions(q)) + (IF f.type = "CF" THEN 1 ELSE 0)
<1>1. Append(q, f) = q \o <<f>> /\ <<f>> \in Seq(Frame)
  OBVIOUS
<1> QED BY <1>1, CountConcat, CountOne

LEMMA CountTail ==
  ASSUME NEW q \in Seq(Frame), q # <<>>
  PROVE  Cardinality(Portions(q))
           = Cardinality(Portions(Tail(q))) + (IF Head(q).type = "CF" THEN 1 ELSE 0)
<1>1. /\ q = <<Head(q)>> \o Tail(q) /\ Tail(q) \in Seq(Frame) /\ Head(q) \in Frame
      /\ <<Head(q)>> \in Seq(Frame)
  OBVIOUS
<1>2. Cardinality(Portions(<<Head(q)>>)) = IF Head(q).type = "CF" THEN 1 ELSE 0
  BY <1>1, CountOne
<1>3. Cardinality(Portions(<<Head(q)>> \o Tail(q)))
        = Cardinality(Portions(<<Head(q)>>)) + Cardinality(Portions(Tail(q)))
  BY <1>1, CountConcat
<1>4. Cardinality(Portions(Tail(q))) \in Nat
  BY <1>1, CountType
<1> DEFINE h == <<Head(q)>>
<1> HIDE DEF h
<1>5. Cardinality(Portions(q)) = Cardinality(Portions(h)) + Cardinality(Portions(Tail(q)))
  BY <1>1, <1>3 DEF h
<1> QED BY <1>2, <1>4, <1>5 DEF h

\* Each consecutive frame under way to n is in one of the two queues.
LEMMA CountLine ==
  ASSUME IInv, NEW n \in Node
  PROVE  ConsecutiveFramesTo(n) = Cardinality(Portions(Line(Peer[n])))
<1>1. /\ Peer[n] \in Node /\ Peer[Peer[n]] = n
      /\ inbox[n] \in Seq(Frame) /\ txChan[Peer[n]] \in Seq(Frame)
  BY Peers, Machines
<1>2. Line(Peer[n]) = inbox[n] \o txChan[Peer[n]]
  BY <1>1 DEF Line
<1>3. /\ {i \in DOMAIN txChan[Peer[n]] : txChan[Peer[n]][i].type = "CF"} = Portions(txChan[Peer[n]])
      /\ {i \in DOMAIN inbox[n] : inbox[n][i].type = "CF"} = Portions(inbox[n])
  BY <1>1 DEF Portions
<1>4. Cardinality(Portions(inbox[n])) \in Nat /\ Cardinality(Portions(txChan[Peer[n]])) \in Nat
  BY <1>1, CountType
<1>5. Cardinality(Portions(Line(Peer[n])))
        = Cardinality(Portions(inbox[n])) + Cardinality(Portions(txChan[Peer[n]]))
  BY <1>1, <1>2, CountConcat
<1>6. ConsecutiveFramesTo(n)
        = Cardinality(Portions(txChan[Peer[n]])) + Cardinality(Portions(inbox[n]))
  BY <1>3 DEF ConsecutiveFramesTo
<1> QED BY <1>4, <1>5, <1>6

-----------------------------------------------------------------------------
\* What a receive machine holds before and after the frame that is due.
LEMMA ChunkFits ==
  ASSUME NEW m \in Msg, NEW off \in Nat, off < Size[m]
  PROVE  ChunkAt(m, off) \in 0..(FrameLen - 1) /\ off + ChunkAt(m, off) <= Size[m]
BY MsgAssumption, FrameAssumption DEF ChunkAt, Min2

LEMMA ReceptionSound ==
  ASSUME NEW n \in Node, NEW m \in Msg, ~FitsSingle(m)
  PROVE  /\ Reception(n, m) \in RxMachine /\ Sound(n, Reception(n, m))
         /\ Reception(n, m).state = "WaitCF" /\ Reception(n, m).msg = m
         /\ Reception(n, m).len = FirstChunk(m) /\ Reception(n, m).seq = 1
         /\ Reception(n, m).block = 0
<1>1. FirstChunk(m) \in Nat /\ FirstChunk(m) < Size[m] /\ Size[m] \in Nat
  BY FirstChunkNat, FirstChunkShort, MsgAssumption
<1>2. 1 \in 0..(SeqMod - 1) /\ BlockSize[n] \in 0..255
  BY FrameAssumption, ConfigAssumption
<1> QED BY <1>1, <1>2 DEF Reception, RxIdle, RxMachine, Sound

LEMMA RxIdleTyped == RxIdle \in RxMachine /\ RxIdle.state = "Idle"
<1>1. 0 \in 0..(SeqMod - 1)
  BY FrameAssumption
<1> QED BY <1>1 DEF RxIdle, RxMachine

\* A consecutive frame that is due brings the receive machine on by what it carries.
LEMMA NextPortion ==
  ASSUME NEW n \in Node, NEW y \in RxMachine, Sound(n, y), NEW f \in Frame, f.type = "CF",
         Meets(y, f)
  PROVE  /\ f.off + f.len <= Size[f.msg] /\ Size[f.msg] \in Nat /\ f.off + f.len \in Nat
         /\ y.frameLen = Size[f.msg]
         /\ IF f.off + f.len = Size[f.msg] THEN Expected(n, y, f) = RxIdle
            ELSE LET e == Expected(n, y, f) IN
                 /\ e \in RxMachine /\ e.state = "WaitCF" /\ e.msg = f.msg
                 /\ e.frameLen = y.frameLen /\ e.timerCF
                 /\ e.len = f.off + f.len /\ e.seq = (f.sn + 1) % SeqMod
                 /\ e.block = IF BlockReceived(n, y.block + 1) THEN 0 ELSE y.block + 1
<1>1. /\ y.state = "WaitCF" /\ y.msg = f.msg /\ y.len = f.off /\ y.seq = f.sn
      /\ f.len = ChunkAt(f.msg, f.off)
  BY DEF Meets
<1>2. /\ f.msg \in Msg /\ y.frameLen = Size[f.msg] /\ y.len < y.frameLen /\ y.timerCF
  BY <1>1 DEF Sound, RxIdle
<1>3. f.off \in Nat /\ Size[f.msg] \in Nat /\ f.sn \in Nat /\ y.block \in Nat
  BY <1>2, Kinds, MsgAssumption, FrameAssumption DEF RxMachine
<1>4. f.len \in Nat /\ f.off + f.len <= Size[f.msg]
  BY <1>1, <1>2, <1>3, ChunkFits, FrameAssumption
<1> DEFINE s == (f.sn + 1) % SeqMod
           r == [y EXCEPT !.len = @ + f.len, !.seq = (@ + 1) % SeqMod, !.timerCF = TRUE]
           k == IF BlockReceived(n, r.block + 1) THEN 0 ELSE r.block + 1
<1>5. s \in 0..(SeqMod - 1)
  BY <1>3, NextSeq
<1>6. r = [y EXCEPT !.len = f.off + f.len, !.seq = s, !.timerCF = TRUE]
  BY <1>1 DEF RxMachine
<1> HIDE DEF s
<1>7. /\ r.len = f.off + f.len /\ r.block = y.block /\ r.frameLen = y.frameLen
      /\ r.state = "WaitCF" /\ r.msg = f.msg /\ r.timerCF /\ r.seq = s /\ r \in RxMachine
  <2>1. f.off + f.len \in Nat /\ s \in 0..(SeqMod - 1)
    BY <1>3, <1>4, <1>5
  <2> HIDE DEF r
  <2>2. r \in RxMachine /\ r.seq = s /\ r.timerCF /\ r.len = f.off + f.len
    BY <1>6, <2>1 DEF RxMachine
  <2>3. r.block = y.block /\ r.frameLen = y.frameLen /\ r.state = y.state /\ r.msg = y.msg
    BY <1>6 DEF RxMachine
  <2> QED BY <1>1, <2>2, <2>3
<1>8. Expected(n, y, f) = IF r.len = y.frameLen THEN RxIdle ELSE [r EXCEPT !.block = k]
  BY DEF Expected
<1> HIDE DEF r
<1>9. k \in Nat
  BY <1>3, <1>7
<1> QED BY <1>1, <1>2, <1>3, <1>4, <1>7, <1>8, <1>9 DEF RxMachine, s

LEMMA ExpectedSound ==
  ASSUME NEW n \in Node, NEW y \in RxMachine, Sound(n, y), NEW f \in Frame, Meets(y, f)
  PROVE  Expected(n, y, f) \in RxMachine /\ Sound(n, Expected(n, y, f))
<1> DEFINE e == Expected(n, y, f)
<1>1. CASE f.type = "SF"
  BY <1>1, RxIdleTyped DEF Expected, Sound
<1>2. CASE f.type = "FF"
  <2>1. f.msg \in Msg /\ ~FitsSingle(f.msg)
    BY <1>2, Kinds
  <2>2. e = Reception(n, f.msg) \/ e = RxIdle
    BY <1>2 DEF Expected
  <2> QED BY <2>1, <2>2, ReceptionSound, RxIdleTyped DEF Sound
<1>3. CASE f.type = "CF"
  <2>1. CASE e = RxIdle
    BY <2>1, RxIdleTyped DEF Sound
  <2>2. CASE f.off + f.len # Size[f.msg]
    <3>1. /\ f.off + f.len <= Size[f.msg] /\ Size[f.msg] \in Nat /\ f.off + f.len \in Nat
          /\ y.frameLen = Size[f.msg]
          /\ e \in RxMachine /\ e.state = "WaitCF" /\ e.msg = f.msg
          /\ e.frameLen = y.frameLen /\ e.timerCF
          /\ e.len = f.off + f.len
          /\ e.block = IF BlockReceived(n, y.block + 1) THEN 0 ELSE y.block + 1
      BY <1>3, <2>2, NextPortion
    <3>2. BlockSize[n] \in Nat /\ y.block \in Nat /\ f.msg \in Msg
      <4>1. BlockSize[n] \in 0..255
        BY ConfigAssumption
      <4> QED BY <1>3, <4>1, Kinds DEF RxMachine
    <3> HIDE DEF e
    <3>3. BlockSize[n] > 0 => e.block < BlockSize[n]
      BY <3>1, <3>2 DEF BlockReceived
    <3> QED BY <2>2, <3>1, <3>2, <3>3 DEF Sound, e
  <2> QED BY <1>3, <2>1, <2>2, NextPortion
<1>4. CASE f.type \notin DataTypes
  BY <1>4 DEF Expected, DataTypes
<1> QED BY <1>1, <1>2, <1>3, <1>4 DEF DataTypes

\* h and p continue y and q by one ...
Grown(y, h, q, p) ==
  /\ Len(q) \in Nat /\ Len(p) = Len(q) + 1 /\ Len(y) = Len(q) + 1 /\ Len(h) = Len(q) + 2
  /\ \A i \in 1..Len(y) : h[i] = y[i]
  /\ \A i \in 1..Len(q) : p[i] = q[i]

\* ... or have lost their first.
Shrunk(y, h, q, p) ==
  /\ Len(q) \in Nat /\ Len(q) >= 1 /\ Len(p) = Len(q) - 1
  /\ Len(y) = Len(q) + 1 /\ Len(h) = Len(q)
  /\ \A i \in 1..Len(h) : h[i] = y[i + 1]
  /\ \A i \in 1..Len(p) : p[i] = q[i + 1]

\* What is foreseen when one more frame is sent, ...
LEMMA ForeseenAppend ==
  ASSUME NEW n \in Node, NEW q \in Seq(Frame), NEW r, NEW y, Foreseen(n, y, r, q),
         NEW f \in Frame, Meets(y[Len(y)], f),
         f.type = "CF" => \A i \in 1..Len(y) : y[i].state = "WaitCF"
  PROVE  \E h : /\ Foreseen(n, h, r, Append(q, f)) /\ Grown(y, h, q, Append(q, f))
                /\ h[Len(h)] = Expected(n, y[Len(y)], f) /\ Append(q, f)[Len(q) + 1] = f
<1> DEFINE x == y[Len(y)]
           e == Expected(n, x, f)
           h == Append(y, e)
           p == Append(q, f)
<1>1. y \in Seq(RxMachine) /\ Len(y) = Len(q) + 1 /\ Len(q) \in Nat
  BY DEF Foreseen
<1>2. x \in RxMachine /\ Sound(n, x)
  BY <1>1 DEF Foreseen
<1>3. e \in RxMachine /\ Sound(n, e)
  BY <1>2, ExpectedSound
<1> HIDE DEF e
<1>4. /\ h \in Seq(RxMachine) /\ Len(h) = Len(q) + 2 /\ h[Len(h)] = e
      /\ \A i \in 1..Len(y) : h[i] = y[i]
  BY <1>1, <1>3
<1>5. /\ Len(p) = Len(q) + 1 /\ (\A i \in 1..Len(q) : p[i] = q[i]) /\ p[Len(q) + 1] = f
  BY <1>1
<1> HIDE DEF h, p
<1>6. h[1] = r
  BY <1>1, <1>4 DEF Foreseen
<1>7. \A i \in 1..Len(h) : Sound(n, h[i])
  <2> TAKE i \in 1..Len(h)
  <2>1. i \in 1..Len(y) \/ i = Len(h)
    BY <1>1, <1>4
  <2> QED BY <1>3, <1>4, <2>1 DEF Foreseen
<1>8. ASSUME NEW i \in 1..Len(p) PROVE Meets(h[i], p[i]) /\ h[i + 1] = Expected(n, h[i], p[i])
  <2>1. CASE i \in 1..Len(q)
    <3>1. i \in 1..Len(y) /\ i + 1 \in 1..Len(y)
      BY <1>1, <2>1
    <3>2. h[i] = y[i] /\ h[i + 1] = y[i + 1] /\ p[i] = q[i]
      BY <1>4, <1>5, <2>1, <3>1
    <3> QED BY <2>1, <3>2 DEF Foreseen
  <2>2. CASE i = Len(q) + 1
    <3>1. i \in 1..Len(y) /\ i = Len(y) /\ i + 1 = Len(h)
      BY <1>1, <1>4, <2>2
    <3>2. h[i] = x /\ h[i + 1] = e /\ p[i] = f
      BY <1>4, <1>5, <2>2, <3>1
    <3> HIDE DEF x
    <3> QED BY <3>2 DEF e, x
  <2> QED BY <1>1, <1>5, <2>1, <2>2
<1>9. ASSUME NEW j \in 1..Len(p), p[j].type = "CF", NEW i \in 1..j PROVE h[i].state = "WaitCF"
  <2>1. CASE j \in 1..Len(q)
    <3>1. i \in 1..Len(y) /\ i \in 1..j /\ q[j].type = "CF"
      BY <1>1, <1>5, <1>9, <2>1
    <3> QED BY <1>4, <2>1, <3>1 DEF Foreseen
  <2>2. CASE j = Len(q) + 1
    <3>1. i \in 1..Len(y) /\ f.type = "CF"
      BY <1>1, <1>5, <1>9, <2>2
    <3> QED BY <1>4, <3>1
  <2> QED BY <1>1, <1>5, <2>1, <2>2
<1>10. Foreseen(n, h, r, p)
  BY <1>1, <1>4, <1>5, <1>6, <1>7, <1>8, <1>9 DEF Foreseen
<1> QED BY <1>1, <1>4, <1>5, <1>10 DEF e, p, Grown

\* ... and when the first one is taken.
LEMMA ForeseenTail ==
  ASSUME NEW n \in Node, NEW q \in Seq(Frame), q # <<>>, NEW r, NEW y, Foreseen(n, y, r, q)
  PROVE  /\ Meets(r, Head(q)) /\ r \in RxMachine /\ Sound(n, r) /\ y[1] = r /\ q[1] = Head(q)
         /\ \E h : /\ Foreseen(n, h, Expected(n, r, Head(q)), Tail(q))
                   /\ Shrunk(y, h, q, Tail(q)) /\ h[Len(h)] = y[Len(y)]
<1> DEFINE h == Tail(y)
           p == Tail(q)
<1>1. y \in Seq(RxMachine) /\ Len(y) = Len(q) + 1 /\ Len(q) \in Nat /\ Len(q) >= 1 /\ y[1] = r
  BY DEF Foreseen
<1>2. h \in Seq(RxMachine) /\ Len(h) = Len(q) /\ (\A i \in 1..Len(h) : h[i] = y[i + 1])
      /\ h[Len(h)] = y[Len(y)]
  BY <1>1
<1>3. /\ Len(p) = Len(q) - 1 /\ (\A i \in 1..Len(p) : p[i] = q[i + 1]) /\ q[1] = Head(q)
  BY <1>1
<1> HIDE DEF h, p
<1>4. 1 \in 1..Len(q) /\ 1 \in 1..Len(y) /\ 1 \in 1..Len(h)
  BY <1>1, <1>2
<1>5. Meets(r, Head(q)) /\ Sound(n, r) /\ y[1 + 1] = Expected(n, r, Head(q)) /\ r \in RxMachine
  BY <1>1, <1>3, <1>4 DEF Foreseen
<1>6. h[1] = Expected(n, r, Head(q))
  BY <1>2, <1>4, <1>5
<1>7. ASSUME NEW i \in 1..Len(h) PROVE Sound(n, h[i])
  <2>1. i + 1 \in 1..Len(y)
    BY <1>1, <1>2
  <2> QED BY <1>2, <2>1 DEF Foreseen
<1>8. ASSUME NEW i \in 1..Len(p) PROVE Meets(h[i], p[i]) /\ h[i + 1] = Expected(n, h[i], p[i])
  <2>1. i + 1 \in 1..Len(q) /\ i \in 1..Len(h) /\ i + 1 \in 1..Len(h)
    BY <1>1, <1>2, <1>3
  <2>2. h[i] = y[i + 1] /\ h[i + 1] = y[(i + 1) + 1] /\ p[i] = q[i + 1]
    BY <1>2, <1>3, <2>1
  <2>3. Meets(y[i + 1], q[i + 1]) /\ y[(i + 1) + 1] = Expected(n, y[i + 1], q[i + 1])
    BY <2>1 DEF Foreseen
  <2> QED BY <2>2, <2>3
<1>9. ASSUME NEW j \in 1..Len(p), p[j].type = "CF", NEW i \in 1..j PROVE h[i].state = "WaitCF"
  <2>1. j + 1 \in 1..Len(q) /\ i + 1 \in 1..(j + 1) /\ i \in 1..Len(h) /\ q[j + 1].type = "CF"
    BY <1>1, <1>2, <1>3, <1>9
  <2>2. h[i] = y[i + 1]
    BY <1>2, <2>1
  <2> QED BY <2>1, <2>2 DEF Foreseen
<1>10. Foreseen(n, h, Expected(n, r, Head(q)), p)
  BY <1>1, <1>2, <1>3, <1>6, <1>7, <1>8, <1>9 DEF Foreseen
<1> QED BY <1>1, <1>2, <1>3, <1>5, <1>10 DEF p, Shrunk

\* Silence lasts if the new frame is not answered, and when the first is gone.
LEMMA SilentGrown ==
  ASSUME NEW n, NEW y, NEW h, NEW q, NEW p, Grown(y, h, q, p), Silent(n, y, q),
         ~Grants(n, y[Len(y)], p[Len(p)])
  PROVE  Silent(n, h, p)
<1> SUFFICES ASSUME NEW i \in 1..Len(p) PROVE ~Grants(n, h[i], p[i])
  BY DEF Silent
<1>1. CASE i \in 1..Len(q)
  <2>1. i \in 1..Len(y)
    BY <1>1 DEF Grown
  <2> QED BY <1>1, <2>1 DEF Grown, Silent
<1>2. CASE i = Len(p)
  <2>1. i = Len(y) /\ i \in 1..Len(y)
    BY <1>2 DEF Grown
  <2>2. h[i] = y[Len(y)]
    BY <2>1 DEF Grown
  <2> QED BY <1>2, <2>2
<1> QED BY <1>1, <1>2 DEF Grown

LEMMA SilentShrunk ==
  ASSUME NEW n, NEW y, NEW h, NEW q, NEW p, Shrunk(y, h, q, p), Silent(n, y, q)
  PROVE  Silent(n, h, p)
<1> SUFFICES ASSUME NEW i \in 1..Len(p) PROVE ~Grants(n, h[i], p[i])
  BY DEF Silent
<1>1. i \in 1..Len(h) /\ i + 1 \in 1..Len(q)
  BY DEF Shrunk
<1>2. h[i] = y[i + 1] /\ p[i] = q[i + 1]
  BY <1>1 DEF Shrunk
<1> QED BY <1>1, <1>2 DEF Silent

LEMMA AgreeTypes ==
  ASSUME NEW n \in Node, NEW t, NEW z, NEW r, NEW q, NEW b, Agree(n, t, z, r, q, b)
  PROVE  /\ q \in Seq(Frame) /\ b \in Seq(Frame) /\ r \in RxMachine /\ Sound(n, r)
         /\ r.block \in Nat /\ BlockSize[n] \in Nat
<1>1. PICK y : Foreseen(n, y, r, q)
  BY DEF Agree
<1>2. y \in Seq(RxMachine) /\ 1 \in 1..Len(y) /\ y[1] = r /\ q \in Seq(Frame) /\ b \in Seq(Frame)
  BY <1>1 DEF Foreseen, Agree
<1>3. BlockSize[n] \in 0..255
  BY ConfigAssumption
<1>4. r \in RxMachine /\ Sound(n, r)
  BY <1>1, <1>2 DEF Foreseen
<1>5. r.block \in Nat
  BY <1>4 DEF RxMachine
<1>6. BlockSize[n] \in Nat
  BY <1>3
<1> QED BY <1>2, <1>4, <1>5, <1>6

\* The sender queues a single frame, ...
LEMMA AgreeSingle ==
  ASSUME NEW n \in Node, NEW t, NEW z, NEW r, NEW q, NEW b, Agree(n, t, z, r, q, b),
         NEW f \in Frame, f.type = "SF", f.id = "base", t.state = "Idle",
         NEW u, u.state = "Idle"
  PROVE  Agree(n, u, z, r, Append(q, f), b)
<1>1. PICK y : Foreseen(n, y, r, q) /\ Unanswered(n, t, y, q, b)
  BY DEF Agree, Due, Granted, Sending
<1>2. q \in Seq(Frame) /\ b \in Seq(Frame)
  BY AgreeTypes
<1>3. Meets(y[Len(y)], f)
  BY <1>1, RxIdleTyped DEF Unanswered, Meets
<1> DEFINE p == Append(q, f)
<1>4. PICK h : /\ Foreseen(n, h, r, p) /\ Grown(y, h, q, p)
               /\ h[Len(h)] = Expected(n, y[Len(y)], f) /\ p[Len(q) + 1] = f
  BY <1>1, <1>2, <1>3, ForeseenAppend
<1>5. p \in Seq(Frame) /\ Cardinality(Portions(p)) = Cardinality(Portions(q))
  <2>1. Cardinality(Portions(p)) = Cardinality(Portions(q)) + 0
    BY <1>2, CountAppend
  <2> QED BY <1>2, <2>1, CountType
<1> HIDE DEF p
<1>6. h[Len(h)] = RxIdle
  BY <1>4 DEF Expected
<1>7. p[Len(p)] = f
  BY <1>4 DEF Grown
<1>8. ~Grants(n, y[Len(y)], p[Len(p)])
  BY <1>7 DEF Grants
<1>9. Unanswered(n, u, h, p, b)
  BY <1>1, <1>4, <1>6, <1>8, SilentGrown DEF Unanswered
<1>10. Agree(n, u, z, r, p, b)
  BY <1>2, <1>4, <1>5, <1>9 DEF Agree
<1> QED BY <1>10 DEF p

\* ... a first frame, ...
LEMMA AgreeFirst ==
  ASSUME NEW n \in Node, NEW t, NEW z, NEW r, NEW q, NEW b, Agree(n, t, z, r, q, b),
         NEW f \in Frame, f.type = "FF", f.id = "base", t.state = "Idle",
         NEW u, u.state = "WaitFC", u.msg = f.msg, u.off = FirstChunk(f.msg), u.seq = 1
  PROVE  Agree(n, u, z, r, Append(q, f), b)
<1>1. PICK y : Foreseen(n, y, r, q) /\ Unanswered(n, t, y, q, b)
  BY DEF Agree, Due, Granted, Sending
<1>2. q \in Seq(Frame) /\ b \in Seq(Frame)
  BY AgreeTypes
<1>3. Meets(y[Len(y)], f)
  BY <1>1, RxIdleTyped DEF Unanswered, Meets
<1> DEFINE p == Append(q, f)
           x == y[Len(y)]
<1>4. PICK h : /\ Foreseen(n, h, r, p) /\ Grown(y, h, q, p)
               /\ h[Len(h)] = Expected(n, x, f) /\ p[Len(q) + 1] = f
  BY <1>1, <1>2, <1>3, ForeseenAppend
<1>5. p \in Seq(Frame) /\ Cardinality(Portions(p)) = Cardinality(Portions(q))
  <2>1. Cardinality(Portions(p)) = Cardinality(Portions(q)) + 0
    BY <1>2, CountAppend
  <2> QED BY <1>2, <2>1, CountType
<1> HIDE DEF p
<1>6. /\ p[Len(p)] = f /\ h[Len(p)] = x /\ Len(p) \in 1..Len(p)
      /\ Len(h) = Len(p) + 1 /\ Len(p) \in Nat
  <2>1. Len(p) = Len(y) /\ Len(y) \in 1..Len(y)
    BY <1>4 DEF Grown
  <2> QED BY <1>4, <2>1 DEF Grown
<1> HIDE DEF x
<1>7. CASE AcceptsSize(n, f.msg)
  <2>1. h[Len(h)] = Reception(n, f.msg)
    BY <1>4, <1>7 DEF Expected
  <2>2. Abreast(u, h[Len(h)]) /\ h[Len(h)].block = 0
    <3>1. f.msg \in Msg /\ ~FitsSingle(f.msg)
      BY Kinds
    <3> QED BY <2>1, <3>1, ReceptionSound DEF Abreast
  <2>3. ASSUME NEW k \in 1..Len(p), Grants(n, h[k], p[k]) PROVE k = Len(p)
    <3>1. CASE k \in 1..Len(q)
      <4>1. k \in 1..Len(y)
        BY <1>4, <3>1 DEF Grown
      <4>2. h[k] = y[k] /\ p[k] = q[k]
        BY <1>4, <3>1, <4>1 DEF Grown
      <4> QED BY <1>1, <2>3, <3>1, <4>2 DEF Unanswered, Silent
    <3> QED BY <1>4, <3>1 DEF Grown
  <2>4. Grants(n, h[Len(p)], p[Len(p)])
    BY <1>6, <1>7 DEF Grants
  <2>5. AnswerDue(n, h, p, Len(p))
    BY <1>6, <2>3, <2>4 DEF AnswerDue
  <2>6. Due(n, u, h, p, b)
    BY <1>1, <1>6, <2>2, <2>5 DEF Due, Unanswered
  <2>7. Agree(n, u, z, r, p, b)
    BY <1>2, <1>4, <1>5, <2>6 DEF Agree
  <2> QED BY <2>7 DEF p
<1>8. CASE ~AcceptsSize(n, f.msg)
  <2>1. h[Len(h)] = RxIdle
    BY <1>4, <1>8 DEF Expected
  <2>2. ~Grants(n, y[Len(y)], p[Len(p)])
    BY <1>6, <1>8 DEF Grants
  <2>3. Silent(n, h, p)
    BY <1>1, <1>4, <2>2, SilentGrown DEF Unanswered
  <2>4. Unanswered(n, u, h, p, b)
    BY <1>1, <2>1, <2>3 DEF Unanswered
  <2>5. Agree(n, u, z, r, p, b)
    BY <1>2, <1>4, <1>5, <2>4 DEF Agree
  <2> QED BY <2>5 DEF p
<1> QED BY <1>7, <1>8

\* ... a consecutive frame, after which it goes on, waits or has done, ...
LEMMA AgreeConsecutive ==
  ASSUME NEW n \in Node, NEW t, NEW z, NEW r, NEW q, NEW b, Agree(n, t, z, r, q, b),
         t \in TxMachine, t.state = "Transmit",
         NEW f \in Frame, f.type = "CF", f.id = "base", f.msg = t.msg, f.off = t.off,
         f.sn = t.seq, f.len = ChunkAt(f.msg, f.off),
         NEW u,
         IF f.off + f.len = Size[f.msg] THEN u.state = "Idle"
         ELSE /\ u.msg = t.msg /\ u.off = f.off + f.len /\ u.seq = (t.seq + 1) % SeqMod
              /\ u.block = t.block + 1
              /\ u.state = IF z > 0 /\ t.block + 1 >= z THEN "WaitFC" ELSE "Transmit"
  PROVE  Agree(n, u, z, r, Append(q, f), b)
<1>1. PICK y : Foreseen(n, y, r, q) /\ Sending(n, t, z, y, q, b)
  BY DEF Agree, Due, Granted, Unanswered
<1> DEFINE p == Append(q, f)
           x == y[Len(y)]
           e == Expected(n, x, f)
<1>2. q \in Seq(Frame) /\ b \in Seq(Frame) /\ r.block \in Nat /\ BlockSize[n] \in Nat
  BY AgreeTypes
<1>3. /\ y \in Seq(RxMachine) /\ Len(y) = Len(q) + 1 /\ Len(q) \in Nat /\ y[1] = r
      /\ x \in RxMachine /\ Sound(n, x)
  BY <1>1, <1>2 DEF Foreseen
<1>4. Abreast(t, x) /\ x.block = t.block /\ z = BlockSize[n] /\ t.block \in Nat
  BY <1>1 DEF Sending, TxMachine
<1> HIDE DEF x
<1>5. Meets(x, f) /\ \A i \in 1..Len(y) : y[i].state = "WaitCF"
  BY <1>1, <1>4 DEF Meets, Abreast, Sending
<1>6. PICK h : /\ Foreseen(n, h, r, p) /\ Grown(y, h, q, p)
               /\ h[Len(h)] = e /\ p[Len(q) + 1] = f
  BY <1>1, <1>2, <1>5, ForeseenAppend DEF x
<1>7. /\ p \in Seq(Frame) /\ Cardinality(Portions(q)) \in Nat
      /\ Cardinality(Portions(p)) = Cardinality(Portions(q)) + 1
  BY <1>2, CountAppend, CountType
<1> HIDE DEF p, e
<1>8. /\ p[Len(p)] = f /\ h[Len(p)] = x /\ Len(p) \in 1..Len(p) /\ Len(h) = Len(p) + 1
      /\ Len(p) \in Nat
  <2>1. Len(p) = Len(y) /\ Len(y) \in 1..Len(y)
    BY <1>6 DEF Grown
  <2> QED BY <1>6, <2>1 DEF Grown, x
<1>9. BlockSize[n] > 0 => /\ r.block + Cardinality(Portions(p)) <= BlockSize[n]
                          /\ r.block + Cardinality(Portions(p)) = t.block + 1
                          /\ t.block < BlockSize[n]
  <2>1. r.block + Cardinality(Portions(q)) = t.block
    BY <1>1, <1>3 DEF Sending
  <2>2. BlockSize[n] > 0 => t.block < BlockSize[n]
    BY <1>3, <1>4, RxIdleTyped DEF Sound, Abreast
  <2> QED BY <1>2, <1>4, <1>7, <2>1, <2>2
<1>10. h[1].block + Cardinality(Portions(p)) = t.block + 1
  <2>1. h[1] = r
    BY <1>6 DEF Foreseen
  <2>2. r.block + Cardinality(Portions(q)) = t.block
    BY <1>1, <1>3 DEF Sending
  <2> QED BY <1>2, <1>4, <1>7, <2>1, <2>2
<1>11. /\ f.off + f.len <= Size[f.msg] /\ Size[f.msg] \in Nat /\ f.off + f.len \in Nat
       /\ x.frameLen = Size[f.msg] /\ x.len = f.off
       /\ IF f.off + f.len = Size[f.msg] THEN e = RxIdle
            ELSE /\ e \in RxMachine /\ e.state = "WaitCF" /\ e.msg = f.msg
                 /\ e.len = f.off + f.len /\ e.seq = (f.sn + 1) % SeqMod
                 /\ e.block = IF BlockReceived(n, x.block + 1) THEN 0 ELSE x.block + 1
  BY <1>3, <1>5, NextPortion DEF e, Meets
<1>12. Answers(b) = {} /\ Silent(n, y, q)
  BY <1>1 DEF Sending
<1>13. CASE f.off + f.len = Size[f.msg]
  <2>1. ~Grants(n, x, f)
    BY <1>11, <1>13 DEF Grants
  <2>2. Silent(n, h, p)
    BY <1>6, <1>8, <1>12, <2>1, SilentGrown DEF x
  <2>3. Unanswered(n, u, h, p, b)
    BY <1>6, <1>11, <1>12, <1>13, <2>2 DEF Unanswered
  <2>4. Agree(n, u, z, r, p, b)
    BY <1>2, <1>6, <1>7, <1>9, <2>3 DEF Agree
  <2> QED BY <2>4 DEF p
<1>14. CASE f.off + f.len # Size[f.msg] /\ z > 0 /\ t.block + 1 >= z
  <2>1. u.state = "WaitFC"
    BY <1>14
  <2>2. BlockReceived(n, x.block + 1)
    BY <1>4, <1>14 DEF BlockReceived
  <2>3. Grants(n, x, f)
    BY <1>11, <1>14, <2>2 DEF Grants
  <2>4. Abreast(u, h[Len(h)]) /\ h[Len(h)].block = 0
    BY <1>6, <1>11, <1>14, <2>2 DEF Abreast
  <2>5. ASSUME NEW k \in 1..Len(p), Grants(n, h[k], p[k]) PROVE k = Len(p)
    <3>1. CASE k \in 1..Len(q)
      <4>1. k \in 1..Len(y)
        BY <1>6, <3>1 DEF Grown
      <4>2. h[k] = y[k] /\ p[k] = q[k]
        BY <1>6, <3>1, <4>1 DEF Grown
      <4> QED BY <1>12, <2>5, <3>1, <4>2 DEF Silent
    <3> QED BY <1>6, <3>1 DEF Grown
  <2>6. AnswerDue(n, h, p, Len(p))
    BY <1>8, <2>3, <2>5 DEF AnswerDue
  <2>7. Due(n, u, h, p, b)
    BY <1>8, <1>12, <2>1, <2>4, <2>6 DEF Due
  <2>8. Agree(n, u, z, r, p, b)
    BY <1>2, <1>6, <1>7, <1>9, <2>7 DEF Agree
  <2> QED BY <2>8 DEF p
<1>15. CASE f.off + f.len # Size[f.msg] /\ ~(z > 0 /\ t.block + 1 >= z)
  <2>1. u.state = "Transmit" /\ u.block = t.block + 1
    BY <1>15
  <2>2. ~BlockReceived(n, x.block + 1)
    BY <1>4, <1>15 DEF BlockReceived
  <2>3. ~Grants(n, x, f)
    BY <2>2 DEF Grants
  <2>4. Silent(n, h, p)
    BY <1>6, <1>8, <1>12, <2>3, SilentGrown DEF x
  <2>5. Abreast(u, h[Len(h)]) /\ h[Len(h)].block = u.block
    BY <1>4, <1>6, <1>11, <1>15, <2>1, <2>2 DEF Abreast
  <2>6. ASSUME NEW k \in 1..Len(h) PROVE h[k].state = "WaitCF"
    <3>1. CASE k \in 1..Len(y)
      BY <1>5, <1>6, <3>1 DEF Grown
    <3>2. CASE k = Len(h)
      BY <2>5, <3>2 DEF Abreast
    <3> QED BY <1>6, <3>1, <3>2 DEF Grown
  <2>7. Sending(n, u, z, h, p, b)
    BY <1>4, <1>10, <1>12, <2>1, <2>4, <2>5, <2>6 DEF Sending
  <2>8. Agree(n, u, z, r, p, b)
    BY <1>2, <1>6, <1>7, <1>9, <2>7 DEF Agree
  <2> QED BY <2>8 DEF p
<1> QED BY <1>13, <1>14, <1>15

\* ... or a frame that carries no data, to answer the other transfer.
LEMMA AgreeOther ==
  ASSUME NEW n \in Node, NEW t, NEW z, NEW r, NEW q, NEW b, Agree(n, t, z, r, q, b),
         NEW f \in Frame, f.type \notin DataTypes
  PROVE  Agree(n, t, z, r, Append(q, f), b)
<1>1. PICK y : /\ Foreseen(n, y, r, q)
               /\ \/ Unanswered(n, t, y, q, b) \/ Due(n, t, y, q, b)
                  \/ Granted(t, y, q, b) \/ Sending(n, t, z, y, q, b)
  BY DEF Agree
<1>2. q \in Seq(Frame) /\ b \in Seq(Frame)
  BY AgreeTypes
<1> DEFINE p == Append(q, f)
           x == y[Len(y)]
<1>3. Meets(x, f) /\ ~Grants(n, x, f) /\ Expected(n, x, f) = x
  BY DEF Meets, Grants, Expected, DataTypes
<1>4. PICK h : /\ Foreseen(n, h, r, p) /\ Grown(y, h, q, p)
               /\ h[Len(h)] = Expected(n, x, f) /\ p[Len(q) + 1] = f
  BY <1>1, <1>2, <1>3, ForeseenAppend DEF DataTypes
<1>5. p \in Seq(Frame) /\ Cardinality(Portions(p)) = Cardinality(Portions(q))
  <2>1. Cardinality(Portions(p)) = Cardinality(Portions(q)) + 0
    BY <1>2, CountAppend DEF DataTypes
  <2> QED BY <1>2, <2>1, CountType
<1> HIDE DEF p
<1>6. h[Len(h)] = y[Len(y)] /\ ~Grants(n, y[Len(y)], p[Len(p)]) /\ h[1] = y[1]
  <2>1. p[Len(p)] = f
    BY <1>4 DEF Grown
  <2> QED BY <1>1, <1>3, <1>4, <2>1 DEF Foreseen
<1>7. Silent(n, y, q) => Silent(n, h, p)
  BY <1>4, <1>6, SilentGrown
<1>8. ASSUME NEW k \in 1..Len(h) PROVE h[k] = y[Len(y)] \/ (k \in 1..Len(y) /\ h[k] = y[k])
  BY <1>4, <1>6 DEF Grown
<1>9. ASSUME NEW k \in 1..Len(p)
      PROVE  \/ p[k].type \notin DataTypes /\ ~Grants(n, h[k], p[k])
             \/ k \in 1..Len(q) /\ k \in 1..Len(y) /\ h[k] = y[k] /\ p[k] = q[k]
  <2>1. CASE k \in 1..Len(q)
    <3>1. k \in 1..Len(y)
      BY <1>4, <2>1 DEF Grown
    <3> QED BY <1>4, <2>1, <3>1 DEF Grown
  <2>2. CASE k = Len(q) + 1
    <3>1. p[k].type \notin DataTypes
      BY <1>4, <2>2
    <3> QED BY <3>1 DEF Grants, DataTypes
  <2> QED BY <1>4, <2>1, <2>2 DEF Grown
<1>10. CASE Unanswered(n, t, y, q, b)
  <2>1. Unanswered(n, t, h, p, b)
    BY <1>6, <1>7, <1>10 DEF Unanswered
  <2>2. Agree(n, t, z, r, p, b)
    BY <1>2, <1>4, <1>5, <2>1 DEF Agree
  <2> QED BY <2>2 DEF p
<1>11. CASE Due(n, t, y, q, b)
  <2> PICK i \in 1..Len(q) : AnswerDue(n, y, q, i)
    BY <1>11 DEF Due
  <2>0. i \in 1..Len(p) /\ i \in 1..Len(y) /\ i \in Nat
    BY <1>4 DEF Grown
  <2>1. h[i] = y[i] /\ p[i] = q[i]
    BY <1>4, <2>0 DEF Grown
  <2>2. AnswerDue(n, h, p, i)
    <3>1. Grants(n, h[i], p[i])
      BY <2>1 DEF AnswerDue
    <3>2. \A k \in 1..Len(p) : k > i => p[k].type \notin DataTypes
      BY <1>9 DEF AnswerDue
    <3>3. \A k \in 1..Len(p) : Grants(n, h[k], p[k]) => k = i
      BY <1>9 DEF AnswerDue
    <3>4. \A k \in 1..Len(h) : k > i => h[k] = h[Len(h)]
      BY <1>6, <1>8 DEF AnswerDue
    <3> QED BY <2>0, <3>1, <3>2, <3>3, <3>4 DEF AnswerDue
  <2>3. Due(n, t, h, p, b)
    BY <1>6, <1>11, <2>0, <2>2 DEF Due
  <2>4. Agree(n, t, z, r, p, b)
    BY <1>2, <1>4, <1>5, <2>3 DEF Agree
  <2> QED BY <2>4 DEF p
<1>12. CASE Granted(t, y, q, b)
  <2>1. Granted(t, h, p, b)
    BY <1>6, <1>8, <1>9, <1>12 DEF Granted
  <2>2. Agree(n, t, z, r, p, b)
    BY <1>2, <1>4, <1>5, <2>1 DEF Agree
  <2> QED BY <2>2 DEF p
<1>13. CASE Sending(n, t, z, y, q, b)
  <2>0. Len(y) \in 1..Len(y)
    BY <1>4 DEF Grown
  <2>1. \A k \in 1..Len(h) : h[k].state = "WaitCF"
    BY <1>8, <1>13, <2>0 DEF Sending
  <2>2. Sending(n, t, z, h, p, b)
    BY <1>5, <1>6, <1>7, <1>13, <2>1 DEF Sending
  <2>3. Agree(n, t, z, r, p, b)
    BY <1>2, <1>4, <1>5, <2>2 DEF Agree
  <2> QED BY <2>3 DEF p
<1> QED BY <1>1, <1>10, <1>11, <1>12, <1>13

\* The queue back to the sender grows or shrinks by a frame that answers nothing ...
LEMMA AnswersAppend ==
  ASSUME NEW b \in Seq(Frame), NEW f \in Frame
  PROVE  Answers(Append(b, f)) = IF f.type = "FC" THEN Answers(b) \cup {Len(b) + 1} ELSE Answers(b)
<1>1. /\ Len(Append(b, f)) = Len(b) + 1 /\ Len(b) \in Nat /\ Append(b, f)[Len(b) + 1] = f
      /\ \A i \in 1..Len(b) : Append(b, f)[i] = b[i]
  OBVIOUS
<1> DEFINE p == Append(b, f)
<1> HIDE DEF p
<1>2. /\ Len(p) = Len(b) + 1 /\ Len(b) \in Nat /\ p[Len(b) + 1] = f
      /\ \A i \in 1..Len(b) : p[i] = b[i]
  BY <1>1 DEF p
<1>3. 1..Len(p) = 1..Len(b) \cup {Len(b) + 1}
  BY <1>2
<1>4. Answers(p) = Answers(b) \cup (IF f.type = "FC" THEN {Len(b) + 1} ELSE {})
  BY <1>2, <1>3, Zenon DEF Answers
<1> QED BY <1>4 DEF p

LEMMA AnswersTail ==
  ASSUME NEW b \in Seq(Frame), b # <<>>, NEW i
  PROVE  i \in Answers(Tail(b)) <=> i \in Nat /\ i >= 1 /\ i + 1 \in Answers(b)
BY DEF Answers

LEMMA AgreeBackAppend ==
  ASSUME NEW n \in Node, NEW t, NEW z, NEW r, NEW q, NEW b, Agree(n, t, z, r, q, b),
         NEW f \in Frame, f.type # "FC"
  PROVE  Agree(n, t, z, r, q, Append(b, f))
<1>1. /\ b \in Seq(Frame) /\ Append(b, f) \in Seq(Frame)
      /\ Len(Append(b, f)) = Len(b) + 1 /\ Len(b) \in Nat
  BY AgreeTypes
<1> DEFINE p == Append(b, f)
<1>2. Answers(p) = Answers(b) /\ \A j \in 1..Len(b) : j \in 1..Len(p)
  BY <1>1, AnswersAppend
<1> HIDE DEF p
<1>3. p \in Seq(Frame)
  BY <1>1 DEF p
<1>4. PICK y : /\ Foreseen(n, y, r, q)
               /\ \/ Unanswered(n, t, y, q, b) \/ Due(n, t, y, q, b)
                  \/ Granted(t, y, q, b) \/ Sending(n, t, z, y, q, b)
  BY DEF Agree
<1>5. \/ Unanswered(n, t, y, q, p) \/ Due(n, t, y, q, p)
      \/ Granted(t, y, q, p) \/ Sending(n, t, z, y, q, p)
  BY <1>2, <1>4 DEF Unanswered, Due, Granted, Sending
<1>6. Agree(n, t, z, r, q, p)
  BY <1>3, <1>4, <1>5 DEF Agree
<1> QED BY <1>6 DEF p

LEMMA AgreeBackTail ==
  ASSUME NEW n \in Node, NEW t, NEW z, NEW r, NEW q, NEW b, Agree(n, t, z, r, q, b),
         b # <<>>, Head(b).type # "FC"
  PROVE  Agree(n, t, z, r, q, Tail(b))
<1> DEFINE p == Tail(b)
<1>1. /\ b \in Seq(Frame) /\ p \in Seq(Frame) /\ Len(p) = Len(b) - 1 /\ Len(b) \in Nat
      /\ b[1] = Head(b)
  BY AgreeTypes
<1>2. 1 \notin Answers(b)
  BY <1>1 DEF Answers
<1>3. \A i : i \in Answers(p) <=> i \in Nat /\ i >= 1 /\ i + 1 \in Answers(b)
  BY <1>1, AnswersTail
<1>4. Answers(b) = {} => Answers(p) = {}
  BY <1>3
<1>5. ASSUME NEW j \in 1..Len(b), Answers(b) = {j} PROVE j - 1 \in 1..Len(p) /\ Answers(p) = {j - 1}
  <2>1. j \in Nat /\ j # 1
    BY <1>1, <1>2, <1>5
  <2>2. \A i : i \in Answers(p) <=> i \in Nat /\ i >= 1 /\ i + 1 = j
    BY <1>3, <1>5
  <2>3. \A i : i \in Answers(p) <=> i = j - 1
    BY <2>1, <2>2, <1>1
  <2> QED BY <1>1, <2>1, <2>3
<1> HIDE DEF p
<1>6. PICK y : /\ Foreseen(n, y, r, q)
               /\ \/ Unanswered(n, t, y, q, b) \/ Due(n, t, y, q, b)
                  \/ Granted(t, y, q, b) \/ Sending(n, t, z, y, q, b)
  BY DEF Agree
<1>7. \/ Unanswered(n, t, y, q, p) \/ Due(n, t, y, q, p)
      \/ Granted(t, y, q, p) \/ Sending(n, t, z, y, q, p)
  BY <1>4, <1>5, <1>6 DEF Unanswered, Due, Granted, Sending
<1>8. Agree(n, t, z, r, q, p)
  BY <1>1, <1>6, <1>7 DEF Agree
<1> QED BY <1>8 DEF p

\* ... or by the answer, which finds its sender waiting for it.
LEMMA AgreeGranted ==
  ASSUME NEW n \in Node, NEW t, NEW z, NEW r, NEW q, NEW b, Agree(n, t, z, r, q, b),
         b # <<>>, Head(b).type = "FC"
  PROVE  /\ t.state = "WaitFC"
         /\ \A u : /\ u.state = "Transmit" /\ u.block = 0
                   /\ u.msg = t.msg /\ u.off = t.off /\ u.seq = t.seq
                   => Agree(n, u, BlockSize[n], r, q, Tail(b))
<1> DEFINE p == Tail(b)
<1>1. /\ b \in Seq(Frame) /\ p \in Seq(Frame) /\ Len(p) = Len(b) - 1
      /\ Len(b) \in Nat /\ Len(b) >= 1 /\ b[1] = Head(b)
  BY AgreeTypes
<1>2. 1 \in Answers(b)
  BY <1>1 DEF Answers
<1>3. PICK y : Foreseen(n, y, r, q) /\ Granted(t, y, q, b)
  BY <1>2 DEF Agree, Unanswered, Due, Sending
<1>4. Answers(b) = {1}
  BY <1>2, <1>3 DEF Granted
<1>5. Answers(p) = {}
  <2>1. \A i : i \in Answers(p) <=> i \in Nat /\ i >= 1 /\ i + 1 \in Answers(b)
    BY <1>1, AnswersTail
  <2> QED BY <1>4, <2>1
<1> HIDE DEF p
<1>6. Portions(q) = {} /\ Cardinality(Portions(q)) = 0
  <2>1. Portions(q) = {}
    BY <1>3 DEF Granted, Portions, DataTypes
  <2> QED BY <2>1, FS_EmptySet
<1>7. Silent(n, y, q)
  BY <1>3 DEF Granted, Silent, Grants, DataTypes
<1>8. Len(y) \in 1..Len(y) /\ 1 \in 1..Len(y) /\ Len(q) \in Nat
  BY <1>3, AgreeTypes DEF Foreseen
<1>9. ASSUME NEW u, u.state = "Transmit", u.block = 0,
             u.msg = t.msg, u.off = t.off, u.seq = t.seq
      PROVE  Agree(n, u, BlockSize[n], r, q, p)
  <2>1. Abreast(u, y[Len(y)]) /\ y[Len(y)].block = 0
    BY <1>3, <1>9 DEF Granted, Abreast
  <2>2. \A k \in 1..Len(y) : y[k].state = "WaitCF"
    BY <1>3, <2>1 DEF Granted, Abreast
  <2>3. y[1].block = 0
    BY <1>3, <1>8, <2>1 DEF Granted
  <2>4. y[1].block + Cardinality(Portions(q)) = u.block
    BY <1>6, <1>9, <2>3
  <2>5. Sending(n, u, BlockSize[n], y, q, p)
    BY <1>5, <1>7, <1>9, <2>1, <2>2, <2>4 DEF Sending
  <2> QED BY <1>1, <1>3, <2>5 DEF Agree
<1> QED BY <1>3, <1>9 DEF Granted, p

\* With nothing under way and nothing left to send there is no transfer, and no reception.
LEMMA AgreeEnded ==
  ASSUME NEW n \in Node, NEW t, NEW z, NEW r, Agree(n, t, z, r, <<>>, <<>>), t.state # "Transmit"
  PROVE  /\ r.state = "Idle"
         /\ \A u : u.state = "Idle" => Agree(n, u, z, r, <<>>, <<>>)
<1>1. 1..Len(<<>>) = {}
  OBVIOUS
<1>2. PICK y : Foreseen(n, y, r, <<>>) /\ Unanswered(n, t, y, <<>>, <<>>)
  BY <1>1 DEF Agree, Due, Granted, Sending
<1>3. y[Len(y)] = r
  BY <1>2 DEF Foreseen
<1>4. r = RxIdle
  BY <1>2, <1>3 DEF Unanswered
<1>5. ASSUME NEW u, u.state = "Idle" PROVE Agree(n, u, z, r, <<>>, <<>>)
  <2>1. Unanswered(n, u, y, <<>>, <<>>)
    BY <1>2, <1>5 DEF Unanswered
  <2> QED BY <1>2, <2>1 DEF Agree
<1> QED BY <1>4, <1>5, RxIdleTyped

\* The receiver takes the frame that is due: the count of its block goes on, ...
LEMMA TakenCredit ==
  ASSUME NEW n \in Node, NEW t, NEW z, NEW r, NEW q, NEW b, Agree(n, t, z, r, q, b), q # <<>>,
         BlockSize[n] > 0
  PROVE  Expected(n, r, Head(q)).block + Cardinality(Portions(Tail(q))) <= BlockSize[n]
<1> DEFINE f == Head(q)
           e == Expected(n, r, f)
           c == Cardinality(Portions(q))
           d == Cardinality(Portions(Tail(q)))
<1>1. PICK y : Foreseen(n, y, r, q)
  BY DEF Agree
<1>2. /\ q \in Seq(Frame) /\ f \in Frame /\ r \in RxMachine /\ Sound(n, r) /\ r.block \in Nat
      /\ BlockSize[n] \in Nat
  BY AgreeTypes
<1>3. Meets(r, f) /\ y[1] = r
  BY <1>1, <1>2, ForeseenTail
<1>4. r.block + c <= BlockSize[n] /\ c \in Nat /\ d \in Nat
  <2>1. Tail(q) \in Seq(Frame)
    BY <1>2
  <2> QED BY <1>2, <2>1, CountType DEF Agree
<1>5. c = d + (IF f.type = "CF" THEN 1 ELSE 0)
  BY <1>2, CountTail
<1>6. r.state = "Idle" => c = 0
  <2> HAVE r.state = "Idle"
  <2>1. \A j \in 1..Len(q) : j \in Nat /\ 1 \in 1..j
    BY <1>2
  <2>2. Portions(q) = {}
    BY <1>1, <1>3, <2>1 DEF Foreseen, Portions
  <2> QED BY <2>2, FS_EmptySet
<1> HIDE DEF f, e, c, d
<1>7. CASE f.type = "SF"
  <2>1. e.block = 0
    BY <1>7 DEF Expected, RxIdle, e
  <2> QED BY <1>2, <1>3, <1>4, <1>5, <1>6, <1>7, <2>1 DEF Meets, e, d, f
<1>8. CASE f.type = "FF"
  <2>1. e.block = 0
    <3>1. f.msg \in Msg /\ ~FitsSingle(f.msg)
      BY <1>2, <1>8, Kinds
    <3>2. e = Reception(n, f.msg) \/ e = RxIdle
      BY <1>8 DEF Expected, e
    <3> QED BY <3>1, <3>2, ReceptionSound DEF RxIdle
  <2>2. c = 0
    BY <1>3, <1>6, <1>8 DEF Meets
  <2>3. d = 0
    BY <1>4, <1>5, <1>8, <2>2
  <2> QED BY <1>2, <2>1, <2>3 DEF e, d, f
<1>9. CASE f.type = "CF"
  <2>1. e.block = 0 \/ e.block = r.block + 1
    BY <1>2, <1>3, <1>9, NextPortion DEF e, RxIdle
  <2> QED BY <1>2, <1>4, <1>5, <1>9, <2>1 DEF e, d, f
<1>10. CASE f.type \notin DataTypes
  <2>1. e = r
    BY <1>10 DEF Expected, DataTypes, e
  <2> QED BY <1>2, <1>4, <1>5, <1>10, <2>1 DEF e, d, f, DataTypes
<1> QED BY <1>7, <1>8, <1>9, <1>10 DEF DataTypes

LEMMA AgreeTaken ==
  ASSUME NEW n \in Node, NEW t, NEW z, NEW r, NEW q, NEW b, Agree(n, t, z, r, q, b), q # <<>>,
         ~Grants(n, r, Head(q))
  PROVE  Agree(n, t, z, Expected(n, r, Head(q)), Tail(q), b)
<1> DEFINE f == Head(q)
           e == Expected(n, r, f)
           p == Tail(q)
<1>1. PICK y : /\ Foreseen(n, y, r, q)
               /\ \/ Unanswered(n, t, y, q, b) \/ Due(n, t, y, q, b)
                  \/ Granted(t, y, q, b) \/ Sending(n, t, z, y, q, b)
  BY DEF Agree
<1>2. /\ q \in Seq(Frame) /\ f \in Frame /\ p \in Seq(Frame) /\ b \in Seq(Frame)
      /\ r \in RxMachine /\ Sound(n, r) /\ r.block \in Nat
  BY AgreeTypes
<1>3. Meets(r, f) /\ y[1] = r /\ q[1] = f
  BY <1>1, <1>2, ForeseenTail
<1>4. PICK h : Foreseen(n, h, e, p) /\ Shrunk(y, h, q, p) /\ h[Len(h)] = y[Len(y)]
  BY <1>1, <1>2, ForeseenTail
<1>5. BlockSize[n] > 0 => e.block + Cardinality(Portions(p)) <= BlockSize[n]
  BY TakenCredit
<1>6. /\ Cardinality(Portions(q)) = Cardinality(Portions(p)) + (IF f.type = "CF" THEN 1 ELSE 0)
      /\ Cardinality(Portions(p)) \in Nat
  BY <1>2, CountTail, CountType
<1> HIDE DEF p, e
<1>7. ASSUME NEW k \in 1..Len(h) PROVE k + 1 \in 1..Len(y) /\ h[k] = y[k + 1] /\ k \in Nat
  BY <1>4 DEF Shrunk
<1>8. ASSUME NEW k \in 1..Len(p)
      PROVE  k + 1 \in 1..Len(q) /\ p[k] = q[k + 1] /\ h[k] = y[k + 1] /\ k \in Nat
  BY <1>4 DEF Shrunk
<1>9. CASE Unanswered(n, t, y, q, b)
  <2>1. Unanswered(n, t, h, p, b)
    BY <1>4, <1>9, SilentShrunk DEF Unanswered
  <2>2. Agree(n, t, z, e, p, b)
    BY <1>2, <1>4, <1>5, <2>1 DEF Agree
  <2> QED BY <2>2 DEF e, p, f
<1>10. CASE Due(n, t, y, q, b)
  <2> PICK i \in 1..Len(q) : AnswerDue(n, y, q, i)
    BY <1>10 DEF Due
  <2> DEFINE j == i - 1
  <2>1. i # 1 /\ i \in Nat /\ j \in 1..Len(p) /\ j + 1 = i /\ j \in Nat
    <3>1. i # 1
      BY <1>3 DEF AnswerDue, f
    <3> QED BY <1>4, <3>1 DEF Shrunk
  <2> HIDE DEF j
  <2>2. Grants(n, h[j], p[j])
    BY <1>8, <2>1 DEF AnswerDue
  <2>3. ASSUME NEW k \in 1..Len(p), k > j PROVE p[k].type \notin DataTypes
    BY <1>8, <2>1, <2>3 DEF AnswerDue
  <2>4. ASSUME NEW k \in 1..Len(p), Grants(n, h[k], p[k]) PROVE k = j
    <3>1. k + 1 = i
      BY <1>8, <2>4 DEF AnswerDue
    <3> QED BY <1>8, <2>1, <3>1
  <2>5. ASSUME NEW k \in 1..Len(h), k > j PROVE h[k] = h[Len(h)]
    <3>1. k + 1 > i /\ k + 1 \in 1..Len(y)
      BY <1>7, <2>1, <2>5
    <3> QED BY <1>4, <1>7, <3>1 DEF AnswerDue
  <2>6. AnswerDue(n, h, p, j)
    BY <2>1, <2>2, <2>3, <2>4, <2>5 DEF AnswerDue
  <2>7. Due(n, t, h, p, b)
    BY <1>4, <1>10, <2>1, <2>6 DEF Due
  <2>8. Agree(n, t, z, e, p, b)
    BY <1>2, <1>4, <1>5, <2>7 DEF Agree
  <2> QED BY <2>8 DEF e, p, f
<1>11. CASE Granted(t, y, q, b)
  <2>1. Granted(t, h, p, b)
    BY <1>4, <1>7, <1>8, <1>11 DEF Granted
  <2>2. Agree(n, t, z, e, p, b)
    BY <1>2, <1>4, <1>5, <2>1 DEF Agree
  <2> QED BY <2>2 DEF e, p, f
<1>12. CASE Sending(n, t, z, y, q, b)
  <2>1. 1 \in 1..Len(y) /\ 1 \in 1..Len(h)
    BY <1>4 DEF Shrunk
  <2>2. r.state = "WaitCF" /\ h[1] = e /\ e.state = "WaitCF" /\ y[1].block = r.block
    <3>1. h[1] = e
      BY <1>4 DEF Foreseen
    <3> QED BY <1>3, <1>7, <1>12, <2>1, <3>1 DEF Sending
  <2>3. e.block = r.block + (IF f.type = "CF" THEN 1 ELSE 0)
    <3>1. CASE f.type = "CF"
      <4>1. /\ f.off + f.len <= Size[f.msg] /\ Size[f.msg] \in Nat /\ f.off + f.len \in Nat
            /\ r.frameLen = Size[f.msg] /\ r.len = f.off
            /\ IF f.off + f.len = Size[f.msg] THEN e = RxIdle
               ELSE e.block = IF BlockReceived(n, r.block + 1) THEN 0 ELSE r.block + 1
        BY <1>2, <1>3, <3>1, NextPortion DEF e, Meets
      <4>2. f.off + f.len < Size[f.msg]
        BY <2>2, <4>1, RxIdleTyped
      <4>3. ~BlockReceived(n, r.block + 1)
        BY <3>1, <4>1, <4>2 DEF Grants, f
      <4>4. f.off + f.len # Size[f.msg]
        BY <4>1, <4>2
      <4> QED BY <3>1, <4>1, <4>3, <4>4
    <3>2. CASE f.type # "CF"
      <4>1. f.type \notin DataTypes
        BY <1>3, <2>2, <3>2 DEF Meets, DataTypes
      <4>2. e = r
        BY <4>1 DEF Expected, e, DataTypes
      <4> QED BY <1>2, <3>2, <4>2
    <3> QED BY <3>1, <3>2
  <2>4. h[1].block + Cardinality(Portions(p)) = t.block
    <3>1. r.block + Cardinality(Portions(q)) = t.block
      BY <1>12, <2>2 DEF Sending
    <3> QED BY <1>2, <1>6, <2>2, <2>3, <3>1
  <2>5. Silent(n, h, p)
    BY <1>4, <1>12, SilentShrunk DEF Sending
  <2>6. \A k \in 1..Len(h) : h[k].state = "WaitCF"
    BY <1>7, <1>12 DEF Sending
  <2>7. Sending(n, t, z, h, p, b)
    BY <1>4, <1>12, <2>4, <2>5, <2>6 DEF Sending
  <2>8. Agree(n, t, z, e, p, b)
    BY <1>2, <1>4, <1>5, <2>7 DEF Agree
  <2> QED BY <2>8 DEF e, p, f
<1> QED BY <1>1, <1>9, <1>10, <1>11, <1>12

\* ... and a frame that completes a block is answered.
LEMMA AgreeAnswered ==
  ASSUME NEW n \in Node, NEW t, NEW z, NEW r, NEW q, NEW b, Agree(n, t, z, r, q, b), q # <<>>,
         Grants(n, r, Head(q)), NEW g \in Frame, g.type = "FC"
  PROVE  Agree(n, t, z, Expected(n, r, Head(q)), Tail(q), Append(b, g))
<1> DEFINE f == Head(q)
           e == Expected(n, r, f)
           p == Tail(q)
           a == Append(b, g)
<1>1. /\ q \in Seq(Frame) /\ f \in Frame /\ p \in Seq(Frame) /\ b \in Seq(Frame)
      /\ a \in Seq(Frame) /\ Len(q) \in Nat /\ Len(q) >= 1 /\ Len(b) \in Nat /\ Len(a) = Len(b) + 1
  BY AgreeTypes
<1>2. PICK y : /\ Foreseen(n, y, r, q)
               /\ \/ Unanswered(n, t, y, q, b) \/ Due(n, t, y, q, b)
                  \/ Granted(t, y, q, b) \/ Sending(n, t, z, y, q, b)
  BY DEF Agree
<1>3. y[1] = r /\ q[1] = f
  BY <1>1, <1>2, ForeseenTail
<1>4. 1 \in 1..Len(q) /\ Grants(n, y[1], q[1])
  BY <1>1, <1>3
<1>5. Due(n, t, y, q, b)
  BY <1>2, <1>4 DEF Unanswered, Granted, Sending, Silent, Grants, DataTypes
<1> PICK i \in 1..Len(q) : AnswerDue(n, y, q, i)
  BY <1>5 DEF Due
<1>6. i = 1
  BY <1>4 DEF AnswerDue
<1>7. PICK h : Foreseen(n, h, e, p) /\ Shrunk(y, h, q, p) /\ h[Len(h)] = y[Len(y)]
  BY <1>1, <1>2, ForeseenTail
<1>8. BlockSize[n] > 0 => e.block + Cardinality(Portions(p)) <= BlockSize[n]
  BY TakenCredit
<1>9. Answers(a) = {Len(b) + 1} /\ Len(b) + 1 \in 1..Len(a)
  BY <1>1, <1>5, AnswersAppend DEF Due
<1> HIDE DEF p, e, a
<1>10. ASSUME NEW k \in 1..Len(p) PROVE p[k].type \notin DataTypes
  <2>1. k + 1 \in 1..Len(q) /\ k + 1 > 1 /\ p[k] = q[k + 1]
    BY <1>7 DEF Shrunk
  <2> QED BY <1>6, <2>1 DEF AnswerDue
<1>11. ASSUME NEW k \in 1..Len(h) PROVE h[k] = h[Len(h)]
  <2>1. k + 1 \in 1..Len(y) /\ k + 1 > 1 /\ h[k] = y[k + 1]
    BY <1>7 DEF Shrunk
  <2> QED BY <1>6, <1>7, <2>1 DEF AnswerDue
<1>12. Granted(t, h, p, a)
  BY <1>5, <1>7, <1>9, <1>10, <1>11 DEF Granted, Due
<1>13. Agree(n, t, z, e, p, a)
  BY <1>1, <1>7, <1>8, <1>12 DEF Agree
<1> QED BY <1>13 DEF e, p, f, a

-----------------------------------------------------------------------------
\* A step of session n, seen from the two lines between n and its peer.
Alone(n) ==
  /\ \A k \in Node \ {n} : /\ tx'[k] = tx[k] /\ remoteBlockSize'[k] = remoteBlockSize[k]
                           /\ rx'[k] = rx[k] /\ inbox'[k] = inbox[k] /\ txChan'[k] = txChan[k]
  /\ status' = status /\ txAddress' = txAddress

\* Two ends face each other, over two lines of frames.
LEMMA Facing ==
  ASSUME Undisturbed, NEW n \in Node
  PROVE  Peer[n] \in Node /\ Peer[Peer[n]] = n /\ Peer[n] # n
BY Peers DEF Undisturbed

LEMMA LinesTyped ==
  ASSUME IInv, NEW n \in Node
  PROVE  Line(n) \in Seq(Frame)
<1>1. inbox[Peer[n]] \in Seq(Frame) /\ txChan[n] \in Seq(Frame)
  BY Peers, Machines
<1> QED BY <1>1 DEF Line

\* What n does to the line it sends on ...
LEMMA LineSends ==
  ASSUME IInv, Undisturbed, NEW n \in Node, Alone(n)
  PROVE  /\ txChan'[n] = txChan[n] => Line(n)' = Line(n)
         /\ \A f \in Frame : txChan'[n] = Append(txChan[n], f) => Line(n)' = Append(Line(n), f)
<1>1. Peer[n] \in Node \ {n} /\ inbox[Peer[n]] \in Seq(Frame) /\ txChan[n] \in Seq(Frame)
  BY Facing, Machines
<1>2. inbox'[Peer[n]] = inbox[Peer[n]]
  BY <1>1 DEF Alone
<1>3. Line(n)' = inbox[Peer[n]] \o txChan'[n] /\ Line(n) = inbox[Peer[n]] \o txChan[n]
  BY <1>2 DEF Line
<1> QED BY <1>1, <1>3, LineAppend

\* ... and to the one it receives from.
LEMMA LineReceived ==
  ASSUME IInv, Undisturbed, NEW n \in Node, inbox[n] # <<>>
  PROVE  /\ Line(Peer[n]) # <<>> /\ Head(Line(Peer[n])) = Head(inbox[n])
         /\ Tail(Line(Peer[n])) = Tail(inbox[n]) \o txChan[Peer[n]]
<1>1. /\ Peer[n] \in Node /\ Peer[Peer[n]] = n
      /\ inbox[n] \in Seq(Frame) /\ txChan[Peer[n]] \in Seq(Frame)
  BY Facing, Machines
<1>2. Line(Peer[n]) = inbox[n] \o txChan[Peer[n]]
  BY <1>1 DEF Line
<1> DEFINE a == inbox[n]
           b == txChan[Peer[n]]
<1>3. a \in Seq(Frame) /\ b \in Seq(Frame) /\ a # <<>>
  BY <1>1
<1> HIDE DEF a, b
<1>4. a \o b # <<>> /\ Head(a \o b) = Head(a) /\ Tail(a \o b) = Tail(a) \o b
  BY <1>3, LineTail
<1> QED BY <1>2, <1>4 DEF a, b

LEMMA LineReceives ==
  ASSUME IInv, Undisturbed, NEW n \in Node, Alone(n)
  PROVE  /\ inbox'[n] = inbox[n] => Line(Peer[n])' = Line(Peer[n])
         /\ inbox[n] # <<>> => /\ Line(Peer[n]) # <<>> /\ Head(Line(Peer[n])) = Head(inbox[n])
                               /\ inbox'[n] = Tail(inbox[n]) =>
                                    Line(Peer[n])' = Tail(Line(Peer[n]))
<1>1. Peer[n] \in Node \ {n} /\ Peer[Peer[n]] = n
  BY Facing
<1>2. txChan'[Peer[n]] = txChan[Peer[n]]
  BY <1>1 DEF Alone
<1>3. /\ Line(Peer[n])' = inbox'[n] \o txChan[Peer[n]]
      /\ Line(Peer[n]) = inbox[n] \o txChan[Peer[n]]
  BY <1>1, <1>2 DEF Line
<1> QED BY <1>3, LineReceived

\* Answers stay what they are as the queue grows and shrinks.
LEMMA PermitsAppend ==
  ASSUME NEW n \in Node, NEW q \in Seq(Frame), Permits(n, q), NEW f \in Frame,
         f.type = "FC" => f.id = "base" /\ f.status = "CTS" /\ f.bs = BlockSize[n]
  PROVE  Permits(n, Append(q, f))
<1>1. /\ Len(q) \in Nat /\ Append(q, f)[Len(q) + 1] = f
      /\ \A i \in 1..Len(q) : Append(q, f)[i] = q[i]
  OBVIOUS
<1>2. ASSUME NEW i \in Answers(Append(q, f))
      PROVE  \/ i \in Answers(q) /\ Append(q, f)[i] = q[i]
             \/ f.type = "FC" /\ Append(q, f)[i] = f
  <2>1. i \in Answers(q) \/ (f.type = "FC" /\ i = Len(q) + 1)
    BY AnswersAppend
  <2>2. i \in Answers(q) => i \in 1..Len(q)
    BY DEF Answers
  <2> QED BY <1>1, <2>1, <2>2
<1> QED BY <1>2 DEF Permits

LEMMA PermitsTail ==
  ASSUME NEW n \in Node, NEW q \in Seq(Frame), Permits(n, q), q # <<>>
  PROVE  Permits(n, Tail(q))
<1> SUFFICES ASSUME NEW i \in Answers(Tail(q))
             PROVE  /\ Tail(q)[i].id = "base" /\ Tail(q)[i].status = "CTS"
                    /\ Tail(q)[i].bs = BlockSize[n]
  BY DEF Permits
<1>1. i \in Nat /\ i >= 1 /\ i + 1 \in Answers(q)
  BY AnswersTail
<1>2. i \in 1..Len(Tail(q))
  BY DEF Answers
<1>3. Tail(q)[i] = q[i + 1]
  BY <1>2
<1> QED BY <1>1, <1>3 DEF Permits

\* Both transfers between n and its peer agree, and no other is touched.
LEMMA Settle ==
  ASSUME IInv, Undisturbed, Agreement, NEW n \in Node, Alone(n),
         Agree(Peer[n], tx'[n], remoteBlockSize'[n], rx[Peer[n]], Line(n)', Line(Peer[n])'),
         Agree(n, tx[Peer[n]], remoteBlockSize[Peer[n]], rx'[n], Line(Peer[n])', Line(n)'),
         Permits(n, Line(n)'), Permits(Peer[n], Line(Peer[n])')
  PROVE  Agreement'
<1>1. Peer[n] \in Node \ {n} /\ Peer[Peer[n]] = n
  BY Facing
<1>2. AgreeAt(n)' /\ AgreeAt(Peer[n])'
  <2>1. /\ tx'[Peer[n]] = tx[Peer[n]] /\ rx'[Peer[n]] = rx[Peer[n]]
        /\ remoteBlockSize'[Peer[n]] = remoteBlockSize[Peer[n]]
    BY <1>1 DEF Alone
  <2> QED BY <1>1, <2>1 DEF AgreeAt
<1>3. ASSUME NEW k \in Node \ {n, Peer[n]} PROVE AgreeAt(k)' /\ Permits(k, Line(k))'
  <2>1. Peer[k] \in Node \ {n, Peer[n]} /\ Peer[Peer[k]] = k
    BY <1>1, Facing
  <2>2. Line(k)' = Line(k) /\ Line(Peer[k])' = Line(Peer[k])
    BY <2>1 DEF Alone, Line
  <2>3. /\ tx'[k] = tx[k] /\ rx'[Peer[k]] = rx[Peer[k]]
        /\ remoteBlockSize'[k] = remoteBlockSize[k]
    BY <2>1 DEF Alone
  <2>4. AgreeAt(k) /\ Permits(k, Line(k))
    BY DEF Agreement
  <2> QED BY <2>2, <2>3, <2>4 DEF AgreeAt
<1>4. ASSUME NEW k \in Node PROVE status'[k] = "open" /\ txAddress'[k] = "base"
  BY DEF Agreement, Alone
<1>5. Permits(n, Line(n))' /\ Permits(Peer[n], Line(Peer[n]))'
  OBVIOUS
<1>6. ASSUME NEW k \in Node PROVE AgreeAt(k)' /\ Permits(k, Line(k))'
  BY <1>2, <1>3, <1>5
<1> QED BY <1>4, <1>6 DEF Agreement

\* What the invariant says of n and its peer, taken apart.
LEMMA Between ==
  ASSUME IInv, Undisturbed, Agreement, NEW n \in Node
  PROVE  /\ Agree(Peer[n], tx[n], remoteBlockSize[n], rx[Peer[n]], Line(n), Line(Peer[n]))
         /\ Agree(n, tx[Peer[n]], remoteBlockSize[Peer[n]], rx[n], Line(Peer[n]), Line(n))
         /\ Permits(n, Line(n)) /\ Permits(Peer[n], Line(Peer[n]))
         /\ Line(n) \in Seq(Frame) /\ Line(Peer[n]) \in Seq(Frame)
         /\ status[n] = "open" /\ txAddress[n] = "base"
<1>1. Peer[n] \in Node /\ Peer[Peer[n]] = n
  BY Facing
<1>2. AgreeAt(n) /\ AgreeAt(Peer[n])
  BY <1>1 DEF Agreement
<1> QED BY <1>1, <1>2, LinesTyped DEF AgreeAt, Agreement

\* Session n queues a data frame, ...
LEMMA DataQueued ==
  ASSUME IInv, Undisturbed, Agreement, NEW n \in Node, Alone(n),
         NEW f \in Frame, f.type # "FC", txChan'[n] = Append(txChan[n], f),
         inbox'[n] = inbox[n], rx'[n] = rx[n], remoteBlockSize'[n] = remoteBlockSize[n],
         Agree(Peer[n], tx'[n], remoteBlockSize[n], rx[Peer[n]], Append(Line(n), f),
               Line(Peer[n]))
  PROVE  Agreement'
<1>1. Line(n)' = Append(Line(n), f) /\ Line(Peer[n])' = Line(Peer[n])
  BY LineSends, LineReceives
<1>2. Agree(n, tx[Peer[n]], remoteBlockSize[Peer[n]], rx[n], Line(Peer[n]), Append(Line(n), f))
  BY Between, AgreeBackAppend
<1>3. Permits(n, Append(Line(n), f)) /\ Permits(Peer[n], Line(Peer[n]))
  BY Between, PermitsAppend
<1> QED BY <1>1, <1>2, <1>3, Settle

\* ... takes a frame without answering it, ...
LEMMA FrameTaken ==
  ASSUME IInv, Undisturbed, Agreement, NEW n \in Node, Alone(n),
         inbox[n] # <<>>, inbox'[n] = Tail(inbox[n]), txChan'[n] = txChan[n],
         ~Grants(n, rx[n], Head(inbox[n])), rx'[n] = Expected(n, rx[n], Head(inbox[n])),
         \/ /\ Head(inbox[n]).type # "FC"
            /\ tx'[n] = tx[n] /\ remoteBlockSize'[n] = remoteBlockSize[n]
         \/ Agree(Peer[n], tx'[n], remoteBlockSize'[n], rx[Peer[n]], Line(n),
                  Tail(Line(Peer[n])))
  PROVE  Agreement'
<1>1. /\ Line(n)' = Line(n) /\ Line(Peer[n])' = Tail(Line(Peer[n]))
      /\ Line(Peer[n]) # <<>> /\ Head(Line(Peer[n])) = Head(inbox[n])
  BY LineSends, LineReceives
<1>2. Agree(n, tx[Peer[n]], remoteBlockSize[Peer[n]], rx'[n], Tail(Line(Peer[n])), Line(n))
  BY <1>1, Between, AgreeTaken
<1>3. Agree(Peer[n], tx'[n], remoteBlockSize'[n], rx[Peer[n]], Line(n), Tail(Line(Peer[n])))
  BY <1>1, Between, AgreeBackTail, Facing
<1>4. Permits(n, Line(n)) /\ Permits(Peer[n], Tail(Line(Peer[n])))
  BY <1>1, Between, PermitsTail, Facing
<1> QED BY <1>1, <1>2, <1>3, <1>4, Settle

\* ... or answers the frame it takes.
LEMMA FrameAnswered ==
  ASSUME IInv, Undisturbed, Agreement, NEW n \in Node, Alone(n),
         inbox[n] # <<>>, inbox'[n] = Tail(inbox[n]),
         NEW g \in Frame, g.type = "FC", g.id = "base", g.status = "CTS", g.bs = BlockSize[n],
         txChan'[n] = Append(txChan[n], g),
         Grants(n, rx[n], Head(inbox[n])), rx'[n] = Expected(n, rx[n], Head(inbox[n])),
         tx'[n] = tx[n], remoteBlockSize'[n] = remoteBlockSize[n]
  PROVE  Agreement'
<1>1. /\ Line(n)' = Append(Line(n), g) /\ Line(Peer[n])' = Tail(Line(Peer[n]))
      /\ Line(Peer[n]) # <<>> /\ Head(Line(Peer[n])) = Head(inbox[n])
  BY LineSends, LineReceives
<1>2. Agree(n, tx[Peer[n]], remoteBlockSize[Peer[n]], rx'[n], Tail(Line(Peer[n])),
            Append(Line(n), g))
  BY <1>1, Between, AgreeAnswered
<1>3. Head(inbox[n]).type # "FC" /\ g.type \notin DataTypes
  BY DEF Grants, DataTypes
<1>4. Agree(Peer[n], tx[n], remoteBlockSize[n], rx[Peer[n]], Line(n), Tail(Line(Peer[n])))
  BY <1>1, <1>3, Between, AgreeBackTail, Facing
<1>5. Agree(Peer[n], tx[n], remoteBlockSize[n], rx[Peer[n]], Append(Line(n), g),
            Tail(Line(Peer[n])))
  BY <1>3, <1>4, AgreeOther, Facing
<1>6. Permits(n, Append(Line(n), g)) /\ Permits(Peer[n], Tail(Line(Peer[n])))
  BY <1>1, Between, PermitsTail, PermitsAppend, Facing
<1> QED BY <1>1, <1>2, <1>5, <1>6, Settle

\* A frame at hand is one that is due.
LEMMA DueFrame ==
  ASSUME IInv, Undisturbed, Agreement, NEW n \in Node, inbox[n] # <<>>
  PROVE  LET f == Head(inbox[n]) IN
         /\ f \in Frame /\ Meets(rx[n], f) /\ Sound(n, rx[n])
         /\ f.type = "FC" => /\ tx[n].state = "WaitFC"
                             /\ f.id = "base" /\ f.status = "CTS" /\ f.bs = BlockSize[Peer[n]]
<1> DEFINE f == Head(inbox[n])
           p == Peer[n]
           q == Line(p)
<1>1. /\ p \in Node /\ Peer[p] = n /\ inbox[n] \in Seq(Frame) /\ txChan[p] \in Seq(Frame)
      /\ q = inbox[n] \o txChan[p]
  BY Facing, Machines DEF Line
<1>2. q \in Seq(Frame) /\ q # <<>> /\ Head(q) = f /\ f \in Frame
  <2>1. q # <<>> /\ Head(q) = f
    BY LineReceived
  <2>2. q \in Seq(Frame)
    BY <1>1, LinesTyped
  <2>3. f \in Frame
    BY RestHolds, HeadTyped
  <2> QED BY <2>1, <2>2, <2>3
<1> HIDE DEF q
<1>3. /\ Agree(n, tx[p], remoteBlockSize[p], rx[n], q, Line(n))
      /\ Agree(p, tx[n], remoteBlockSize[n], rx[p], Line(n), q)
      /\ Permits(p, q)
  BY Between DEF q
<1>4. Meets(rx[n], f) /\ Sound(n, rx[n])
  <2>1. PICK y : Foreseen(n, y, rx[n], q)
    BY <1>3 DEF Agree
  <2> QED BY <1>2, <2>1, ForeseenTail
<1>5. f.type = "FC" => tx[n].state = "WaitFC"
  <2> HAVE f.type = "FC"
  <2>1. Head(q).type = "FC"
    BY <1>2
  <2>2. /\ p \in Node /\ q # <<>>
        /\ Agree(p, tx[n], remoteBlockSize[n], rx[p], Line(n), q)
    BY <1>1, <1>2, <1>3
  <2> HIDE DEF f, p
  <2> QED BY <2>1, <2>2, AgreeGranted
<1>6. f.type = "FC" => f.id = "base" /\ f.status = "CTS" /\ f.bs = BlockSize[p]
  <2> HAVE f.type = "FC"
  <2>1. q[1] = f /\ 1 \in Answers(q)
    BY <1>2 DEF Answers
  <2> QED BY <1>3, <2>1 DEF Permits
<1> QED BY <1>2, <1>4, <1>5, <1>6

\* sendMessage of an open session queues its frame.
LEMMA SendsQueued ==
  ASSUME IInv, Agreement, NEW n \in Node, NEW f, NEW next, SendData(n, f, next)
  PROVE  /\ txChan'[n] = Append(txChan[n], f) /\ tx'[n] = next
         /\ \A k \in Node \ {n} : tx'[k] = tx[k] /\ txChan'[k] = txChan[k]
<1>1. status[n] = "open"
  BY DEF Agreement
<1>2. Queue(n, f) /\ tx' = [tx EXCEPT ![n] = next]
  BY <1>1 DEF SendData
<1>3. txChan' = [txChan EXCEPT ![n] = Append(txChan[n], f)]
  BY <1>2 DEF Queue
<1>4. txChan'[n] = Append(txChan[n], f) /\ \A k \in Node \ {n} : txChan'[k] = txChan[k]
  BY <1>3, TxChanAt
<1>5. tx'[n] = next /\ \A k \in Node \ {n} : tx'[k] = tx[k]
  BY <1>2, TxAt
<1> QED BY <1>4, <1>5

\* One lemma per handler: a single frame, a first frame, a consecutive frame.
LEMMA SingleAgrees ==
  ASSUME IInv, Undisturbed, Agreement, NEW n \in Node, SendSingleFrame(n)
  PROVE  Agreement'
<1> DEFINE m == Head(txDataChan[n])
           f == [type |-> "SF", id |-> txAddress[n], msg |-> m]
<1>1. /\ SendData(n, f, TxIdle) /\ tx[n].state = "Idle" /\ txDataChan[n] # <<>>
      /\ UNCHANGED <<remoteBlockSize, rx, txAddress, status, inbox>>
  BY DEF SendSingleFrame, rxVars
<1>2. m \in Msg /\ txAddress[n] = "base"
  BY <1>1, Machines DEF Agreement
<1>3. f \in Frame /\ f.type = "SF" /\ f.id = "base"
  BY <1>2 DEF Frame, SingleFrame, IDs
<1> HIDE DEF f
<1>4. /\ txChan'[n] = Append(txChan[n], f) /\ tx'[n] = TxIdle
      /\ \A k \in Node \ {n} : tx'[k] = tx[k] /\ txChan'[k] = txChan[k]
  BY <1>1, SendsQueued
<1>5. Alone(n)
  BY <1>1, <1>4 DEF Alone
<1>6. tx'[n].state = "Idle"
  BY <1>4 DEF TxIdle
<1>7. /\ Agree(Peer[n], tx[n], remoteBlockSize[n], rx[Peer[n]], Line(n), Line(Peer[n]))
      /\ Peer[n] \in Node
  BY Between, Facing
<1>8. Agree(Peer[n], tx'[n], remoteBlockSize[n], rx[Peer[n]], Append(Line(n), f), Line(Peer[n]))
  BY <1>1, <1>3, <1>6, <1>7, AgreeSingle
<1> QED BY <1>1, <1>3, <1>4, <1>5, <1>8, DataQueued

LEMMA FirstAgrees ==
  ASSUME IInv, Undisturbed, Agreement, NEW n \in Node, SendFirstFrame(n)
  PROVE  Agreement'
<1> DEFINE m == Head(txDataChan[n])
           f == [type |-> "FF", id |-> txAddress[n], msg |-> m]
           next == [tx[n] EXCEPT !.state = "WaitFC", !.msg = m, !.off = FirstChunk(m),
                                 !.seq = 1, !.timerFC = TRUE]
<1>1. /\ SendData(n, f, next) /\ tx[n].state = "Idle" /\ txDataChan[n] # <<>> /\ ~FitsSingle(m)
      /\ UNCHANGED <<remoteBlockSize, rx, txAddress, status, inbox>>
  BY DEF SendFirstFrame, rxVars
<1>2. m \in Msg /\ txAddress[n] = "base"
  BY <1>1, Machines DEF Agreement
<1>3. f \in Frame /\ f.type = "FF" /\ f.id = "base" /\ f.msg = m
  BY <1>1, <1>2 DEF Frame, FirstFrame, IDs
<1>4. next.state = "WaitFC" /\ next.msg = m /\ next.off = FirstChunk(m) /\ next.seq = 1
  BY Machines DEF TxMachine
<1> HIDE DEF f, next
<1>5. /\ txChan'[n] = Append(txChan[n], f) /\ tx'[n] = next
      /\ \A k \in Node \ {n} : tx'[k] = tx[k] /\ txChan'[k] = txChan[k]
  BY <1>1, SendsQueued
<1>6. Alone(n)
  BY <1>1, <1>5 DEF Alone
<1>7. /\ Agree(Peer[n], tx[n], remoteBlockSize[n], rx[Peer[n]], Line(n), Line(Peer[n]))
      /\ Peer[n] \in Node
  BY Between, Facing
<1>8. Agree(Peer[n], next, remoteBlockSize[n], rx[Peer[n]], Append(Line(n), f), Line(Peer[n]))
  BY <1>1, <1>3, <1>4, <1>7, AgreeFirst
<1> QED BY <1>1, <1>3, <1>5, <1>6, <1>8, DataQueued

LEMMA ConsecutiveAgrees ==
  ASSUME IInv, Undisturbed, Agreement, NEW n \in Node, STminFires(n)
  PROVE  Agreement'
<1> DEFINE m == tx[n].msg
           off == tx[n].off
           len == Min2(FrameLen - 1, Size[m] - off)
           f == [type |-> "CF", id |-> txAddress[n], msg |-> m,
                 sn |-> tx[n].seq, off |-> off, len |-> len]
           u == AfterConsecutiveFrame(n, off + len)
<1>1. /\ tx[n] \in TxMachine /\ tx[n].state = "Transmit" /\ m \in Msg /\ off < Size[m]
      /\ off \in Nat /\ Size[m] \in Nat /\ tx[n].seq \in 0..(SeqMod - 1)
  BY Machines, MsgAssumption DEF STminFires, TxGood, TxMachine
<1>2. txAddress[n] = "base" /\ remoteBlockSize[n] \in 0..255
  BY DEF Agreement, IInv, TypeOK
<1>3. /\ SendData(n, f, u) /\ UNCHANGED <<remoteBlockSize, rx, txAddress, status, inbox>>
  BY <1>1 DEF STminFires, rxVars, appVars
<1>4. len \in 0..(FrameLen - 1) /\ len = ChunkAt(m, off)
  BY <1>1, ChunkFits DEF ChunkAt
<1> HIDE DEF len
<1>5. /\ f \in Frame /\ f.type = "CF" /\ f.id = "base" /\ f.msg = m /\ f.off = off
      /\ f.sn = tx[n].seq /\ f.len = len
  BY <1>1, <1>2, <1>4 DEF Frame, ConsecutiveFrame, IDs
<1>6. IF off + len = Size[m] THEN u.state = "Idle"
      ELSE /\ u.msg = m /\ u.off = off + len /\ u.seq = (tx[n].seq + 1) % SeqMod
           /\ u.block = tx[n].block + 1
           /\ u.state = IF remoteBlockSize[n] > 0 /\ tx[n].block + 1 >= remoteBlockSize[n]
                        THEN "WaitFC" ELSE "Transmit"
  <2> DEFINE s == (tx[n].seq + 1) % SeqMod
             next == [tx[n] EXCEPT !.off = off + len, !.seq = s, !.block = @ + 1,
                                   !.timerST = FALSE]
  <2>1. u = IF off + len = Size[m] THEN TxIdle
            ELSE IF BlockSent(n, next.block) THEN AwaitFlowControl(next)
            ELSE [next EXCEPT !.timerST = TRUE]
    BY DEF AfterConsecutiveFrame
  <2> HIDE DEF s, u
  <2>2. /\ next.msg = m /\ next.off = off + len /\ next.seq = s
        /\ next.block = tx[n].block + 1 /\ next.state = "Transmit"
    BY <1>1 DEF TxMachine
  <2>3. /\ AwaitFlowControl(next).msg = m /\ AwaitFlowControl(next).off = off + len
        /\ AwaitFlowControl(next).seq = s
        /\ AwaitFlowControl(next).block = tx[n].block + 1
        /\ AwaitFlowControl(next).state = "WaitFC"
    BY <1>1 DEF TxMachine, AwaitFlowControl
  <2> DEFINE go == [next EXCEPT !.timerST = TRUE]
  <2>4. /\ go.msg = m /\ go.off = off + len /\ go.seq = s
        /\ go.block = tx[n].block + 1 /\ go.state = "Transmit"
    BY <1>1 DEF TxMachine
  <2> HIDE DEF next, go
  <2>5. u = IF off + len = Size[m] THEN TxIdle
            ELSE IF BlockSent(n, tx[n].block + 1) THEN AwaitFlowControl(next) ELSE go
    BY <2>1, <2>2 DEF go
  <2>6. TxIdle.state = "Idle"
    BY DEF TxIdle
  <2>7. CASE off + len = Size[m]
    BY <2>5, <2>6, <2>7
  <2>8. CASE off + len # Size[m] /\ BlockSent(n, tx[n].block + 1)
    BY <2>3, <2>5, <2>8 DEF BlockSent, s
  <2>9. CASE off + len # Size[m] /\ ~BlockSent(n, tx[n].block + 1)
    BY <2>4, <2>5, <2>9 DEF BlockSent, s
  <2> QED BY <2>7, <2>8, <2>9
<1> HIDE DEF f, u
<1>7. /\ txChan'[n] = Append(txChan[n], f) /\ tx'[n] = u
      /\ \A k \in Node \ {n} : tx'[k] = tx[k] /\ txChan'[k] = txChan[k]
  BY <1>3, SendsQueued
<1>8. Alone(n)
  BY <1>3, <1>7 DEF Alone
<1>9. /\ Agree(Peer[n], tx[n], remoteBlockSize[n], rx[Peer[n]], Line(n), Line(Peer[n]))
      /\ Peer[n] \in Node
  BY Between, Facing
<1>10. Agree(Peer[n], u, remoteBlockSize[n], rx[Peer[n]], Append(Line(n), f), Line(Peer[n]))
  <2>1. f.len = ChunkAt(f.msg, f.off) /\ f.off = tx[n].off
    BY <1>4, <1>5
  <2>2. IF f.off + f.len = Size[f.msg] THEN u.state = "Idle"
        ELSE /\ u.msg = m /\ u.off = f.off + f.len /\ u.seq = (tx[n].seq + 1) % SeqMod
             /\ u.block = tx[n].block + 1
             /\ u.state = IF remoteBlockSize[n] > 0 /\ tx[n].block + 1 >= remoteBlockSize[n]
                          THEN "WaitFC" ELSE "Transmit"
    BY <1>5, <1>6, Zenon
  <2> QED BY <1>1, <1>5, <1>9, <2>1, <2>2, AgreeConsecutive
<1> QED BY <1>3, <1>5, <1>7, <1>8, <1>10, DataQueued

\* Neither timer that waits for the peer cuts a transfer short ...
LEMMA QuietLines ==
  ASSUME IInv, Undisturbed, Agreement, NEW n \in Node, Quiet(n)
  PROVE  Line(n) = <<>> /\ Line(Peer[n]) = <<>>
<1>1. Peer[n] \in Node /\ Peer[Peer[n]] = n
  BY Facing
<1> QED BY <1>1 DEF Quiet, Line

LEMMA TimeoutAgrees ==
  ASSUME IInv, Undisturbed, Agreement, NEW n \in Node, FlowControlTimeout(n)
  PROVE  Agreement'
<1>1. /\ Quiet(n) /\ tx' = [tx EXCEPT ![n] = TxIdle] /\ tx[n].timerFC
      /\ UNCHANGED <<remoteBlockSize, rx, txAddress, status, inbox, txChan>>
  BY DEF FlowControlTimeout, Undisturbed, rxVars, appVars
<1>2. tx'[n] = TxIdle /\ \A k \in Node \ {n} : tx'[k] = tx[k]
  BY <1>1, TxAt
<1>3. Alone(n)
  BY <1>1, <1>2 DEF Alone
<1>4. tx[n].state = "WaitFC"
  BY <1>1, Machines DEF TxGood
<1>5. Line(n) = <<>> /\ Line(Peer[n]) = <<>> /\ Line(n)' = Line(n) /\ Line(Peer[n])' = Line(Peer[n])
  BY <1>1, <1>3, QuietLines, LineSends, LineReceives
<1>6. TxIdle.state = "Idle"
  BY DEF TxIdle
<1>7. Agree(Peer[n], tx[n], remoteBlockSize[n], rx[Peer[n]], <<>>, <<>>) /\ Peer[n] \in Node
  BY <1>5, Between, Facing
<1>8. Agree(Peer[n], tx'[n], remoteBlockSize'[n], rx[Peer[n]], Line(n), Line(Peer[n]))
  BY <1>1, <1>2, <1>4, <1>5, <1>6, <1>7, AgreeEnded
<1>9. /\ Agree(n, tx[Peer[n]], remoteBlockSize[Peer[n]], rx'[n], Line(Peer[n]), Line(n))
      /\ Permits(n, Line(n)) /\ Permits(Peer[n], Line(Peer[n]))
  BY <1>1, Between
<1> QED BY <1>3, <1>5, <1>8, <1>9, Settle

\* ... and that for the next consecutive frame does not even run out.
LEMMA NeverMissed ==
  ASSUME IInv, Undisturbed, Agreement, NEW n \in Node
  PROVE  ~ConsecutiveFrameTimeout(n)
<1> SUFFICES ASSUME ConsecutiveFrameTimeout(n) PROVE FALSE
  OBVIOUS
<1>1. Quiet(n) /\ rx[n].timerCF
  BY DEF ConsecutiveFrameTimeout, Undisturbed
<1>2. rx[n].state = "WaitCF" /\ tx[Peer[n]].state # "Transmit"
  BY <1>1, Machines DEF RxGood, Quiet
<1>3. Agree(n, tx[Peer[n]], remoteBlockSize[Peer[n]], rx[n], <<>>, <<>>)
  BY <1>1, QuietLines, Between
<1> QED BY <1>2, <1>3, AgreeEnded

\* The application does not touch what is under way.
LEMMA AppAgrees ==
  ASSUME IInv, Undisturbed, Agreement, NEW n \in Node, App(n)
  PROVE  Agreement'
<1>1. UNCHANGED <<tx, remoteBlockSize, rx, inbox, txChan, status, txAddress>>
  BY DEF App, SendContext, SetTxAddress, Receive, ReadError, Undisturbed, Lossless, rxVars,
         txVars, appVars
<1> QED BY <1>1 DEF Agreement, AgreeAt, Line

\* A step of the receive machine that queues nothing leaves the other ends alone.
LEMMA TakesAlone ==
  ASSUME IInv, NEW n \in Node, NEW type, NextFrame(n, type),
         UNCHANGED <<tx, remoteBlockSize, txChan, status, txAddress>>,
         NEW r, (rx' = rx /\ r = rx[n]) \/ rx' = [rx EXCEPT ![n] = r]
  PROVE  Alone(n) /\ rx'[n] = r
<1>1. \A k \in Node \ {n} : inbox'[k] = inbox[k]
  BY NextFrameShape
<1>2. rx'[n] = r /\ \A k \in Node \ {n} : rx'[k] = rx[k]
  <2>1. CASE rx' = rx /\ r = rx[n]
    BY <2>1
  <2>2. CASE rx' = [rx EXCEPT ![n] = r]
    BY <2>2, RxAt
  <2> QED BY <2>1, <2>2
<1> QED BY <1>1, <1>2 DEF Alone

\* The frame is for no machine.
LEMMA IgnoredAgrees ==
  ASSUME IInv, Undisturbed, Agreement, NEW n \in Node, RxForeign(n) \/ RxBad(n)
  PROVE  Agreement'
<1> DEFINE f == Head(inbox[n])
<1>1. /\ inbox[n] # <<>> /\ inbox' = [inbox EXCEPT ![n] = Tail(inbox[n])]
      /\ UNCHANGED <<tx, remoteBlockSize, rx, txChan, status, txAddress>>
      /\ f.id # "base" \/ f.type = "BAD"
  BY DEF RxForeign, RxBad, NextFrame, txVars, rxVars, appVars
<1>2. inbox'[n] = Tail(inbox[n]) /\ \A k \in Node \ {n} : inbox'[k] = inbox[k]
  BY <1>1, InboxAt
<1>3. Alone(n)
  BY <1>1, <1>2 DEF Alone
<1>4. Meets(rx[n], f) /\ (f.type = "FC" => f.id = "base")
  BY <1>1, DueFrame
<1>5. f.type \notin DataTypes /\ f.type # "FC"
  BY <1>1, <1>4 DEF Meets, DataTypes
<1>6. ~Grants(n, rx[n], f) /\ Expected(n, rx[n], f) = rx[n]
  BY <1>5 DEF Grants, Expected, DataTypes
<1> QED BY <1>1, <1>2, <1>3, <1>5, <1>6, FrameTaken

\* Flow control finds its sender waiting and lets it go on.
LEMMA FlowControlAgrees ==
  ASSUME IInv, Undisturbed, Agreement, NEW n \in Node,
         RxLateFlowControl(n) \/ RxContinueToSend(n) \/ RxWait(n) \/ RxOverflow(n)
  PROVE  Agreement'
<1> DEFINE f == Head(inbox[n])
           u == [tx[n] EXCEPT !.state = "Transmit", !.block = 0, !.wait = 0,
                              !.timerFC = FALSE, !.timerST = TRUE]
<1>1. NextFrame(n, "FC")
  BY DEF RxLateFlowControl, RxContinueToSend, RxWait, RxOverflow, FlowControl
<1>2. /\ inbox[n] # <<>> /\ inbox'[n] = Tail(inbox[n]) /\ f.type = "FC"
      /\ \A k \in Node \ {n} : inbox'[k] = inbox[k]
  BY <1>1, NextFrameShape
<1>3. tx[n].state = "WaitFC" /\ f.status = "CTS" /\ f.bs = BlockSize[Peer[n]]
  BY <1>2, DueFrame
<1>4. RxContinueToSend(n)
  BY <1>3 DEF RxLateFlowControl, RxWait, RxOverflow, FlowControl
<1>5. /\ remoteBlockSize' = [remoteBlockSize EXCEPT ![n] = f.bs] /\ tx' = [tx EXCEPT ![n] = u]
      /\ UNCHANGED <<rx, txChan, status, txAddress>>
  BY <1>4 DEF RxContinueToSend, rxVars, appVars
<1>6. /\ u.state = "Transmit" /\ u.block = 0
      /\ u.msg = tx[n].msg /\ u.off = tx[n].off /\ u.seq = tx[n].seq
  BY Machines DEF TxMachine
<1> HIDE DEF u
<1>7. tx'[n] = u /\ \A k \in Node \ {n} : tx'[k] = tx[k]
  BY <1>5, TxAt
<1>8. /\ remoteBlockSize'[n] = BlockSize[Peer[n]]
      /\ \A k \in Node \ {n} : remoteBlockSize'[k] = remoteBlockSize[k]
  BY <1>3, <1>5 DEF IInv, TypeOK
<1>9. Alone(n)
  BY <1>2, <1>5, <1>7, <1>8 DEF Alone
<1>10. ~Grants(n, rx[n], f) /\ rx'[n] = Expected(n, rx[n], f)
  BY <1>2, <1>5 DEF Grants, Expected
<1>11. /\ Line(Peer[n]) # <<>> /\ Head(Line(Peer[n])).type = "FC" /\ Peer[n] \in Node
       /\ Agree(Peer[n], tx[n], remoteBlockSize[n], rx[Peer[n]], Line(n), Line(Peer[n]))
  BY <1>2, LineReceived, Between, Facing
<1>12. Agree(Peer[n], u, BlockSize[Peer[n]], rx[Peer[n]], Line(n), Tail(Line(Peer[n])))
  BY <1>6, <1>11, AgreeGranted
<1> QED BY <1>2, <1>5, <1>7, <1>8, <1>9, <1>10, <1>12, FrameTaken

\* A payload that needs no answer, or is too large for one.
LEMMA UnansweredAgrees ==
  ASSUME IInv, Undisturbed, Agreement, NEW n \in Node,
         RxSingleFrame(n) \/ RxFirstFrameTooLarge(n)
  PROVE  Agreement'
<1> DEFINE f == Head(inbox[n])
<1>1. /\ NextFrame(n, "SF") \/ (NextFrame(n, "FF") /\ Size[f.msg] > MaxPayloadSize[n])
      /\ rx' = [rx EXCEPT ![n] = RxIdle]
      /\ UNCHANGED <<tx, remoteBlockSize, txChan, status, txAddress>>
  BY DEF RxSingleFrame, RxFirstFrameTooLarge, txVars, appVars
<1>2. /\ inbox[n] # <<>> /\ inbox'[n] = Tail(inbox[n])
      /\ f.type = "SF" \/ (f.type = "FF" /\ Size[f.msg] > MaxPayloadSize[n])
  BY <1>1, NextFrameShape
<1>3. Alone(n) /\ rx'[n] = RxIdle
  BY <1>1, TakesAlone
<1>4. f \in Frame
  BY <1>2, DueFrame
<1>5. f.type = "FF" => ~AcceptsSize(n, f.msg)
  <2> HAVE f.type = "FF"
  <2>1. Size[f.msg] \in Nat /\ MaxPayloadSize[n] \in Nat
    BY <1>4, Kinds, MsgAssumption, ConfigAssumption
  <2> QED BY <1>2, <2>1 DEF AcceptsSize
<1>6. ~Grants(n, rx[n], f) /\ Expected(n, rx[n], f) = RxIdle
  BY <1>2, <1>5 DEF Grants, Expected
<1>7. /\ f.type # "FC" /\ tx'[n] = tx[n]
      /\ remoteBlockSize'[n] = remoteBlockSize[n] /\ txChan'[n] = txChan[n]
  BY <1>1, <1>2
<1> QED BY <1>2, <1>3, <1>6, <1>7, FrameTaken

\* An open session that answers by itself queues the answer.
LEMMA AnswerQueued ==
  ASSUME IInv, Undisturbed, Agreement, NEW n \in Node, NEW next, SendFlowControl(n, next)
  PROVE  \E g \in Frame :
           /\ g.type = "FC" /\ g.id = "base" /\ g.status = "CTS" /\ g.bs = BlockSize[n]
           /\ txChan'[n] = Append(txChan[n], g) /\ rx'[n] = next
           /\ \A k \in Node \ {n} : rx'[k] = rx[k] /\ txChan'[k] = txChan[k]
<1> DEFINE g == [type |-> "FC", id |-> "base", status |-> "CTS", bs |-> BlockSize[n]]
<1>1. g \in Frame /\ g.type = "FC" /\ g.id = "base" /\ g.status = "CTS" /\ g.bs = BlockSize[n]
  BY ConfigAssumption DEF Frame, FlowControlFrame, IDs, Statuses
<1>2. status[n] = "open" /\ ~ManualFlowControl[n]
  BY DEF Agreement, Undisturbed
<1>3. Queue(n, g) /\ rx' = [rx EXCEPT ![n] = next]
  BY <1>2 DEF SendFlowControl
<1> HIDE DEF g
<1>4. txChan' = [txChan EXCEPT ![n] = Append(txChan[n], g)]
  BY <1>3 DEF Queue
<1>5. txChan'[n] = Append(txChan[n], g) /\ \A k \in Node \ {n} : txChan'[k] = txChan[k]
  BY <1>4, TxChanAt
<1>6. rx'[n] = next /\ \A k \in Node \ {n} : rx'[k] = rx[k]
  BY <1>3, RxAt
<1> QED BY <1>1, <1>5, <1>6

LEMMA AnsweredAgrees ==
  ASSUME IInv, Undisturbed, Agreement, NEW n \in Node, NEW type, NextFrame(n, type), NEW next,
         SendFlowControl(n, next), Grants(n, rx[n], Head(inbox[n])),
         next = Expected(n, rx[n], Head(inbox[n])),
         UNCHANGED <<tx, remoteBlockSize, status, txAddress>>
  PROVE  Agreement'
<1>1. /\ inbox[n] # <<>> /\ inbox'[n] = Tail(inbox[n])
      /\ \A k \in Node \ {n} : inbox'[k] = inbox[k]
  BY NextFrameShape
<1>2. PICK g \in Frame :
           /\ g.type = "FC" /\ g.id = "base" /\ g.status = "CTS" /\ g.bs = BlockSize[n]
           /\ txChan'[n] = Append(txChan[n], g) /\ rx'[n] = next
           /\ \A k \in Node \ {n} : rx'[k] = rx[k] /\ txChan'[k] = txChan[k]
  BY AnswerQueued
<1>3. Alone(n)
  BY <1>1, <1>2 DEF Alone
<1> QED BY <1>1, <1>2, <1>3, FrameAnswered

\* The first frame of a payload that fits.
LEMMA FirstTakenAgrees ==
  ASSUME IInv, Undisturbed, Agreement, NEW n \in Node, RxFirstFrame(n)
  PROVE  Agreement'
<1> DEFINE f == Head(inbox[n])
<1>1. /\ NextFrame(n, "FF") /\ AcceptsSize(n, f.msg) /\ SendFlowControl(n, Reception(n, f.msg))
      /\ UNCHANGED <<tx, remoteBlockSize, status, txAddress>>
  BY DEF RxFirstFrame, txVars, appVars
<1>2. f.type = "FF"
  BY <1>1, NextFrameShape
<1>3. Grants(n, rx[n], f) /\ Reception(n, f.msg) = Expected(n, rx[n], f)
  BY <1>1, <1>2 DEF Grants, Expected
<1> QED BY <1>1, <1>3, AnsweredAgrees

\* A consecutive frame at hand continues the reception ...
LEMMA Continued ==
  ASSUME IInv, Undisturbed, Agreement, NEW n \in Node, NextFrame(n, "CF")
  PROVE  LET f == Head(inbox[n]) IN
         /\ rx[n].state = "WaitCF" /\ f.sn = rx[n].seq
         /\ Appended(n, f) = [rx[n] EXCEPT !.len = @ + f.len, !.seq = (@ + 1) % SeqMod,
                                           !.timerCF = TRUE]
         /\ Appended(n, f).len <= rx[n].frameLen
         /\ rx[n].frameLen \in Nat /\ Appended(n, f).len \in Nat
<1> DEFINE f == Head(inbox[n])
           a == Appended(n, f)
<1>1. f.type = "CF" /\ inbox[n] # <<>>
  BY NextFrameShape
<1>2. f \in Frame /\ Meets(rx[n], f) /\ Sound(n, rx[n]) /\ rx[n] \in RxMachine
  BY <1>1, DueFrame, Machines
<1>3. /\ rx[n].state = "WaitCF" /\ rx[n].msg = f.msg /\ rx[n].len = f.off
      /\ rx[n].seq = f.sn /\ f.len = ChunkAt(f.msg, f.off)
  BY <1>1, <1>2 DEF Meets
<1>4. f.msg \in Msg /\ rx[n].frameLen = Size[f.msg]
  BY <1>2, <1>3 DEF Sound, RxIdle
<1>5. a.msg = f.msg /\ a.len = f.off + f.len /\ f.off + f.len <= Size[f.msg]
  BY <1>1, <1>2, <1>3, <1>4, WholeChunk
<1>6. Size[f.msg] \in Nat /\ f.off + f.len \in Nat
  BY <1>1, <1>2, NextPortion
<1>7. \E m, l : a = [rx[n] EXCEPT !.msg = m, !.len = l, !.seq = (@ + 1) % SeqMod, !.timerCF = TRUE]
  BY DEF Appended
<1> HIDE DEF a
<1>8. PICK m, l :
        a = [rx[n] EXCEPT !.msg = m, !.len = l, !.seq = (@ + 1) % SeqMod, !.timerCF = TRUE]
  BY <1>7
<1>9. m = rx[n].msg /\ l = rx[n].len + f.len
  BY <1>2, <1>3, <1>5, <1>8 DEF RxMachine
<1>10. a = [rx[n] EXCEPT !.len = @ + f.len, !.seq = (@ + 1) % SeqMod, !.timerCF = TRUE]
  BY <1>2, <1>8, <1>9 DEF RxMachine
<1> QED BY <1>3, <1>4, <1>5, <1>6, <1>10 DEF a

\* ... and so neither is stray nor comes out of sequence.
LEMMA ConsecutiveTakenAgrees ==
  ASSUME IInv, Undisturbed, Agreement, NEW n \in Node,
         \/ RxStrayConsecutiveFrame(n) \/ RxWrongSequence(n)
         \/ RxLastConsecutiveFrame(n) \/ RxConsecutiveFrame(n)
  PROVE  Agreement'
<1> DEFINE f == Head(inbox[n])
           a == Appended(n, f)
<1>1. NextFrame(n, "CF")
  BY DEF RxStrayConsecutiveFrame, RxWrongSequence, RxLastConsecutiveFrame, RxConsecutiveFrame,
         InSequence
<1>2. f.type = "CF" /\ inbox[n] # <<>> /\ inbox'[n] = Tail(inbox[n])
  BY <1>1, NextFrameShape
<1>3. /\ rx[n].state = "WaitCF" /\ f.sn = rx[n].seq
      /\ a = [rx[n] EXCEPT !.len = @ + f.len, !.seq = (@ + 1) % SeqMod, !.timerCF = TRUE]
      /\ a.len <= rx[n].frameLen /\ rx[n].frameLen \in Nat /\ a.len \in Nat
  BY <1>1, Continued
<1>4. RxLastConsecutiveFrame(n) \/ RxConsecutiveFrame(n)
  BY <1>3 DEF RxStrayConsecutiveFrame, RxWrongSequence
<1>5. /\ a.frameLen = rx[n].frameLen /\ a.len = rx[n].len + f.len /\ a.block = rx[n].block
      /\ a \in RxMachine
  <2>1. a.frameLen = rx[n].frameLen /\ a.len = rx[n].len + f.len /\ a.block = rx[n].block
    BY <1>3, Machines DEF RxMachine
  <2>2. f \in Frame
    BY <1>2, DueFrame
  <2>3. a \in RxMachine
    <3>1. Running(n)
      BY DEF Agreement, Running
    <3> QED BY <1>2, <1>3, <2>2, <3>1, AppendedTyped
  <2> QED BY <2>1, <2>3
<1>6. Expected(n, rx[n], f) = IF a.len = rx[n].frameLen THEN RxIdle
                              ELSE [a EXCEPT !.block = IF BlockReceived(n, a.block + 1) THEN 0
                                                       ELSE a.block + 1]
  BY <1>2, <1>3 DEF Expected
<1>7. UNCHANGED <<tx, remoteBlockSize, status, txAddress>>
  BY <1>4 DEF RxLastConsecutiveFrame, RxConsecutiveFrame, txVars, appVars
<1> DEFINE e == Expected(n, rx[n], f)
<1> HIDE DEF a, e
<1>8. CASE RxLastConsecutiveFrame(n)
  <2>1. a.len >= a.frameLen /\ rx' = [rx EXCEPT ![n] = RxIdle] /\ txChan' = txChan
    BY <1>8 DEF RxLastConsecutiveFrame, a
  <2>2. a.len = rx[n].frameLen
    BY <1>3, <1>5, <2>1
  <2>3. e = RxIdle /\ ~Grants(n, rx[n], f)
    BY <1>2, <1>3, <1>5, <1>6, <2>2 DEF Grants, e
  <2>4. Alone(n) /\ rx'[n] = RxIdle
    BY <1>1, <1>7, <2>1, TakesAlone
  <2> QED BY <1>2, <1>7, <2>1, <2>3, <2>4, FrameTaken DEF e
<1>9. CASE RxConsecutiveFrame(n)
  <2>1. /\ a.len < a.frameLen
        /\ IF BlockReceived(n, a.block + 1) THEN SendFlowControl(n, [a EXCEPT !.block = 0])
           ELSE rx' = [rx EXCEPT ![n] = [a EXCEPT !.block = a.block + 1]] /\ txChan' = txChan
    BY <1>9 DEF RxConsecutiveFrame, a
  <2>2. a.len # rx[n].frameLen /\ rx[n].len + f.len < rx[n].frameLen
    BY <1>3, <1>5, <2>1
  <2>3. CASE BlockReceived(n, a.block + 1)
    <3>1. Grants(n, rx[n], f)
      BY <1>2, <1>5, <2>2, <2>3 DEF Grants
    <3>2. [a EXCEPT !.block = 0] = e
      BY <1>6, <2>2, <2>3 DEF e
    <3> QED BY <1>1, <1>7, <2>1, <2>3, <3>1, <3>2, AnsweredAgrees DEF e
  <2>4. CASE ~BlockReceived(n, a.block + 1)
    <3>1. ~Grants(n, rx[n], f)
      BY <1>2, <1>5, <2>4 DEF Grants
    <3>2. [a EXCEPT !.block = a.block + 1] = e
      BY <1>6, <2>2, <2>4 DEF e
    <3>3. rx' = [rx EXCEPT ![n] = e] /\ txChan' = txChan
      BY <2>1, <2>4, <3>2
    <3>4. Alone(n) /\ rx'[n] = e
      BY <1>1, <1>7, <3>3, TakesAlone
    <3> QED BY <1>2, <1>7, <3>1, <3>3, <3>4, FrameTaken DEF e
  <2> QED BY <2>3, <2>4
<1> QED BY <1>4, <1>8, <1>9

\* On the bus a frame moves along its line.
LEMMA TransferAgrees ==
  ASSUME IInv, Undisturbed, Agreement, NEW n \in Node, Transfer(n)
  PROVE  Agreement'
<1> DEFINE p == Peer[n]
<1>1. p \in Node /\ Peer[p] = n /\ p # n
  BY Facing
<1>2. /\ txChan[n] # <<>> /\ txChan' = [txChan EXCEPT ![n] = Tail(txChan[n])]
      /\ inbox' = [inbox EXCEPT ![p] = Append(inbox[p], Head(txChan[n]))]
      /\ UNCHANGED <<tx, remoteBlockSize, rx, status, txAddress>>
  BY <1>1 DEF Transfer, TakeFrame, Agreement, txVars, rxVars, appVars
<1>3. txChan'[n] = Tail(txChan[n]) /\ \A k \in Node \ {n} : txChan'[k] = txChan[k]
  BY <1>2, TxChanAt
<1>4. /\ inbox'[p] = Append(inbox[p], Head(txChan[n]))
      /\ \A k \in Node \ {p} : inbox'[k] = inbox[k]
  BY <1>1, <1>2, InboxAt
<1>5. Line(n)' = Line(n)
  <2>1. inbox[p] \in Seq(Frame) /\ txChan[n] \in Seq(Frame)
    BY <1>1, Machines
  <2>2. Append(inbox[p], Head(txChan[n])) \o Tail(txChan[n]) = inbox[p] \o txChan[n]
    BY <1>2, <2>1, LineMove
  <2> QED BY <1>3, <1>4, <2>2 DEF Line
<1>6. ASSUME NEW k \in Node PROVE Line(k)' = Line(k)
  <2>1. CASE k = n
    BY <1>5, <2>1
  <2>2. CASE k # n
    <3>1. Peer[k] \in Node \ {p}
      BY <1>1, <2>2, Facing
    <3> QED BY <1>3, <1>4, <2>2, <3>1 DEF Line
  <2> QED BY <2>1, <2>2
<1> QED BY <1>2, <1>6, Facing DEF Agreement, AgreeAt

\* The invariant holds at the start and is kept by every step.
LEMMA AgreementBegins == ASSUME Undisturbed, Init PROVE Agreement
<1> SUFFICES ASSUME NEW n \in Node
             PROVE  status[n] = "open" /\ txAddress[n] = "base" /\ Permits(n, Line(n)) /\ AgreeAt(n)
  BY DEF Agreement
<1>1. Peer[n] \in Node /\ Peer[Peer[n]] = n
  BY Facing
<1>2. Line(n) = <<>> /\ Line(Peer[n]) = <<>>
  BY <1>1 DEF Init, Line
<1>3. Answers(<<>>) = {} /\ Portions(<<>>) = {} /\ Cardinality({}) = 0
  BY FS_EmptySet DEF Answers, Portions
<1>4. status[n] = "open" /\ txAddress[n] = "base" /\ tx[n] = TxIdle /\ rx[Peer[n]] = RxIdle
  BY <1>1 DEF Init
<1> DEFINE y == <<RxIdle>>
<1>5. y \in Seq(RxMachine) /\ Len(y) = 1 /\ y[1] = RxIdle
  BY RxIdleTyped
<1> HIDE DEF y
<1>6. Foreseen(Peer[n], y, RxIdle, <<>>)
  BY <1>5 DEF Foreseen, Sound
<1>7. Unanswered(Peer[n], TxIdle, y, <<>>, <<>>)
  BY <1>3, <1>5 DEF Unanswered, TxIdle, Silent
<1>8. BlockSize[Peer[n]] > 0 => RxIdle.block + Cardinality(Portions(<<>>)) <= BlockSize[Peer[n]]
  <2>1. BlockSize[Peer[n]] \in 0..255
    BY <1>1, ConfigAssumption
  <2>2. RxIdle.block = 0 /\ Cardinality(Portions(<<>>)) = 0
    BY <1>3 DEF RxIdle
  <2> DEFINE c == Cardinality(Portions(<<>>))
             d == RxIdle.block
  <2>3. c = 0 /\ d = 0
    BY <2>2
  <2> HIDE DEF c, d
  <2>4. BlockSize[Peer[n]] > 0 => d + c <= BlockSize[Peer[n]]
    BY <2>1, <2>3
  <2> QED BY <2>4 DEF c, d
<1>9. Agree(Peer[n], TxIdle, remoteBlockSize[n], RxIdle, <<>>, <<>>)
  BY <1>6, <1>7, <1>8 DEF Agree
<1> QED BY <1>2, <1>3, <1>4, <1>9 DEF AgreeAt, Permits

LEMMA AgreementStep ==
  ASSUME Undisturbed, IInv, Agreement, [Next]_vars
  PROVE  Agreement'
<1>1. CASE UNCHANGED vars
  BY <1>1 DEF vars, txVars, rxVars, appVars, Agreement, AgreeAt, Line
<1>2. ASSUME NEW n \in Node, Run(n) PROVE Agreement'
  <2>1. CASE InitiateTx(n) \/ STminFires(n)
    BY <2>1, SingleAgrees, FirstAgrees, ConsecutiveAgrees DEF InitiateTx
  <2>2. CASE Timeouts(n)
    BY <2>2, TimeoutAgrees, NeverMissed DEF Timeouts
  <2>3. CASE ProcessRx(n)
    BY <2>3, IgnoredAgrees, FlowControlAgrees, UnansweredAgrees, FirstTakenAgrees,
       ConsecutiveTakenAgrees DEF ProcessRx
  <2> QED BY <1>2, <2>1, <2>2, <2>3 DEF Run
<1>3. ASSUME NEW n \in Node PROVE ~FinishClose(n)
  BY DEF FinishClose, Agreement
<1>4. ASSUME NEW n \in Node, Bus(n) PROVE Agreement'
  <2>1. ~DropAtSubscriber(n) /\ ~Lose(n) /\ ~SendFails(n) /\ ~\E f \in InjectFrames : Inject(n, f)
    BY DEF Undisturbed, Lossless, DropAtSubscriber, Lose, SendFails, Inject, IInv, TypeOK
  <2> QED BY <1>4, <2>1, TransferAgrees DEF Bus
<1> QED BY <1>1, <1>2, <1>3, <1>4, AppAgrees DEF Next

\* While nothing comes between them, the two ends agree about every transfer: the
\* inductive invariant of what follows.
THEOREM AgreementHolds == ASSUME Undisturbed PROVE Spec => [](IInv /\ Agreement)
<1>1. Init => IInv /\ Agreement
  BY InitIInv, AgreementBegins
<1>2. (IInv /\ Agreement) /\ [Next]_vars => (IInv /\ Agreement)'
  BY Inductive, AgreementStep
<1> QED BY <1>1, <1>2, PTL DEF Spec

\* handleTxTransmit never sends beyond the block the receiver last granted: with the
\* frames under way the receiver counts no more than its BlockSize before it answers.
THEOREM CreditIsKept == ASSUME Undisturbed PROVE Spec => []FlowControlCredit
<1>1. IInv /\ Agreement => FlowControlCredit
  <2> SUFFICES ASSUME IInv, Agreement, NEW n \in Node, BlockSize[n] > 0
               PROVE  rx[n].block + ConsecutiveFramesTo(n) <= BlockSize[n]
    BY DEF FlowControlCredit
  <2>1. Agree(n, tx[Peer[n]], remoteBlockSize[Peer[n]], rx[n], Line(Peer[n]), Line(n))
    BY Between
  <2>2. rx[n].block + Cardinality(Portions(Line(Peer[n]))) <= BlockSize[n]
    BY <2>1 DEF Agree
  <2> QED BY <2>2, CountLine
<1> QED BY <1>1, AgreementHolds, PTL

\* The two machines of a transfer never wait for each other: when nothing is under way, a
\* sender waiting for flow control does not face a receiver waiting for a frame.
THEOREM NeitherWaitsForTheOther == ASSUME Undisturbed PROVE Spec => []NoMutualWait
<1>1. IInv /\ Agreement => NoMutualWait
  <2> SUFFICES ASSUME IInv, Agreement, NEW n \in Node,
                      \A k \in Node : txChan[k] = <<>> /\ inbox[k] = <<>>,
                      tx[n].state = "WaitFC"
               PROVE  rx[Peer[n]].state # "WaitCF"
    BY DEF NoMutualWait
  <2>1. Peer[n] \in Node /\ Line(n) = <<>> /\ Line(Peer[n]) = <<>>
    BY Facing DEF Line
  <2>2. Agree(Peer[n], tx[n], remoteBlockSize[n], rx[Peer[n]], <<>>, <<>>)
    BY <2>1, Between
  <2> QED BY <2>1, <2>2, AgreeEnded
<1> QED BY <1>1, AgreementHolds, PTL

-----------------------------------------------------------------------------
\* The two ends are different sessions.
Apart == \A n \in Node : Peer[n] # n

\* The place of payload m among the payloads s of one end.
Pos(s, m) == CHOOSE i \in 1..Len(s) : s[i] = m

\* m is one of the first h payloads of s, those whose first frame has been built.
Begun(s, h, m) == Pos(s, m) \in 1..h /\ s[Pos(s, m)] = m

Distinct(s) == \A i, j \in 1..Len(s) : s[i] = s[j] => i = j

\* f carries the beginning, or the end, of its payload.
Opens(f) == f.type \in {"SF", "FF"}
Ends(f) == f.type = "SF" \/ (f.type = "CF" /\ f.off + f.len = Size[f.msg])

\* Transmit machine t has payload m in hand; receive machine r is inside it.
InHand(t, m) == t.state # "Idle" /\ t.msg = m
Inside(r, m) == r.state = "WaitCF" /\ r.msg = m

\* Payload m comes before each payload that begins in q; none of q's frames ends it.
Precedes(s, m, q) == \A k \in 1..Len(q) : Opens(q[k]) => Pos(s, m) < Pos(s, q[k].msg)
EndsNot(q, m) == \A k \in 1..Len(q) : Ends(q[k]) => q[k].msg # m
OpensIn(q, m) == \E k \in 1..Len(q) : Opens(q[k]) /\ q[k].msg = m

\* The frames of q belong to payloads begun, and what precedes the first frame of one
\* belongs to earlier ones.
InOrder(s, h, q) ==
  /\ \A k \in 1..Len(q) : q[k].type \in DataTypes => Begun(s, h, q[k].msg)
  /\ \A j, k \in 1..Len(q) :
       j < k /\ q[j].type \in DataTypes /\ Opens(q[k]) => Pos(s, q[j].msg) < Pos(s, q[k].msg)

\* Transmit machine t works on the last payload begun, which has not been delivered and
\* whose last frame is still to come ...
Latest(s, h, q, t, D) ==
  t.state # "Idle" => h > 0 /\ t.msg = s[h] /\ t.msg \notin D /\ EndsNot(q, t.msg)

\* ... and receive machine r on one after all those delivered, D, and before all those
\* still under way.
Midway(s, h, q, r, D) ==
  /\ r.state # "WaitCF" => r.state = "Idle" /\ r.msg = NoMsg
  /\ r.state = "WaitCF" => Begun(s, h, r.msg) /\ Precedes(s, r.msg, q)
  /\ \A m \in D : /\ Begun(s, h, m) /\ Precedes(s, m, q)
                  /\ r.state = "WaitCF" => Pos(s, m) < Pos(s, r.msg)

\* A payload some error was about, B, will not be completed.
Doomed(s, h, q, t, r, B) == \A m \in B :
  /\ Begun(s, h, m)
  /\ Inside(r, m) \/ OpensIn(q, m) => ~InHand(t, m) /\ EndsNot(q, m)

Orderly(s, h, q, t, r, D, B) ==
  /\ Distinct(s) /\ h \in 0..Len(s)
  /\ InOrder(s, h, q) /\ Latest(s, h, q, t, D) /\ Midway(s, h, q, r, D)
  /\ Doomed(s, h, q, t, r, B)

\* What has become of the i-th payload: an outcome, or its beginning is under way.
Accounted(s, i, q, r, D, B) == s[i] \in B \cup D \/ Inside(r, s[i]) \/ OpensIn(q, s[i])

\* Neither the i-th payload nor a later one has reached the peer.
Unreached(s, i, q, r) ==
  /\ \A k \in 1..Len(q) : Opens(q[k]) => Pos(s, q[k].msg) < i
  /\ r.state = "WaitCF" => Pos(s, r.msg) < i

\* Queue c holds what follows the first h of s.
Follows(s, h, c) == \A i \in 1..Len(c) : c[i] = s[h + i]

\* Payloads s accepted from n, the last ones of them still in queue c; frames q in the
\* inbox of its peer and p on their way there; the two machines, the outcomes, and the
\* status a of n and b of the peer.
InStep(n, s, c, q, p, t, r, D, B, a, b) ==
  LET h == Len(s) - Len(c) IN
  /\ \A i \in 1..Len(s) : Source[s[i]] = n
  /\ Follows(s, h, c)
  /\ Orderly(s, h, q \o p, t, r, D, B)
  /\ b = "open" => \A i \in 1..h :
       Accounted(s, i, q \o p, r, D, B) \/ (a # "open" /\ Unreached(s, i, q, r))

\* Payloads that have arrived from n, and those of n some error was about.
Payloads(d) == {d[i].msg : i \in 1..Len(d)}
Arrived(n) == Payloads(delivered[Peer[n]])
BlamedOf(n) == {m \in blamed : Source[m] = n}

Order(n) == InStep(n, sent[n], txDataChan[n], inbox[Peer[n]], txChan[n], tx[n], rx[Peer[n]],
                   Arrived(n), BlamedOf(n), status[n], status[Peer[n]])

Ordered == \A n \in Node : Order(n)

-----------------------------------------------------------------------------
LEMMA PosAt ==
  ASSUME NEW s \in Seq(Msg), Distinct(s), NEW i \in 1..Len(s)
  PROVE  Pos(s, s[i]) = i
BY DEF Pos, Distinct

LEMMA BegunAt ==
  ASSUME NEW s \in Seq(Msg), Distinct(s), NEW h \in 0..Len(s), NEW i \in 1..h
  PROVE  Begun(s, h, s[i]) /\ Pos(s, s[i]) = i
BY PosAt DEF Begun

LEMMA BegunLater ==
  ASSUME NEW s, NEW h \in Nat, NEW m, Begun(s, h, m), NEW j \in Nat, h <= j
  PROVE  Begun(s, j, m)
BY DEF Begun

\* The data frames of p are some of those of q, in the same order.
Thins(p, q) == \E g :
  /\ \A i \in 1..Len(p) : p[i].type \in DataTypes => g[i] \in 1..Len(q) /\ q[g[i]] = p[i]
  /\ \A i, j \in 1..Len(p) :
       i < j /\ p[i].type \in DataTypes /\ p[j].type \in DataTypes => g[i] < g[j]

LEMMA OpensData == \A f : Opens(f) \/ Ends(f) => f.type \in DataTypes
BY DEF Opens, Ends, DataTypes

\* Fewer frames under way upset nothing.
LEMMA Thinned ==
  ASSUME NEW s, NEW h, NEW q \in Seq(Frame), NEW p \in Seq(Frame), NEW t, NEW r, NEW D, NEW B,
         Orderly(s, h, q, t, r, D, B), Thins(p, q)
  PROVE  Orderly(s, h, p, t, r, D, B)
<1> PICK g :
      /\ \A i \in 1..Len(p) : p[i].type \in DataTypes => g[i] \in 1..Len(q) /\ q[g[i]] = p[i]
      /\ \A i, j \in 1..Len(p) :
           i < j /\ p[i].type \in DataTypes /\ p[j].type \in DataTypes => g[i] < g[j]
  BY DEF Thins
<1>1. InOrder(s, h, p)
  BY OpensData DEF Orderly, InOrder
<1>2. \A m : Precedes(s, m, q) => Precedes(s, m, p)
  BY OpensData DEF Precedes
<1>3. \A m : EndsNot(q, m) => EndsNot(p, m)
  BY OpensData DEF EndsNot
<1>4. \A m : OpensIn(p, m) => OpensIn(q, m)
  BY OpensData DEF OpensIn
<1>5. Latest(s, h, p, t, D)
  BY <1>3 DEF Orderly, Latest
<1>6. Midway(s, h, p, r, D)
  BY <1>2 DEF Orderly, Midway
<1>7. Doomed(s, h, p, t, r, B)
  BY <1>3, <1>4 DEF Orderly, Doomed
<1> QED BY <1>1, <1>5, <1>6, <1>7 DEF Orderly

\* Frames taken from the front, ...
LEMMA ThinTail ==
  ASSUME NEW q \in Seq(Frame), q # <<>>
  PROVE  Thins(Tail(q), q) /\ Tail(q) \in Seq(Frame)
<1> DEFINE p == Tail(q)
           g == [i \in 1..Len(p) |-> i + 1]
<1>1. \A i \in 1..Len(p) : g[i] = i + 1 /\ i + 1 \in 1..Len(q) /\ p[i] = q[i + 1]
  OBVIOUS
<1>2. p \in Seq(Frame)
  OBVIOUS
<1> HIDE DEF g, p
<1>3. \A i \in 1..Len(p) : g[i] \in 1..Len(q) /\ q[g[i]] = p[i]
  BY <1>1
<1>4. \A i, j \in 1..Len(p) : i < j => g[i] < g[j]
  BY <1>1, <1>2
<1>5. Thins(p, q)
  BY <1>3, <1>4 DEF Thins
<1> QED BY <1>2, <1>5 DEF p

\* ... other frames in the middle, ...
LEMMA ThinInsert ==
  ASSUME NEW q \in Seq(Frame), NEW p \in Seq(Frame), NEW f \in Frame, f.type \notin DataTypes
  PROVE  Thins(Append(q, f) \o p, q \o p)
<1> DEFINE z == Append(q, f) \o p
           g == [i \in 1..Len(z) |-> IF i <= Len(q) THEN i ELSE i - 1]
<1>1. /\ Len(q) \in Nat /\ Len(p) \in Nat
      /\ Len(z) = Len(q) + 1 + Len(p) /\ Len(q \o p) = Len(q) + Len(p)
  OBVIOUS
<1>2. \A i \in 1..Len(z) :
        z[i] = IF i <= Len(q) THEN q[i] ELSE IF i = Len(q) + 1 THEN f ELSE p[i - Len(q) - 1]
  OBVIOUS
<1>3. \A i \in 1..Len(q \o p) : (q \o p)[i] = IF i <= Len(q) THEN q[i] ELSE p[i - Len(q)]
  OBVIOUS
<1>4. \A i \in 1..Len(z) : g[i] = IF i <= Len(q) THEN i ELSE i - 1
  OBVIOUS
<1> HIDE DEF g, z
<1>5. ASSUME NEW i \in 1..Len(z), z[i].type \in DataTypes
      PROVE  i # Len(q) + 1 /\ g[i] \in 1..Len(q \o p) /\ (q \o p)[g[i]] = z[i]
  <2>1. i # Len(q) + 1
    BY <1>1, <1>2, <1>5
  <2>2. CASE i <= Len(q)
    BY <1>1, <1>2, <1>3, <1>4, <2>2
  <2>3. CASE i > Len(q) + 1
    <3>1. g[i] = i - 1 /\ i - 1 \in 1..Len(q \o p) /\ ~(i - 1 <= Len(q)) /\ z[i] = p[i - Len(q) - 1]
      BY <1>1, <1>2, <1>4, <2>3
    <3>2. (q \o p)[i - 1] = p[(i - 1) - Len(q)]
      BY <1>3, <3>1
    <3>3. (i - 1) - Len(q) = i - Len(q) - 1
      BY <1>1
    <3> QED BY <2>1, <3>1, <3>2, <3>3
  <2> QED BY <1>1, <2>1, <2>2, <2>3
<1>6. \A i, j \in 1..Len(z) :
        i < j /\ z[i].type \in DataTypes /\ z[j].type \in DataTypes => g[i] < g[j]
  BY <1>1, <1>4, <1>5
<1>7. Thins(z, q \o p)
  BY <1>5, <1>6 DEF Thins
<1> QED BY <1>7 DEF z

\* ... or one of the two queues gone.
LEMMA ThinHalf ==
  ASSUME NEW q \in Seq(Frame), NEW p \in Seq(Frame)
  PROVE  Thins(q \o <<>>, q \o p) /\ Thins(<<>> \o p, q \o p)
<1> DEFINE g == [i \in 1..Len(p) |-> i + Len(q)]
           e == [i \in 1..Len(q) |-> i]
<1>1. /\ Len(q) \in Nat /\ Len(p) \in Nat /\ Len(q \o p) = Len(q) + Len(p)
      /\ q \o <<>> = q /\ <<>> \o p = p
      /\ \A i \in 1..Len(p) : g[i] = i + Len(q) /\ (q \o p)[i + Len(q)] = p[i]
      /\ \A i \in 1..Len(q) : e[i] = i /\ (q \o p)[i] = q[i]
  OBVIOUS
<1> HIDE DEF g, e
<1>2. Thins(p, q \o p)
  <2>1. \A i \in 1..Len(p) : g[i] \in 1..Len(q \o p) /\ (q \o p)[g[i]] = p[i]
    BY <1>1
  <2>2. \A i, j \in 1..Len(p) : i < j => g[i] < g[j]
    BY <1>1
  <2> QED BY <2>1, <2>2 DEF Thins
<1>3. Thins(q, q \o p)
  <2>1. \A i \in 1..Len(q) : e[i] \in 1..Len(q \o p) /\ (q \o p)[e[i]] = q[i]
    BY <1>1
  <2>2. \A i, j \in 1..Len(q) : i < j => e[i] < e[j]
    BY <1>1
  <2> QED BY <2>1, <2>2 DEF Thins
<1> QED BY <1>1, <1>2, <1>3

-----------------------------------------------------------------------------
\* The transmit machine stops, or goes on with the payload it has in hand.
LEMMA SenderGoesOn ==
  ASSUME NEW s, NEW h, NEW q, NEW t, NEW u, NEW r, NEW D, NEW B, Orderly(s, h, q, t, r, D, B),
         u.state # "Idle" => t.state # "Idle" /\ u.msg = t.msg
  PROVE  Orderly(s, h, q, u, r, D, B)
<1>1. Latest(s, h, q, u, D)
  BY DEF Orderly, Latest
<1>2. \A m : InHand(u, m) => InHand(t, m)
  BY DEF InHand
<1>3. Doomed(s, h, q, u, r, B)
  BY <1>2 DEF Orderly, Doomed
<1> QED BY <1>1, <1>3 DEF Orderly

\* It gives its payload up.
LEMMA SenderGivesUp ==
  ASSUME NEW s, NEW h, NEW q, NEW t, NEW r, NEW D, NEW B, Orderly(s, h, q, t, r, D, B),
         s \in Seq(Msg), t.state # "Idle"
  PROVE  Orderly(s, h, q, TxIdle, r, D, B \cup {t.msg})
<1>1. Orderly(s, h, q, TxIdle, r, D, B)
  BY SenderGoesOn DEF TxIdle
<1>2. h > 0 /\ t.msg = s[h] /\ EndsNot(q, t.msg) /\ h \in 0..Len(s) /\ Distinct(s)
  BY DEF Orderly, Latest
<1>3. Begun(s, h, t.msg)
  <2>1. h \in 1..h
    BY <1>2
  <2> QED BY <1>2, <2>1, BegunAt
<1>4. \A m : ~InHand(TxIdle, m)
  BY DEF InHand, TxIdle
<1>5. Doomed(s, h, q, TxIdle, r, B \cup {t.msg})
  BY <1>1, <1>2, <1>3, <1>4 DEF Orderly, Doomed
<1> QED BY <1>1, <1>5 DEF Orderly

\* The next payload is begun, by frame f ...
LEMMA SenderBegins ==
  ASSUME NEW s \in Seq(Msg), NEW h, NEW q \in Seq(Frame), NEW t, NEW r, NEW D, NEW B,
         Orderly(s, h, q, t, r, D, B), t.state = "Idle", h < Len(s),
         NEW f \in Frame, Opens(f), f.msg = s[h + 1],
         NEW u, u.state # "Idle" => f.type = "FF" /\ u.msg = f.msg
  PROVE  Orderly(s, h + 1, Append(q, f), u, r, D, B)
<1> DEFINE z == Append(q, f)
           m == s[h + 1]
<1>1. h \in Nat /\ h + 1 \in 1..Len(s) /\ Distinct(s) /\ h + 1 \in 0..Len(s) /\ h + 1 \in 1..(h + 1)
  BY DEF Orderly
<1>2. Begun(s, h + 1, m) /\ Pos(s, m) = h + 1
  BY <1>1, BegunAt
<1>3. \A x : Begun(s, h, x) => Begun(s, h + 1, x) /\ Pos(s, x) < h + 1 /\ x # m
  BY <1>1, <1>2 DEF Begun
<1>4. /\ Len(z) = Len(q) + 1 /\ Len(q) \in Nat /\ z[Len(q) + 1] = f
      /\ \A k \in 1..Len(q) : z[k] = q[k]
  OBVIOUS
<1>5. \A k \in 1..Len(z) : k \in 1..Len(q) \/ (k = Len(q) + 1 /\ z[k] = f)
  BY <1>4
<1> HIDE DEF z
<1>6. f.type \in DataTypes
  BY OpensData
<1>7. \A k \in 1..Len(q) : q[k].type \in DataTypes =>
         Begun(s, h, q[k].msg) /\ Pos(s, q[k].msg) < h + 1 /\ q[k].msg # m
  BY <1>3 DEF Orderly, InOrder
<1> HIDE DEF m
<1>8. InOrder(s, h + 1, z)
  <2>1. ASSUME NEW k \in 1..Len(z), z[k].type \in DataTypes PROVE Begun(s, h + 1, z[k].msg)
    <3>1. CASE k \in 1..Len(q)
      BY <1>3, <1>4, <1>7, <2>1, <3>1
    <3>2. CASE z[k] = f
      BY <1>2, <3>2 DEF m
    <3> QED BY <1>5, <3>1, <3>2
  <2>2. ASSUME NEW j \in 1..Len(z), NEW k \in 1..Len(z), j < k, z[j].type \in DataTypes, Opens(z[k])
        PROVE  Pos(s, z[j].msg) < Pos(s, z[k].msg)
    <3>1. j \in 1..Len(q)
      BY <1>4, <2>2
    <3>2. CASE k \in 1..Len(q)
      BY <1>4, <2>2, <3>1, <3>2 DEF Orderly, InOrder
    <3>3. CASE z[k] = f
      <4>1. Pos(s, z[k].msg) = h + 1
        BY <1>2, <3>3 DEF m
      <4> QED BY <1>4, <1>7, <2>2, <3>1, <4>1
    <3> QED BY <1>5, <3>2, <3>3
  <2> QED BY <2>1, <2>2 DEF InOrder
<1>9. \A x : Begun(s, h, x) /\ Precedes(s, x, q) => Precedes(s, x, z)
  <2> SUFFICES ASSUME NEW x, Begun(s, h, x), Precedes(s, x, q), NEW k \in 1..Len(z), Opens(z[k])
               PROVE  Pos(s, x) < Pos(s, z[k].msg)
    BY DEF Precedes
  <2>1. CASE k \in 1..Len(q)
    BY <1>4, <2>1 DEF Precedes
  <2>2. CASE z[k] = f
    BY <1>2, <1>3, <2>2 DEF m
  <2> QED BY <1>5, <2>1, <2>2
<1>10. Midway(s, h + 1, z, r, D)
  BY <1>3, <1>9 DEF Orderly, Midway
<1>11. m \notin B /\ m \notin D
  <2>1. \A x \in B \cup D : Begun(s, h, x)
    BY DEF Orderly, Midway, Doomed
  <2> QED BY <1>3, <2>1
<1>12. f.type = "FF" => EndsNot(z, m)
  <2> SUFFICES ASSUME f.type = "FF", NEW k \in 1..Len(z), Ends(z[k]) PROVE z[k].msg # m
    BY DEF EndsNot
  <2>1. ~Ends(f)
    BY DEF Ends
  <2> QED BY <1>4, <1>5, <1>7, <2>1, OpensData
<1>13. Latest(s, h + 1, z, u, D)
  BY <1>1, <1>11, <1>12 DEF Latest, m
<1>14. Doomed(s, h + 1, z, u, r, B)
  <2> SUFFICES ASSUME NEW x \in B
               PROVE  /\ Begun(s, h + 1, x)
                      /\ Inside(r, x) \/ OpensIn(z, x) => ~InHand(u, x) /\ EndsNot(z, x)
    BY DEF Doomed
  <2>1. Begun(s, h, x) /\ x # m
    BY <1>11 DEF Orderly, Doomed
  <2>2. OpensIn(z, x) => OpensIn(q, x)
    BY <1>4, <1>5, <2>1 DEF OpensIn, m
  <2>3. EndsNot(q, x) => EndsNot(z, x)
    BY <1>4, <1>5, <2>1 DEF EndsNot, m
  <2>4. ~InHand(u, x)
    BY <2>1 DEF InHand, m
  <2> QED BY <1>3, <2>1, <2>2, <2>3, <2>4 DEF Orderly, Doomed
<1> QED BY <1>1, <1>8, <1>10, <1>13, <1>14 DEF Orderly, z

\* ... or dropped by a session that is being closed.
LEMMA SenderSkips ==
  ASSUME NEW s \in Seq(Msg), NEW h, NEW q, NEW t, NEW r, NEW D, NEW B,
         Orderly(s, h, q, t, r, D, B), h < Len(s)
  PROVE  Orderly(s, h + 1, q, TxIdle, r, D, B)
<1>1. h \in Nat /\ h + 1 \in Nat /\ h <= h + 1 /\ h + 1 \in 0..Len(s)
  BY DEF Orderly
<1>2. \A x : Begun(s, h, x) => Begun(s, h + 1, x)
  BY <1>1, BegunLater
<1>3. TxIdle.state = "Idle"
  BY DEF TxIdle
<1>4. Orderly(s, h, q, TxIdle, r, D, B)
  BY <1>3, SenderGoesOn
<1>5. InOrder(s, h + 1, q)
  BY <1>2, <1>4 DEF Orderly, InOrder
<1>6. Midway(s, h + 1, q, r, D)
  BY <1>2, <1>4 DEF Orderly, Midway
<1>7. Doomed(s, h + 1, q, TxIdle, r, B)
  BY <1>2, <1>4 DEF Orderly, Doomed
<1>8. Latest(s, h + 1, q, TxIdle, D)
  BY <1>3 DEF Latest
<1> QED BY <1>1, <1>4, <1>5, <1>6, <1>7, <1>8 DEF Orderly

\* Another frame of the payload in hand is queued, perhaps the last one.
LEMMA SenderAdvances ==
  ASSUME NEW s \in Seq(Msg), NEW h, NEW q \in Seq(Frame), NEW t, NEW r, NEW D, NEW B,
         Orderly(s, h, q, t, r, D, B), t.state # "Idle",
         NEW f \in Frame, f.type = "CF", f.msg = t.msg,
         NEW u, u.state # "Idle" => u.msg = t.msg /\ ~Ends(f)
  PROVE  Orderly(s, h, Append(q, f), u, r, D, B)
<1> DEFINE z == Append(q, f)
<1>1. /\ Len(z) = Len(q) + 1 /\ Len(q) \in Nat /\ z[Len(q) + 1] = f
      /\ \A k \in 1..Len(q) : z[k] = q[k]
  OBVIOUS
<1>2. \A k \in 1..Len(z) : k \in 1..Len(q) \/ (k = Len(q) + 1 /\ z[k] = f)
  BY <1>1
<1> HIDE DEF z
<1>3. ~Opens(f)
  BY DEF Opens
<1>4. /\ h > 0 /\ t.msg = s[h] /\ t.msg \notin D /\ EndsNot(q, t.msg) /\ h \in 0..Len(s)
      /\ Distinct(s)
  BY DEF Orderly, Latest
<1>5. Begun(s, h, t.msg)
  <2>1. h \in 1..h
    BY <1>4
  <2> QED BY <1>4, <2>1, BegunAt
<1>6. InOrder(s, h, z)
  <2>1. ASSUME NEW k \in 1..Len(z), z[k].type \in DataTypes PROVE Begun(s, h, z[k].msg)
    BY <1>1, <1>2, <1>5, <2>1 DEF Orderly, InOrder
  <2>2. ASSUME NEW j \in 1..Len(z), NEW k \in 1..Len(z), j < k, z[j].type \in DataTypes, Opens(z[k])
        PROVE  Pos(s, z[j].msg) < Pos(s, z[k].msg)
    <3>1. k \in 1..Len(q) /\ j \in 1..Len(q)
      BY <1>1, <1>2, <1>3, <2>2
    <3> QED BY <1>1, <2>2, <3>1 DEF Orderly, InOrder
  <2> QED BY <2>1, <2>2 DEF InOrder
<1>7. \A x : Precedes(s, x, q) => Precedes(s, x, z)
  BY <1>1, <1>2, <1>3 DEF Precedes
<1>8. Midway(s, h, z, r, D)
  BY <1>7 DEF Orderly, Midway
<1>9. ~Ends(f) => EndsNot(z, t.msg)
  BY <1>1, <1>2, <1>4 DEF EndsNot
<1>10. Latest(s, h, z, u, D)
  BY <1>4, <1>9 DEF Latest
<1>11. Doomed(s, h, z, u, r, B)
  <2> SUFFICES ASSUME NEW x \in B, Inside(r, x) \/ OpensIn(z, x)
               PROVE  ~InHand(u, x) /\ EndsNot(z, x)
    BY DEF Orderly, Doomed
  <2>1. OpensIn(z, x) => OpensIn(q, x)
    BY <1>1, <1>2, <1>3 DEF OpensIn
  <2>2. ~InHand(t, x) /\ EndsNot(q, x)
    BY <2>1 DEF Orderly, Doomed
  <2>3. x # t.msg
    BY <2>2 DEF InHand
  <2> QED BY <1>1, <1>2, <2>2, <2>3 DEF InHand, EndsNot
<1> QED BY <1>4, <1>6, <1>8, <1>10, <1>11 DEF Orderly, z

-----------------------------------------------------------------------------
\* The payload the first frame f of q belongs to: what is behind f is of no earlier one,
\* and what was delivered or is being received is.
LEMMA FirstInLine ==
  ASSUME NEW s, NEW h, NEW q \in Seq(Frame), q # <<>>, NEW t, NEW r, NEW D, NEW B,
         Orderly(s, h, q, t, r, D, B)
  PROVE  /\ Orderly(s, h, Tail(q), t, r, D, B)
         /\ Opens(Head(q)) =>
              /\ Begun(s, h, Head(q).msg) /\ Precedes(s, Head(q).msg, Tail(q))
              /\ \A m \in D : Pos(s, m) < Pos(s, Head(q).msg)
              /\ Head(q).msg \in B => ~InHand(t, Head(q).msg) /\ EndsNot(q, Head(q).msg)
         /\ Ends(Head(q)) => ~InHand(t, Head(q).msg)
<1> DEFINE f == Head(q)
           p == Tail(q)
<1>1. Orderly(s, h, p, t, r, D, B)
  BY ThinTail, Thinned
<1>2. /\ 1 \in 1..Len(q) /\ q[1] = f
      /\ \A k \in 1..Len(p) : k + 1 \in 1..Len(q) /\ p[k] = q[k + 1] /\ 1 < k + 1
  OBVIOUS
<1> HIDE DEF f, p
<1>3. ASSUME Opens(f) PROVE Precedes(s, f.msg, p) /\ Begun(s, h, f.msg)
  BY <1>2, <1>3, OpensData DEF Precedes, Orderly, InOrder
<1>4. ASSUME Opens(f), NEW m \in D PROVE Pos(s, m) < Pos(s, f.msg)
  BY <1>2, <1>4 DEF Orderly, Midway, Precedes
<1>5. ASSUME Opens(f), f.msg \in B PROVE ~InHand(t, f.msg) /\ EndsNot(q, f.msg)
  BY <1>2, <1>5 DEF Orderly, Doomed, OpensIn
<1>6. ASSUME Ends(f) PROVE ~InHand(t, f.msg)
  BY <1>2, <1>6 DEF Orderly, Latest, EndsNot, InHand
<1> QED BY <1>1, <1>3, <1>4, <1>5, <1>6 DEF f, p

\* The receive machine stops, with or without an error about its payload.
LEMMA ReceiverStops ==
  ASSUME NEW s, NEW h, NEW q, NEW t, NEW r, NEW D, NEW B, NEW C, Orderly(s, h, q, t, r, D, B),
         C \subseteq B \cup ({r.msg} \cap Msg), B \subseteq Msg
  PROVE  Orderly(s, h, q, t, RxIdle, D, C)
<1>1. RxIdle.state = "Idle" /\ RxIdle.msg = NoMsg /\ NoMsg \notin Msg
  BY MsgAssumption DEF RxIdle
<1>2. \A m \in C : m \in B \/ (m = r.msg /\ r.state = "WaitCF")
  BY <1>1 DEF Orderly, Midway
<1>3. Midway(s, h, q, RxIdle, D)
  BY <1>1 DEF Orderly, Midway
<1>4. ASSUME r.state = "WaitCF" PROVE Begun(s, h, r.msg) /\ ~OpensIn(q, r.msg)
  <2>1. Begun(s, h, r.msg) /\ Precedes(s, r.msg, q)
    BY <1>4 DEF Orderly, Midway
  <2>2. ~(Pos(s, r.msg) < Pos(s, r.msg))
    BY <2>1 DEF Begun, Orderly
  <2> QED BY <2>1, <2>2 DEF Precedes, OpensIn
<1>5. Doomed(s, h, q, t, RxIdle, C)
  BY <1>1, <1>2, <1>4 DEF Orderly, Doomed, Inside
<1> QED BY <1>3, <1>5 DEF Orderly

\* A payload m that came before those under way is refused ...
LEMMA ReceiverRefuses ==
  ASSUME NEW s, NEW h, NEW q, NEW t, NEW r, NEW D, NEW B, Orderly(s, h, q, t, r, D, B),
         r.state = "Idle", NEW m, Begun(s, h, m), Precedes(s, m, q)
  PROVE  Orderly(s, h, q, t, r, D, B \cup {m})
<1>1. ~OpensIn(q, m)
  <2>1. ~(Pos(s, m) < Pos(s, m))
    BY DEF Begun, Orderly
  <2> QED BY <2>1 DEF Precedes, OpensIn
<1>2. Doomed(s, h, q, t, r, B \cup {m})
  BY <1>1 DEF Orderly, Doomed, Inside
<1> QED BY <1>2 DEF Orderly

\* ... delivered ...
LEMMA ReceiverDelivers ==
  ASSUME NEW s, NEW h, NEW q, NEW t, NEW r, NEW D, NEW B, Orderly(s, h, q, t, r, D, B),
         r.state = "Idle", NEW m, Begun(s, h, m), Precedes(s, m, q), ~InHand(t, m)
  PROVE  Orderly(s, h, q, t, r, D \cup {m}, B)
<1>1. Midway(s, h, q, r, D \cup {m})
  BY DEF Orderly, Midway
<1>2. Latest(s, h, q, t, D \cup {m})
  BY DEF Orderly, Latest, InHand
<1> QED BY <1>1, <1>2 DEF Orderly

\* ... or begun, if its frames can still come.
LEMMA ReceiverBegins ==
  ASSUME NEW s, NEW h, NEW q, NEW t, NEW r, NEW D, NEW B, Orderly(s, h, q, t, r, D, B),
         r.state = "Idle", NEW m, Begun(s, h, m), Precedes(s, m, q),
         \A x \in D : Pos(s, x) < Pos(s, m),
         m \in B => ~InHand(t, m) /\ EndsNot(q, m),
         NEW u, u.state = "WaitCF", u.msg = m
  PROVE  Orderly(s, h, q, t, u, D, B)
<1>1. Midway(s, h, q, u, D)
  BY DEF Orderly, Midway
<1>2. Doomed(s, h, q, t, u, B)
  BY DEF Orderly, Doomed, Inside
<1> QED BY <1>1, <1>2 DEF Orderly

\* It goes on with its payload.
LEMMA ReceiverGoesOn ==
  ASSUME NEW s, NEW h, NEW q, NEW t, NEW r, NEW D, NEW B, NEW u, Orderly(s, h, q, t, r, D, B),
         u.state = r.state, u.msg = r.msg
  PROVE  Orderly(s, h, q, t, u, D, B)
<1>1. Midway(s, h, q, u, D)
  BY DEF Orderly, Midway
<1>2. Doomed(s, h, q, t, u, B)
  BY DEF Orderly, Doomed, Inside
<1> QED BY <1>1, <1>2 DEF Orderly

\* One more payload is accepted: the places of the others stay.
LEMMA OneMore ==
  ASSUME NEW s \in Seq(Msg), NEW h, NEW q, NEW t, NEW r, NEW D, NEW B,
         Orderly(s, h, q, t, r, D, B), NEW x \in Msg, \A i \in 1..Len(s) : s[i] # x
  PROVE  /\ Orderly(Append(s, x), h, q, t, r, D, B)
         /\ \A m : Begun(s, h, m) => Pos(Append(s, x), m) = Pos(s, m)
<1> DEFINE z == Append(s, x)
<1>1. /\ z \in Seq(Msg) /\ Len(z) = Len(s) + 1 /\ Len(s) \in Nat /\ z[Len(s) + 1] = x
      /\ \A i \in 1..Len(s) : z[i] = s[i]
  OBVIOUS
<1> HIDE DEF z
<1>2. Distinct(s) /\ h \in 0..Len(s)
  BY DEF Orderly
<1>3. Distinct(z)
  <2> SUFFICES ASSUME NEW i \in 1..Len(z), NEW j \in 1..Len(z), z[i] = z[j] PROVE i = j
    BY DEF Distinct
  <2>1. /\ i \in 1..Len(s) \/ (i = Len(s) + 1 /\ z[i] = x)
        /\ j \in 1..Len(s) \/ (j = Len(s) + 1 /\ z[j] = x)
    BY <1>1
  <2> QED BY <1>1, <1>2, <2>1 DEF Distinct
<1>4. ASSUME NEW m, Begun(s, h, m) PROVE Pos(z, m) = Pos(s, m) /\ Begun(z, h, m)
  <2>1. Pos(s, m) \in 1..h /\ s[Pos(s, m)] = m /\ Pos(s, m) \in 1..Len(s)
    BY <1>1, <1>2, <1>4 DEF Begun
  <2>2. Pos(s, m) \in 1..Len(z) /\ z[Pos(s, m)] = m
    BY <1>1, <2>1
  <2>3. Pos(z, z[Pos(s, m)]) = Pos(s, m)
    BY <1>1, <1>3, <2>2, PosAt
  <2> QED BY <2>1, <2>2, <2>3 DEF Begun
<1>5. InOrder(z, h, q)
  BY <1>4, OpensData DEF Orderly, InOrder
<1>6. \A k \in 1..Len(q) : Opens(q[k]) => Begun(s, h, q[k].msg)
  BY OpensData DEF Orderly, InOrder
<1>7. \A m : Begun(s, h, m) /\ Precedes(s, m, q) => Precedes(z, m, q)
  BY <1>4, <1>6 DEF Precedes
<1>8. Midway(z, h, q, r, D)
  BY <1>4, <1>7 DEF Orderly, Midway
<1>9. Latest(z, h, q, t, D)
  BY <1>1, <1>2 DEF Orderly, Latest
<1>10. Doomed(z, h, q, t, r, B)
  BY <1>4 DEF Orderly, Doomed
<1>11. h \in 0..Len(z)
  BY <1>1, <1>2
<1> QED BY <1>3, <1>4, <1>5, <1>8, <1>9, <1>10, <1>11 DEF Orderly, z

-----------------------------------------------------------------------------
\* The beginning of a payload stays under way as the queue grows, or is the first frame.
LEMMA OpensInMore ==
  ASSUME NEW q \in Seq(Frame), NEW p \in Seq(Frame), NEW f \in Frame
  PROVE  /\ \A m : OpensIn(q, m) => OpensIn(Append(q, f), m)
         /\ Opens(f) => OpensIn(Append(q, f), f.msg)
         /\ \A m : OpensIn(q \o p, m) => OpensIn(Append(q, f) \o p, m)
<1>1. /\ Len(Append(q, f)) = Len(q) + 1 /\ Len(q) \in Nat /\ Append(q, f)[Len(q) + 1] = f
      /\ \A k \in 1..Len(q) : Append(q, f)[k] = q[k]
  OBVIOUS
<1>2. \A m : OpensIn(q, m) => OpensIn(Append(q, f), m)
  <2> DEFINE z == Append(q, f)
  <2> HIDE DEF z
  <2>1. \A k \in 1..Len(q) : k \in 1..Len(z) /\ z[k] = q[k]
    BY <1>1 DEF z
  <2>2. \A m : OpensIn(q, m) => OpensIn(z, m)
    BY <2>1 DEF OpensIn
  <2> QED BY <2>2 DEF z
<1>3. Opens(f) => OpensIn(Append(q, f), f.msg)
  <2>1. Len(q) + 1 \in 1..Len(Append(q, f))
    BY <1>1
  <2> QED BY <1>1, <2>1 DEF OpensIn
<1>4. \A m : OpensIn(q \o p, m) => OpensIn(Append(q, f) \o p, m)
  <2> DEFINE y == q \o p
             z == Append(q, f) \o p
             g == [k \in 1..Len(y) |-> IF k <= Len(q) THEN k ELSE k + 1]
  <2>1. /\ Len(y) = Len(q) + Len(p) /\ Len(z) = Len(q) + 1 + Len(p) /\ Len(p) \in Nat
        /\ \A k \in 1..Len(y) : g[k] = IF k <= Len(q) THEN k ELSE k + 1
        /\ \A k \in 1..Len(y) : y[k] = IF k <= Len(q) THEN q[k] ELSE p[k - Len(q)]
        /\ \A k \in 1..Len(z) :
             z[k] = IF k <= Len(q) THEN q[k] ELSE IF k = Len(q) + 1 THEN f ELSE p[k - Len(q) - 1]
    OBVIOUS
  <2> HIDE DEF y, z, g
  <2>2. ASSUME NEW k \in 1..Len(y) PROVE g[k] \in 1..Len(z) /\ z[g[k]] = y[k]
    <3>1. CASE k <= Len(q)
      BY <1>1, <2>1, <3>1
    <3>2. CASE k > Len(q)
      <4>1. /\ g[k] = k + 1 /\ k + 1 \in 1..Len(z) /\ ~(k + 1 <= Len(q)) /\ k + 1 # Len(q) + 1
            /\ (k + 1) - Len(q) - 1 = k - Len(q) /\ y[k] = p[k - Len(q)]
        BY <1>1, <2>1, <3>2
      <4>2. z[k + 1] = p[(k + 1) - Len(q) - 1]
        BY <2>1, <4>1
      <4> QED BY <4>1, <4>2
    <3> QED BY <1>1, <2>1, <3>1, <3>2
  <2>3. \A m : OpensIn(y, m) => OpensIn(z, m)
    BY <2>2 DEF OpensIn
  <2> QED BY <2>3 DEF y, z
<1> QED BY <1>2, <1>3, <1>4

LEMMA OpensInTail ==
  ASSUME NEW q \in Seq(Frame), q # <<>>, NEW m, OpensIn(q, m)
  PROVE  OpensIn(Tail(q), m) \/ (Opens(Head(q)) /\ Head(q).msg = m)
<1> PICK k \in 1..Len(q) : Opens(q[k]) /\ q[k].msg = m
  BY DEF OpensIn
<1>1. CASE k = 1
  BY <1>1
<1>2. CASE k # 1
  <2>1. k - 1 \in 1..Len(Tail(q)) /\ Tail(q)[k - 1] = q[k]
    BY <1>2
  <2> QED BY <2>1 DEF OpensIn
<1> QED BY <1>1, <1>2

\* What both queues hold together.
LEMMA InStepTypes ==
  ASSUME NEW n, NEW s \in Seq(Msg), NEW c \in Seq(Msg), NEW q \in Seq(Frame), NEW p \in Seq(Frame),
         NEW t, NEW r, NEW D, NEW B, NEW a, NEW b, InStep(n, s, c, q, p, t, r, D, B, a, b)
  PROVE  /\ Len(s) \in Nat /\ Len(c) \in Nat /\ Len(s) - Len(c) \in 0..Len(s)
         /\ Orderly(s, Len(s) - Len(c), q \o p, t, r, D, B)
         /\ q \o p \in Seq(Frame)
BY DEF InStep, Orderly

\* A frame is queued for the peer, of no payload or of one that has begun.
LEMMA MoreQueued ==
  ASSUME NEW n, NEW s \in Seq(Msg), NEW c \in Seq(Msg), NEW q \in Seq(Frame), NEW p \in Seq(Frame),
         NEW t, NEW r, NEW D, NEW B, NEW a, NEW b, InStep(n, s, c, q, p, t, r, D, B, a, b),
         NEW f \in Frame, NEW u,
         Orderly(s, Len(s) - Len(c), Append(q \o p, f), u, r, D, B)
  PROVE  InStep(n, s, c, q, Append(p, f), u, r, D, B, a, b)
<1>1. q \o Append(p, f) = Append(q \o p, f) /\ q \o p \in Seq(Frame) /\ Append(p, f) \in Seq(Frame)
  BY LineAppend
<1>2. \A m : OpensIn(q \o p, m) => OpensIn(q \o Append(p, f), m)
  BY <1>1, OpensInMore
<1>3. Orderly(s, Len(s) - Len(c), q \o Append(p, f), u, r, D, B)
  BY <1>1
<1> SUFFICES ASSUME b = "open", NEW i \in 1..(Len(s) - Len(c))
               PROVE  \/ Accounted(s, i, q \o Append(p, f), r, D, B)
                      \/ (a # "open" /\ Unreached(s, i, q, r))
    BY <1>3 DEF InStep
<1>4. Accounted(s, i, q \o p, r, D, B) \/ (a # "open" /\ Unreached(s, i, q, r))
  BY DEF InStep
<1> QED BY <1>2, <1>4 DEF Accounted

\* A frame that is no data is queued, or already in the inbox.
LEMMA OtherQueued ==
  ASSUME NEW n, NEW s \in Seq(Msg), NEW c \in Seq(Msg), NEW q \in Seq(Frame), NEW p \in Seq(Frame),
         NEW t, NEW r, NEW D, NEW B, NEW a, NEW b, InStep(n, s, c, q, p, t, r, D, B, a, b),
         NEW f \in Frame, f.type \notin DataTypes
  PROVE  /\ InStep(n, s, c, q, Append(p, f), t, r, D, B, a, b)
         /\ InStep(n, s, c, Append(q, f), p, t, r, D, B, a, b)
<1>1. /\ Orderly(s, Len(s) - Len(c), q \o p, t, r, D, B) /\ q \o p \in Seq(Frame)
      /\ Append(q, f) \in Seq(Frame) /\ Append(q, f) \o p \in Seq(Frame)
      /\ Append(q \o p, f) \in Seq(Frame)
  BY InStepTypes
<1>2. Orderly(s, Len(s) - Len(c), Append(q, f) \o p, t, r, D, B)
  BY <1>1, ThinInsert, Thinned
<1>3. Orderly(s, Len(s) - Len(c), Append(q \o p, f), t, r, D, B)
  <2>1. <<>> \in Seq(Frame) /\ Append(q \o p, f) \o <<>> = Append(q \o p, f) /\ (q \o p) \o <<>> = q \o p
    BY <1>1
  <2>2. Thins(Append(q \o p, f), q \o p)
    BY <1>1, <2>1, ThinInsert
  <2> QED BY <1>1, <2>2, Thinned
<1>4. InStep(n, s, c, q, Append(p, f), t, r, D, B, a, b)
  BY <1>3, MoreQueued
<1>5. \A m : OpensIn(q \o p, m) => OpensIn(Append(q, f) \o p, m)
  BY OpensInMore
<1>6. ASSUME NEW i, Unreached(s, i, q, r) PROVE Unreached(s, i, Append(q, f), r)
  <2>1. \A k \in 1..Len(Append(q, f)) : \/ k \in 1..Len(q) /\ Append(q, f)[k] = q[k]
                                        \/ Append(q, f)[k] = f
    OBVIOUS
  <2>2. ~Opens(f)
    BY OpensData
  <2> DEFINE x == Append(q, f)
  <2> HIDE DEF x
  <2>3. \A k \in 1..Len(x) : (k \in 1..Len(q) /\ x[k] = q[k]) \/ x[k] = f
    BY <2>1 DEF x
  <2>4. Unreached(s, i, x, r)
    BY <1>6, <2>2, <2>3 DEF Unreached
  <2> QED BY <2>4 DEF x
<1>7. InStep(n, s, c, Append(q, f), p, t, r, D, B, a, b)
  <2> SUFFICES ASSUME b = "open", NEW i \in 1..(Len(s) - Len(c))
               PROVE  \/ Accounted(s, i, Append(q, f) \o p, r, D, B)
                      \/ (a # "open" /\ Unreached(s, i, Append(q, f), r))
    BY <1>2 DEF InStep
  <2>1. Accounted(s, i, q \o p, r, D, B) \/ (a # "open" /\ Unreached(s, i, q, r))
    BY DEF InStep
  <2> QED BY <1>5, <1>6, <2>1 DEF Accounted
<1> QED BY <1>4, <1>7

\* The receive machine takes the first frame of its inbox and becomes v.
LEMMA FrameTakenInStep ==
  ASSUME NEW n, NEW s \in Seq(Msg), NEW c \in Seq(Msg), NEW q \in Seq(Frame), NEW p \in Seq(Frame),
         NEW t, NEW r, NEW D, NEW B, NEW a, NEW b, InStep(n, s, c, q, p, t, r, D, B, a, b),
         q # <<>>, NEW v, NEW E, NEW C, B \subseteq C, D \subseteq E,
         Orderly(s, Len(s) - Len(c), Tail(q \o p), t, v, E, C),
         b = "open" =>
           /\ \A m : Inside(r, m) => Inside(v, m) \/ m \in C \cup E
           /\ Opens(Head(q)) => Inside(v, Head(q).msg) \/ Head(q).msg \in C \cup E
           /\ v.state = "WaitCF" => \/ r.state = "WaitCF" /\ v.msg = r.msg
                                    \/ Opens(Head(q)) /\ v.msg = Head(q).msg
  PROVE  InStep(n, s, c, Tail(q), p, t, v, E, C, a, b)
<1>1. /\ q \o p # <<>> /\ Head(q \o p) = Head(q) /\ Tail(q \o p) = Tail(q) \o p
      /\ q \o p \in Seq(Frame) /\ Tail(q) \in Seq(Frame)
  BY LineTail
<1>2. Orderly(s, Len(s) - Len(c), Tail(q) \o p, t, v, E, C)
  BY <1>1
<1>3. ASSUME b = "open", NEW m, OpensIn(q \o p, m)
      PROVE  OpensIn(Tail(q) \o p, m) \/ Inside(v, m) \/ m \in C \cup E
  <2>1. OpensIn(Tail(q \o p), m) \/ (Opens(Head(q \o p)) /\ Head(q \o p).msg = m)
    BY <1>1, <1>3, OpensInTail
  <2> QED BY <1>1, <1>3, <2>1
<1>4. ASSUME b = "open", NEW i, Unreached(s, i, q, r) PROVE Unreached(s, i, Tail(q), v)
  <2>1. /\ 1 \in 1..Len(q) /\ q[1] = Head(q)
        /\ \A k \in 1..Len(Tail(q)) : k + 1 \in 1..Len(q) /\ Tail(q)[k] = q[k + 1]
    OBVIOUS
  <2>2. \A k \in 1..Len(Tail(q)) : Opens(Tail(q)[k]) => Pos(s, Tail(q)[k].msg) < i
    BY <1>4, <2>1 DEF Unreached
  <2>3. v.state = "WaitCF" => Pos(s, v.msg) < i
    BY <1>4, <2>1 DEF Unreached
  <2> QED BY <2>2, <2>3 DEF Unreached
<1> SUFFICES ASSUME b = "open", NEW i \in 1..(Len(s) - Len(c))
               PROVE  \/ Accounted(s, i, Tail(q) \o p, v, E, C)
                      \/ (a # "open" /\ Unreached(s, i, Tail(q), v))
    BY <1>2 DEF InStep
<1>5. Accounted(s, i, q \o p, r, D, B) \/ (a # "open" /\ Unreached(s, i, q, r))
  BY DEF InStep
<1> QED BY <1>3, <1>4, <1>5 DEF Accounted

-----------------------------------------------------------------------------
\* One stream of payloads, from one end to the other, over each thing that can happen.

\* Another payload is accepted.
LEMMA AcceptedInStep ==
  ASSUME NEW n, NEW s \in Seq(Msg), NEW c \in Seq(Msg), NEW q \in Seq(Frame), NEW p \in Seq(Frame),
         NEW t, NEW r, NEW D, NEW B, NEW a, NEW b, InStep(n, s, c, q, p, t, r, D, B, a, b),
         NEW x \in Msg, Source[x] = n, \A i \in 1..Len(s) : s[i] # x
  PROVE  InStep(n, Append(s, x), Append(c, x), q, p, t, r, D, B, a, b)
<1> DEFINE z == Append(s, x)
           e == Append(c, x)
           h == Len(s) - Len(c)
<1>1. /\ z \in Seq(Msg) /\ Len(z) = Len(s) + 1 /\ Len(s) \in Nat /\ z[Len(s) + 1] = x
      /\ \A i \in 1..Len(s) : z[i] = s[i]
      /\ e \in Seq(Msg) /\ Len(e) = Len(c) + 1 /\ Len(c) \in Nat /\ e[Len(c) + 1] = x
      /\ \A i \in 1..Len(c) : e[i] = c[i]
  OBVIOUS
<1> HIDE DEF z, e
<1>2. Len(z) - Len(e) = h /\ h \in 0..Len(s)
  BY <1>1, InStepTypes
<1>3. Orderly(s, h, q \o p, t, r, D, B) /\ q \o p \in Seq(Frame)
  BY InStepTypes
<1> HIDE DEF h
<1>4. Orderly(z, h, q \o p, t, r, D, B) /\ \A m : Begun(s, h, m) => Pos(z, m) = Pos(s, m)
  BY <1>3, OneMore DEF z
<1>5. \A i \in 1..Len(z) : Source[z[i]] = n
  <2>1. \A i \in 1..Len(s) : Source[s[i]] = n
    BY DEF InStep
  <2>2. \A i \in 1..Len(z) : i \in 1..Len(s) \/ i = Len(s) + 1
    BY <1>1
  <2> QED BY <1>1, <2>1, <2>2
<1>6. \A i \in 1..Len(e) : e[i] = z[h + i]
  <2>1. \A i \in 1..Len(c) : c[i] = s[h + i]
    BY DEF InStep, Follows, h
  <2>2. h + (Len(c) + 1) = Len(s) + 1
    BY <1>1, <1>2 DEF h
  <2>3. ASSUME NEW i \in 1..Len(e) PROVE e[i] = z[h + i]
    <3>1. CASE i \in 1..Len(c)
      <4>1. h + i \in 1..Len(s)
        BY <1>1, <1>2, <3>1 DEF h
      <4> QED BY <1>1, <2>1, <3>1, <4>1
    <3>2. CASE i = Len(c) + 1
      BY <1>1, <2>2, <3>2
    <3> QED BY <1>1, <3>1, <3>2
  <2> QED BY <2>3
<1>7. \A k \in 1..Len(q) : Opens(q[k]) => Begun(s, h, q[k].msg)
  <2>1. \A k \in 1..Len(q) : k \in 1..Len(q \o p) /\ (q \o p)[k] = q[k]
    OBVIOUS
  <2> DEFINE l == q \o p
  <2> HIDE DEF l
  <2>2. \A k \in 1..Len(l) : Opens(l[k]) => Begun(s, h, l[k].msg)
    BY <1>3, OpensData DEF Orderly, InOrder, l
  <2> QED BY <2>1, <2>2 DEF l
<1>8. r.state = "WaitCF" => Begun(s, h, r.msg)
  BY <1>3 DEF Orderly, Midway
<1>9. ASSUME b = "open", NEW i \in 1..h
      PROVE  Accounted(z, i, q \o p, r, D, B) \/ (a # "open" /\ Unreached(z, i, q, r))
  <2>1. Accounted(s, i, q \o p, r, D, B) \/ (a # "open" /\ Unreached(s, i, q, r))
    BY <1>9 DEF InStep, h
  <2>2. z[i] = s[i]
    BY <1>1, <1>2
  <2>3. Unreached(s, i, q, r) => Unreached(z, i, q, r)
    BY <1>4, <1>7, <1>8 DEF Unreached
  <2> QED BY <2>1, <2>2, <2>3 DEF Accounted
<1>10. InStep(n, z, e, q, p, t, r, D, B, a, b)
  BY <1>2, <1>4, <1>5, <1>6, <1>9 DEF InStep, Follows
<1> QED BY <1>10 DEF z, e

\* The sender takes the next payload from its queue.
LEMMA NextPayload ==
  ASSUME NEW s \in Seq(Msg), NEW c \in Seq(Msg), c # <<>>, NEW h \in 0..Len(s),
         h = Len(s) - Len(c), Follows(s, h, c)
  PROVE  /\ Tail(c) \in Seq(Msg) /\ Head(c) \in Msg /\ h < Len(s) /\ Head(c) = s[h + 1]
         /\ Len(s) - Len(Tail(c)) = h + 1 /\ Follows(s, h + 1, Tail(c))
<1> DEFINE e == Tail(c)
<1>1. /\ e \in Seq(Msg) /\ Head(c) \in Msg /\ Len(e) = Len(c) - 1 /\ Len(c) \in Nat
      /\ Len(c) > 0 /\ Len(s) \in Nat /\ Head(c) = c[1] /\ 1 \in 1..Len(c)
      /\ \A i \in 1..Len(e) : i + 1 \in 1..Len(c) /\ e[i] = c[i + 1]
  OBVIOUS
<1>2. \A i \in 1..Len(c) : c[i] = s[h + i]
  BY DEF Follows
<1> HIDE DEF e
<1>3. \A i \in 1..Len(e) : h + (i + 1) = h + 1 + i
  BY <1>1
<1>4. Follows(s, h + 1, e)
  BY <1>1, <1>2, <1>3 DEF Follows
<1>5. h < Len(s) /\ Head(c) = s[h + 1] /\ Len(s) - Len(e) = h + 1
  BY <1>1, <1>2
<1> QED BY <1>1, <1>4, <1>5 DEF e

\* It begins it with frame f ...
LEMMA BegunInStep ==
  ASSUME NEW n, NEW s \in Seq(Msg), NEW c \in Seq(Msg), NEW q \in Seq(Frame), NEW p \in Seq(Frame),
         NEW t, NEW r, NEW D, NEW B, NEW a, NEW b, InStep(n, s, c, q, p, t, r, D, B, a, b),
         c # <<>>, t.state = "Idle", NEW f \in Frame, Opens(f), f.msg = Head(c),
         NEW u, u.state # "Idle" => f.type = "FF" /\ u.msg = f.msg
  PROVE  InStep(n, s, Tail(c), q, Append(p, f), u, r, D, B, a, b)
<1> DEFINE h == Len(s) - Len(c)
           e == Tail(c)
<1>0. h = Len(s) - Len(c) /\ e = Tail(c)
  OBVIOUS
<1>a. h \in 0..Len(s) /\ Orderly(s, h, q \o p, t, r, D, B) /\ Follows(s, h, c)
  BY InStepTypes DEF InStep
<1>b. q \o p \in Seq(Frame) /\ Len(s) \in Nat
  OBVIOUS
<1>1. /\ e \in Seq(Msg) /\ h < Len(s) /\ Head(c) = s[h + 1] /\ Len(s) - Len(e) = h + 1
      /\ Follows(s, h + 1, e)
  <2>1. c # <<>> /\ h = Len(s) - Len(c)
    OBVIOUS
  <2> HIDE DEF h
  <2> QED BY <1>a, <2>1, NextPayload
<1> HIDE DEF h, e
<1>2. h \in 0..Len(s) /\ Orderly(s, h, q \o p, t, r, D, B) /\ q \o p \in Seq(Frame) /\ Len(s) \in Nat
  BY <1>a, <1>b
<1>3. \A i \in 1..h : b = "open" =>
        Accounted(s, i, q \o p, r, D, B) \/ (a # "open" /\ Unreached(s, i, q, r))
  BY <1>0 DEF InStep
<1>4. \A i \in 1..Len(s) : Source[s[i]] = n
  BY DEF InStep
<1>5. Orderly(s, h + 1, Append(q \o p, f), u, r, D, B)
  BY <1>1, <1>2, SenderBegins
<1>6. q \o Append(p, f) = Append(q \o p, f)
  BY LineAppend
<1>7. /\ \A m : OpensIn(q \o p, m) => OpensIn(q \o Append(p, f), m)
      /\ OpensIn(q \o Append(p, f), f.msg)
  BY <1>2, <1>6, OpensInMore
<1> DEFINE l == q \o Append(p, f)
<1> HIDE DEF l
<1>8. ASSUME b = "open", NEW i \in 1..(h + 1)
      PROVE  Accounted(s, i, l, r, D, B) \/ (a # "open" /\ Unreached(s, i, q, r))
  <2>1. CASE i \in 1..h
    BY <1>3, <1>7, <1>8, <2>1 DEF Accounted, l
  <2>2. CASE i = h + 1
    BY <1>1, <1>7, <2>2 DEF Accounted, l
  <2> QED BY <1>2, <2>1, <2>2
<1>9. Orderly(s, h + 1, l, u, r, D, B)
  BY <1>5, <1>6 DEF l
<1>10. InStep(n, s, e, q, Append(p, f), u, r, D, B, a, b)
  BY <1>1, <1>4, <1>8, <1>9 DEF InStep, l
<1> QED BY <1>0, <1>10

\* ... or drops it, as it is being closed.
LEMMA SkippedInStep ==
  ASSUME NEW n, NEW s \in Seq(Msg), NEW c \in Seq(Msg), NEW q \in Seq(Frame), NEW p \in Seq(Frame),
         NEW t, NEW r, NEW D, NEW B, NEW a, NEW b, InStep(n, s, c, q, p, t, r, D, B, a, b),
         c # <<>>, a # "open"
  PROVE  InStep(n, s, Tail(c), q, p, TxIdle, r, D, B, a, b)
<1> DEFINE h == Len(s) - Len(c)
           e == Tail(c)
<1>0. h = Len(s) - Len(c) /\ e = Tail(c)
  OBVIOUS
<1>a. h \in 0..Len(s) /\ Orderly(s, h, q \o p, t, r, D, B) /\ Follows(s, h, c)
  BY InStepTypes DEF InStep
<1>b. q \o p \in Seq(Frame) /\ Len(s) \in Nat
  OBVIOUS
<1>1. /\ e \in Seq(Msg) /\ h < Len(s) /\ Head(c) = s[h + 1] /\ Len(s) - Len(e) = h + 1
      /\ Follows(s, h + 1, e)
  BY <1>a, NextPayload
<1> HIDE DEF h, e
<1>2. h \in 0..Len(s) /\ Orderly(s, h, q \o p, t, r, D, B) /\ q \o p \in Seq(Frame) /\ Len(s) \in Nat
  BY <1>a, <1>b
<1>3. \A i \in 1..h : b = "open" =>
        Accounted(s, i, q \o p, r, D, B) \/ (a # "open" /\ Unreached(s, i, q, r))
  BY <1>0 DEF InStep
<1>4. \A i \in 1..Len(s) : Source[s[i]] = n
  BY DEF InStep
<1>5. Orderly(s, h + 1, q \o p, TxIdle, r, D, B)
  BY <1>1, <1>2, SenderSkips
<1>6. \A m : Begun(s, h, m) => Pos(s, m) < h + 1
  BY <1>2 DEF Begun
<1>7. \A k \in 1..Len(q) : Opens(q[k]) => Begun(s, h, q[k].msg)
  <2>1. \A k \in 1..Len(q) : k \in 1..Len(q \o p) /\ (q \o p)[k] = q[k]
    OBVIOUS
  <2> DEFINE l == q \o p
  <2> HIDE DEF l
  <2>2. \A k \in 1..Len(l) : Opens(l[k]) => Begun(s, h, l[k].msg)
    BY <1>2, OpensData DEF Orderly, InOrder, l
  <2> QED BY <2>1, <2>2 DEF l
<1>8. r.state = "WaitCF" => Begun(s, h, r.msg)
  BY <1>2 DEF Orderly, Midway
<1>9. Unreached(s, h + 1, q, r)
  BY <1>6, <1>7, <1>8 DEF Unreached
<1>10. \A i \in 1..(h + 1) : i \in 1..h \/ i = h + 1
  BY <1>2
<1>11. InStep(n, s, e, q, p, TxIdle, r, D, B, a, b)
  BY <1>1, <1>3, <1>4, <1>5, <1>9, <1>10 DEF InStep
<1> QED BY <1>0, <1>11

\* It goes on with its payload or stops ...
LEMMA GoesOnInStep ==
  ASSUME NEW n, NEW s \in Seq(Msg), NEW c \in Seq(Msg), NEW q \in Seq(Frame), NEW p \in Seq(Frame),
         NEW t, NEW r, NEW D, NEW B, NEW a, NEW b, InStep(n, s, c, q, p, t, r, D, B, a, b),
         NEW u, u.state # "Idle" => t.state # "Idle" /\ u.msg = t.msg
  PROVE  InStep(n, s, c, q, p, u, r, D, B, a, b)
<1>1. Orderly(s, Len(s) - Len(c), q \o p, u, r, D, B)
  BY SenderGoesOn DEF InStep
<1> QED BY <1>1 DEF InStep

\* ... with an error ...
LEMMA GivenUpInStep ==
  ASSUME NEW n, NEW s \in Seq(Msg), NEW c \in Seq(Msg), NEW q \in Seq(Frame), NEW p \in Seq(Frame),
         NEW t, NEW r, NEW D, NEW B, NEW a, NEW b, InStep(n, s, c, q, p, t, r, D, B, a, b),
         t.state # "Idle"
  PROVE  InStep(n, s, c, q, p, TxIdle, r, D, B \cup {t.msg}, a, b)
<1>1. Orderly(s, Len(s) - Len(c), q \o p, TxIdle, r, D, B \cup {t.msg})
  BY SenderGivesUp DEF InStep
<1> QED BY <1>1 DEF InStep, Accounted

\* ... or queues more of it.
LEMMA AdvancedInStep ==
  ASSUME NEW n, NEW s \in Seq(Msg), NEW c \in Seq(Msg), NEW q \in Seq(Frame), NEW p \in Seq(Frame),
         NEW t, NEW r, NEW D, NEW B, NEW a, NEW b, InStep(n, s, c, q, p, t, r, D, B, a, b),
         t.state # "Idle", NEW f \in Frame, f.type = "CF", f.msg = t.msg,
         NEW u, u.state # "Idle" => u.msg = t.msg /\ ~Ends(f)
  PROVE  InStep(n, s, c, q, Append(p, f), u, r, D, B, a, b)
<1>1. Orderly(s, Len(s) - Len(c), q \o p, t, r, D, B) /\ q \o p \in Seq(Frame)
  BY InStepTypes
<1>2. Orderly(s, Len(s) - Len(c), Append(q \o p, f), u, r, D, B)
  BY <1>1, SenderAdvances
<1> QED BY <1>2, MoreQueued

\* The receiver stops: its payload is reported.
LEMMA StoppedInStep ==
  ASSUME NEW n, NEW s \in Seq(Msg), NEW c \in Seq(Msg), NEW q \in Seq(Frame), NEW p \in Seq(Frame),
         NEW t, NEW r, NEW D, NEW B, NEW a, NEW b, InStep(n, s, c, q, p, t, r, D, B, a, b),
         B \subseteq Msg, r.state = "WaitCF" => r.msg \in Msg
  PROVE  InStep(n, s, c, q, p, t, RxIdle, D, B \cup ({r.msg} \cap Msg), a, b)
<1> DEFINE C == B \cup ({r.msg} \cap Msg)
<1>1. Orderly(s, Len(s) - Len(c), q \o p, t, RxIdle, D, C)
  BY ReceiverStops DEF InStep
<1>2. RxIdle.state = "Idle"
  BY IdleState
<1>3. \A i : /\ Accounted(s, i, q \o p, r, D, B) => Accounted(s, i, q \o p, RxIdle, D, C)
             /\ Unreached(s, i, q, r) => Unreached(s, i, q, RxIdle)
  BY <1>2 DEF Accounted, Unreached, Inside
<1> HIDE DEF C
<1>4. InStep(n, s, c, q, p, t, RxIdle, D, C, a, b)
  BY <1>1, <1>3 DEF InStep
<1> QED BY <1>4 DEF C

\* It takes a frame that begins nothing, and stays where it is in its payload ...
LEMMA IgnoredInStep ==
  ASSUME NEW n, NEW s \in Seq(Msg), NEW c \in Seq(Msg), NEW q \in Seq(Frame), NEW p \in Seq(Frame),
         NEW t, NEW r, NEW D, NEW B, NEW a, NEW b, InStep(n, s, c, q, p, t, r, D, B, a, b),
         q # <<>>, ~Opens(Head(q)), NEW v, v.state = r.state, v.msg = r.msg
  PROVE  InStep(n, s, c, Tail(q), p, t, v, D, B, a, b)
<1>1. Orderly(s, Len(s) - Len(c), q \o p, t, r, D, B) /\ q \o p \in Seq(Frame)
  BY InStepTypes
<1>2. q \o p # <<>>
  BY LineTail
<1>3. Orderly(s, Len(s) - Len(c), Tail(q \o p), t, r, D, B)
  BY <1>1, <1>2, FirstInLine
<1>4. Orderly(s, Len(s) - Len(c), Tail(q \o p), t, v, D, B)
  BY <1>3, ReceiverGoesOn
<1> QED BY <1>4, FrameTakenInStep DEF Inside

\* ... or leaves it, with an error or, being closed, without.
LEMMA LeftInStep ==
  ASSUME NEW n, NEW s \in Seq(Msg), NEW c \in Seq(Msg), NEW q \in Seq(Frame), NEW p \in Seq(Frame),
         NEW t, NEW r, NEW D, NEW B, NEW a, NEW b, InStep(n, s, c, q, p, t, r, D, B, a, b),
         q # <<>>, ~Opens(Head(q)), B \subseteq Msg, r.state = "WaitCF" => r.msg \in Msg,
         NEW C, C = B \cup ({r.msg} \cap Msg) \/ (b # "open" /\ C = B)
  PROVE  InStep(n, s, c, Tail(q), p, t, RxIdle, D, C, a, b)
<1>1. Orderly(s, Len(s) - Len(c), q \o p, t, r, D, B) /\ q \o p \in Seq(Frame)
  BY InStepTypes
<1>2. q \o p # <<>>
  BY LineTail
<1>3. Orderly(s, Len(s) - Len(c), Tail(q \o p), t, r, D, B)
  BY <1>1, <1>2, FirstInLine
<1>4. C \subseteq B \cup ({r.msg} \cap Msg) /\ B \subseteq C
  OBVIOUS
<1>5. Orderly(s, Len(s) - Len(c), Tail(q \o p), t, RxIdle, D, C)
  BY <1>3, <1>4, ReceiverStops
<1>6. RxIdle.state = "Idle"
  BY IdleState
<1>7. b = "open" => \A m : Inside(r, m) => m \in C
  BY DEF Inside
<1> QED BY <1>4, <1>5, <1>6, <1>7, FrameTakenInStep

\* It takes the first frame of payload m: what it was inside of is reported, ...
LEMMA OpenedInStep ==
  ASSUME NEW s, NEW h, NEW l \in Seq(Frame), l # <<>>, NEW t, NEW r, NEW D, NEW B, NEW C,
         Orderly(s, h, l, t, r, D, B), Opens(Head(l)), B \subseteq Msg,
         C = B \cup ({r.msg} \cap Msg), NEW m, m = Head(l).msg
  PROVE  /\ Orderly(s, h, Tail(l), t, RxIdle, D, C)
         /\ Begun(s, h, m) /\ Precedes(s, m, Tail(l))
         /\ \A x \in D : Pos(s, x) < Pos(s, m)
         /\ m \in C => ~InHand(t, m) /\ EndsNot(Tail(l), m)
         /\ Ends(Head(l)) => ~InHand(t, m)
<1>4. /\ Orderly(s, h, Tail(l), t, r, D, B)
      /\ Begun(s, h, m) /\ Precedes(s, m, Tail(l))
      /\ \A x \in D : Pos(s, x) < Pos(s, m)
      /\ m \in B => ~InHand(t, m) /\ EndsNot(l, m)
      /\ Ends(Head(l)) => ~InHand(t, m)
  BY FirstInLine
<1>5. Orderly(s, h, Tail(l), t, RxIdle, D, C)
  BY <1>4, ReceiverStops
<1>6. 1 \in 1..Len(l) /\ l[1] = Head(l)
  OBVIOUS
<1>7. r.state = "WaitCF" => Pos(s, r.msg) < Pos(s, m)
  BY <1>6 DEF Orderly, Midway, Precedes
<1>8. m \in C => m \in B
  <2>1. r.msg \in Msg => r.state = "WaitCF"
    BY MsgAssumption DEF Orderly, Midway
  <2>2. ~(Pos(s, m) < Pos(s, m))
    BY <1>4 DEF Begun, Orderly
  <2> QED BY <1>7, <2>1, <2>2
<1>9. EndsNot(l, m) => EndsNot(Tail(l), m)
  <2>1. \A k \in 1..Len(Tail(l)) : k + 1 \in 1..Len(l) /\ Tail(l)[k] = l[k + 1]
    OBVIOUS
  <2> QED BY <2>1 DEF EndsNot
<1> QED BY <1>4, <1>5, <1>8, <1>9

\* ... and m is delivered, if it is whole, ...
LEMMA DeliveredInStep ==
  ASSUME NEW n, NEW s \in Seq(Msg), NEW c \in Seq(Msg), NEW q \in Seq(Frame), NEW p \in Seq(Frame),
         NEW t, NEW r, NEW D, NEW B, NEW a, NEW b, InStep(n, s, c, q, p, t, r, D, B, a, b),
         q # <<>>, Opens(Head(q)), Ends(Head(q)), B \subseteq Msg,
         r.state = "WaitCF" => r.msg \in Msg, NEW m \in Msg, m = Head(q).msg
  PROVE  InStep(n, s, c, Tail(q), p, t, RxIdle, D \cup {m}, B \cup ({r.msg} \cap Msg), a, b)
<1> DEFINE h == Len(s) - Len(c)
           C == B \cup ({r.msg} \cap Msg)
<1>0. C = B \cup ({r.msg} \cap Msg) /\ h = Len(s) - Len(c)
  OBVIOUS
<1> HIDE DEF C, h
<1> DEFINE l == q \o p
<1>a. Orderly(s, h, l, t, r, D, B) /\ l \in Seq(Frame)
  BY <1>0, InStepTypes
<1>b. l # <<>> /\ Head(l) = Head(q)
  BY LineTail
<1> HIDE DEF l
<1>1. /\ Orderly(s, h, Tail(l), t, RxIdle, D, C)
      /\ Begun(s, h, m) /\ Precedes(s, m, Tail(l)) /\ ~InHand(t, m)
  BY <1>0, <1>a, <1>b, OpenedInStep
<1>c. \A x : Inside(r, x) => x \in C
  BY <1>0 DEF Inside
<1>2. RxIdle.state = "Idle"
  BY IdleState
<1>3. Orderly(s, h, Tail(l), t, RxIdle, D \cup {m}, C)
  BY <1>1, <1>2, ReceiverDelivers
<1>4. B \subseteq C
  BY <1>0
<1>5. InStep(n, s, c, Tail(q), p, t, RxIdle, D \cup {m}, C, a, b)
  BY <1>1, <1>2, <1>3, <1>4, <1>c, FrameTakenInStep DEF h, l
<1> QED BY <1>0, <1>5

\* ... or refused, ...
LEMMA RefusedInStep ==
  ASSUME NEW n, NEW s \in Seq(Msg), NEW c \in Seq(Msg), NEW q \in Seq(Frame), NEW p \in Seq(Frame),
         NEW t, NEW r, NEW D, NEW B, NEW a, NEW b, InStep(n, s, c, q, p, t, r, D, B, a, b),
         q # <<>>, Opens(Head(q)), B \subseteq Msg, r.state = "WaitCF" => r.msg \in Msg,
         NEW m \in Msg, m = Head(q).msg
  PROVE  InStep(n, s, c, Tail(q), p, t, RxIdle, D, B \cup ({r.msg, m} \cap Msg), a, b)
<1> DEFINE h == Len(s) - Len(c)
           C == B \cup ({r.msg} \cap Msg)
<1>0. C = B \cup ({r.msg} \cap Msg) /\ h = Len(s) - Len(c)
  OBVIOUS
<1> HIDE DEF C, h
<1> DEFINE l == q \o p
<1>a. Orderly(s, h, l, t, r, D, B) /\ l \in Seq(Frame)
  BY <1>0, InStepTypes
<1>b. l # <<>> /\ Head(l) = Head(q)
  BY LineTail
<1> HIDE DEF l
<1>1. /\ Orderly(s, h, Tail(l), t, RxIdle, D, C)
      /\ Begun(s, h, m) /\ Precedes(s, m, Tail(l))
  BY <1>0, <1>a, <1>b, OpenedInStep
<1>c. \A x : Inside(r, x) => x \in C
  BY <1>0 DEF Inside
<1>2. RxIdle.state = "Idle"
  BY IdleState
<1>3. Orderly(s, h, Tail(l), t, RxIdle, D, C \cup {m})
  BY <1>1, <1>2, ReceiverRefuses
<1>4. B \subseteq C /\ C \cup {m} = B \cup ({r.msg, m} \cap Msg)
  BY <1>0
<1>5. InStep(n, s, c, Tail(q), p, t, RxIdle, D, C \cup {m}, a, b)
  BY <1>1, <1>2, <1>3, <1>4, <1>c, FrameTakenInStep DEF h, l
<1> QED BY <1>4, <1>5

\* ... or begun, unless the receiver, being closed, leaves it.
LEMMA StartedInStep ==
  ASSUME NEW n, NEW s \in Seq(Msg), NEW c \in Seq(Msg), NEW q \in Seq(Frame), NEW p \in Seq(Frame),
         NEW t, NEW r, NEW D, NEW B, NEW a, NEW b, InStep(n, s, c, q, p, t, r, D, B, a, b),
         q # <<>>, Opens(Head(q)), B \subseteq Msg, r.state = "WaitCF" => r.msg \in Msg,
         NEW m \in Msg, m = Head(q).msg,
         NEW v, (v.state = "WaitCF" /\ v.msg = m) \/ (b # "open" /\ v = RxIdle)
  PROVE  InStep(n, s, c, Tail(q), p, t, v, D, B \cup ({r.msg} \cap Msg), a, b)
<1> DEFINE h == Len(s) - Len(c)
           C == B \cup ({r.msg} \cap Msg)
<1>0. C = B \cup ({r.msg} \cap Msg) /\ h = Len(s) - Len(c)
  OBVIOUS
<1> HIDE DEF C, h
<1> DEFINE l == q \o p
<1>a. Orderly(s, h, l, t, r, D, B) /\ l \in Seq(Frame)
  BY <1>0, InStepTypes
<1>b. l # <<>> /\ Head(l) = Head(q)
  BY LineTail
<1> HIDE DEF l
<1>1. /\ Orderly(s, h, Tail(l), t, RxIdle, D, C)
      /\ Begun(s, h, m) /\ Precedes(s, m, Tail(l))
      /\ \A x \in D : Pos(s, x) < Pos(s, m)
      /\ m \in C => ~InHand(t, m) /\ EndsNot(Tail(l), m)
  BY <1>0, <1>a, <1>b, OpenedInStep
<1>c. \A x : Inside(r, x) => x \in C
  BY <1>0 DEF Inside
<1>2. RxIdle.state = "Idle"
  BY IdleState
<1>3. Orderly(s, h, Tail(l), t, v, D, C)
  <2>1. CASE v.state = "WaitCF" /\ v.msg = m
    BY <1>1, <1>2, <2>1, ReceiverBegins
  <2>2. CASE v = RxIdle
    BY <1>1, <2>2
  <2> QED BY <2>1, <2>2
<1>4. B \subseteq C
  BY <1>0
<1>5. b = "open" => v.state = "WaitCF" /\ v.msg = m
  BY <1>2
<1>6. InStep(n, s, c, Tail(q), p, t, v, D, C, a, b)
  BY <1>1, <1>3, <1>4, <1>5, <1>c, FrameTakenInStep DEF Inside, h, l
<1> QED BY <1>0, <1>6

\* The last frame of the payload the receiver is inside of: it is delivered or reported.
LEMMA CompletedInStep ==
  ASSUME NEW n, NEW s \in Seq(Msg), NEW c \in Seq(Msg), NEW q \in Seq(Frame), NEW p \in Seq(Frame),
         NEW t, NEW r, NEW D, NEW B, NEW a, NEW b, InStep(n, s, c, q, p, t, r, D, B, a, b),
         q # <<>>, ~Opens(Head(q)), Ends(Head(q)), B \subseteq Msg,
         r.state = "WaitCF", r.msg \in Msg, Head(q).msg = r.msg,
         NEW E, NEW C, (E = D \cup {r.msg} /\ C = B) \/ (E = D /\ C = B \cup {r.msg})
  PROVE  InStep(n, s, c, Tail(q), p, t, RxIdle, E, C, a, b)
<1> DEFINE h == Len(s) - Len(c)
           l == q \o p
           m == r.msg
<1>1. Orderly(s, h, l, t, r, D, B) /\ l \in Seq(Frame) /\ l # <<>> /\ Head(l) = Head(q)
  BY InStepTypes, LineTail
<1>2. RxIdle.state = "Idle"
  BY IdleState
<1> HIDE DEF l, h
<1>3. Orderly(s, h, Tail(l), t, r, D, B) /\ ~InHand(t, m)
  BY <1>1, FirstInLine
<1>4. Orderly(s, h, Tail(l), t, RxIdle, D, B)
  BY <1>3, ReceiverStops
<1>5. Begun(s, h, m) /\ Precedes(s, m, Tail(l))
  BY <1>3 DEF Orderly, Midway
<1>6. Orderly(s, h, Tail(l), t, RxIdle, E, C)
  <2>1. CASE E = D \cup {r.msg} /\ C = B
    BY <1>2, <1>3, <1>4, <1>5, <2>1, ReceiverDelivers
  <2>2. CASE E = D /\ C = B \cup {r.msg}
    BY <1>2, <1>4, <1>5, <2>2, ReceiverRefuses
  <2> QED BY <2>1, <2>2
<1>7. B \subseteq C /\ D \subseteq E /\ m \in C \cup E
  OBVIOUS
<1>8. \A x : Inside(r, x) => x \in C \cup E
  BY <1>7 DEF Inside
<1> QED BY <1>2, <1>6, <1>7, <1>8, FrameTakenInStep DEF l, h

-----------------------------------------------------------------------------
LEMMA ThinCut ==
  ASSUME NEW q \in Seq(Frame), NEW p \in Seq(Frame), p # <<>>
  PROVE  Thins(q \o Tail(p), q \o p) /\ q \o Tail(p) \in Seq(Frame)
<1> DEFINE z == q \o Tail(p)
           g == [i \in 1..Len(z) |-> IF i <= Len(q) THEN i ELSE i + 1]
<1>1. /\ Len(q) \in Nat /\ Len(p) \in Nat /\ Len(p) > 0 /\ Tail(p) \in Seq(Frame)
      /\ Len(Tail(p)) = Len(p) - 1
      /\ Len(z) = Len(q) + Len(Tail(p)) /\ Len(q \o p) = Len(q) + Len(p) /\ z \in Seq(Frame)
  OBVIOUS
<1>2. ASSUME NEW i \in 1..Len(z)
      PROVE  g[i] \in 1..Len(q \o p) /\ (q \o p)[g[i]] = z[i]
  <2>1. CASE i <= Len(q)
    <3>1. g[i] = i /\ i \in 1..Len(q \o p)
      BY <1>1, <2>1
    <3>2. z[i] = q[i] /\ (q \o p)[i] = q[i]
      BY <1>1, <2>1
    <3> QED BY <3>1, <3>2
  <2>2. CASE i > Len(q)
    <3>1. g[i] = i + 1 /\ i + 1 \in 1..Len(q \o p)
      BY <1>1, <2>2
    <3>2. i - Len(q) \in 1..Len(Tail(p)) /\ (i + 1) - Len(q) = (i - Len(q)) + 1
      BY <1>1, <2>2
    <3>3. z[i] = Tail(p)[i - Len(q)] /\ (q \o p)[i + 1] = p[(i + 1) - Len(q)]
      BY <1>1, <2>2
    <3>4. Tail(p)[i - Len(q)] = p[(i - Len(q)) + 1]
      BY <3>2
    <3> QED BY <3>1, <3>2, <3>3, <3>4
  <2> QED BY <1>1, <2>1, <2>2
<1>3. \A i, j \in 1..Len(z) : i < j => g[i] < g[j]
  BY <1>1
<1> QED BY <1>1, <1>2, <1>3 DEF Thins

\* An end is closed ...
LEMMA ClosingInStep ==
  ASSUME NEW n, NEW s, NEW c, NEW q, NEW p, NEW t, NEW r, NEW D, NEW B, NEW a, NEW b,
         InStep(n, s, c, q, p, t, r, D, B, a, b),
         NEW x, NEW y, x = "open" => a = "open", y = "open" => b = "open"
  PROVE  InStep(n, s, c, q, p, t, r, D, B, x, y)
BY DEF InStep

\* ... and what the sender had queued is gone, ...
LEMMA SenderClosedInStep ==
  ASSUME NEW n, NEW s \in Seq(Msg), NEW c \in Seq(Msg), NEW q \in Seq(Frame), NEW p \in Seq(Frame),
         NEW t, NEW r, NEW D, NEW B, NEW a, NEW b, InStep(n, s, c, q, p, t, r, D, B, a, b),
         NEW x, x # "open", NEW u, u.state = t.state, u.msg = t.msg
  PROVE  InStep(n, s, c, q, <<>>, u, r, D, B, x, b)
<1> DEFINE h == Len(s) - Len(c)
           l == q \o p
<1>1. h \in 0..Len(s) /\ Orderly(s, h, l, t, r, D, B) /\ l \in Seq(Frame)
  BY InStepTypes
<1>2. q \o <<>> = q /\ q \o <<>> \in Seq(Frame) /\ Thins(q \o <<>>, q \o p)
  BY ThinHalf
<1>3. /\ Len(q) \in Nat /\ Len(l) \in Nat /\ Len(q) <= Len(l)
      /\ \A k \in 1..Len(q) : k \in 1..Len(l) /\ l[k] = q[k]
      /\ \A k \in 1..Len(l) : k > Len(q) \/ k \in 1..Len(q)
  OBVIOUS
<1>4. \A i \in 1..h : b = "open" =>
        Accounted(s, i, l, r, D, B) \/ (a # "open" /\ Unreached(s, i, q, r))
  BY DEF InStep
<1>5. (\A i \in 1..Len(s) : Source[s[i]] = n) /\ Follows(s, h, c)
  BY DEF InStep
<1> HIDE DEF l, h
<1>6. Orderly(s, h, q, t, r, D, B)
  BY <1>1, <1>2, Thinned DEF l
<1>7. Orderly(s, h, q, u, r, D, B)
  BY <1>6, SenderGoesOn
<1>8. ASSUME NEW i \in 1..h, OpensIn(l, s[i])
      PROVE  OpensIn(q, s[i]) \/ Unreached(s, i, q, r)
  <2> PICK k \in 1..Len(l) : Opens(l[k]) /\ l[k].msg = s[i]
    BY <1>8 DEF OpensIn
  <2>1. CASE k \in 1..Len(q)
    BY <1>3, <2>1 DEF OpensIn
  <2>2. CASE k > Len(q)
    <3>1. Pos(s, s[i]) = i
      BY <1>1, BegunAt DEF Orderly
    <3>2. ASSUME NEW j \in 1..Len(q), Opens(q[j]) PROVE Pos(s, q[j].msg) < i
      <4>1. j < k /\ j \in 1..Len(l) /\ l[j] = q[j] /\ l[j].type \in DataTypes
        BY <1>3, <2>2, <3>2, OpensData
      <4> QED BY <1>1, <3>1, <4>1 DEF Orderly, InOrder
    <3>3. r.state = "WaitCF" => Pos(s, r.msg) < i
      BY <1>1, <3>1 DEF Orderly, Midway, Precedes
    <3> QED BY <3>2, <3>3 DEF Unreached
  <2> QED BY <1>3, <2>1, <2>2
<1>9. ASSUME b = "open", NEW i \in 1..h
      PROVE  Accounted(s, i, q, r, D, B) \/ Unreached(s, i, q, r)
  BY <1>4, <1>8, <1>9 DEF Accounted
<1> QED BY <1>2, <1>5, <1>7, <1>9 DEF InStep, h

\* ... or what the receiver had still to process.
LEMMA ReceiverClosedInStep ==
  ASSUME NEW n, NEW s \in Seq(Msg), NEW c \in Seq(Msg), NEW q \in Seq(Frame), NEW p \in Seq(Frame),
         NEW t, NEW r, NEW D, NEW B, NEW a, NEW b, InStep(n, s, c, q, p, t, r, D, B, a, b),
         NEW y, y # "open", NEW v, v.state = r.state, v.msg = r.msg
  PROVE  InStep(n, s, c, <<>>, p, t, v, D, B, a, y)
<1> DEFINE h == Len(s) - Len(c)
<1>1. Orderly(s, h, q \o p, t, r, D, B) /\ q \o p \in Seq(Frame)
  BY InStepTypes
<1>2. <<>> \o p \in Seq(Frame) /\ Thins(<<>> \o p, q \o p)
  BY ThinHalf
<1>3. Orderly(s, h, <<>> \o p, t, r, D, B)
  BY <1>1, <1>2, Thinned
<1>4. Orderly(s, h, <<>> \o p, t, v, D, B)
  BY <1>3, ReceiverGoesOn
<1> QED BY <1>4 DEF InStep

\* A frame goes over the bus ...
LEMMA TransferredInStep ==
  ASSUME NEW n, NEW s \in Seq(Msg), NEW c \in Seq(Msg), NEW q \in Seq(Frame), NEW p \in Seq(Frame),
         NEW t, NEW r, NEW D, NEW B, NEW a, NEW b, InStep(n, s, c, q, p, t, r, D, B, a, b),
         p # <<>>, a = "open"
  PROVE  InStep(n, s, c, Append(q, Head(p)), Tail(p), t, r, D, B, a, b)
<1>1. Append(q, Head(p)) \o Tail(p) = q \o p
  BY LineMove
<1> QED BY <1>1 DEF InStep

\* ... to a peer that no longer listens.
LEMMA DroppedInStep ==
  ASSUME NEW n, NEW s \in Seq(Msg), NEW c \in Seq(Msg), NEW q \in Seq(Frame), NEW p \in Seq(Frame),
         NEW t, NEW r, NEW D, NEW B, NEW a, NEW b, InStep(n, s, c, q, p, t, r, D, B, a, b),
         p # <<>>, b # "open"
  PROVE  InStep(n, s, c, q, Tail(p), t, r, D, B, a, b)
<1>1. Orderly(s, Len(s) - Len(c), q \o p, t, r, D, B) /\ q \o p \in Seq(Frame)
  BY InStepTypes
<1>2. Thins(q \o Tail(p), q \o p) /\ q \o Tail(p) \in Seq(Frame)
  BY ThinCut
<1>3. Orderly(s, Len(s) - Len(c), q \o Tail(p), t, r, D, B)
  BY <1>1, <1>2, Thinned
<1> QED BY <1>3 DEF InStep

-----------------------------------------------------------------------------
\* The streams of two sessions, as a step of session n leaves them: the one it sends ...
Outgoing(n, s, c, p, t, B, a) ==
  InStep(n, s, c, inbox[Peer[n]], p, t, rx[Peer[n]], Arrived(n), B, a, status[Peer[n]])

\* ... and the one it receives.
Incoming(n, q, r, D, B, b) ==
  InStep(Peer[n], sent[Peer[n]], txDataChan[Peer[n]], q, txChan[Peer[n]], tx[Peer[n]], r, D, B,
         status[Peer[n]], b)

LEMMA StreamsAt ==
  ASSUME IInv, Ordered, NEW n \in Node
  PROVE  /\ Outgoing(n, sent[n], txDataChan[n], txChan[n], tx[n], BlamedOf(n), status[n])
         /\ Incoming(n, inbox[n], rx[n], Arrived(Peer[n]), BlamedOf(Peer[n]), status[n])
         /\ \A k \in {n, Peer[n]} :
              /\ sent[k] \in Seq(Msg) /\ txDataChan[k] \in Seq(Msg)
              /\ inbox[k] \in Seq(Frame) /\ txChan[k] \in Seq(Frame) /\ BlamedOf(k) \subseteq Msg
<1>1. Peer[n] \in Node /\ Peer[Peer[n]] = n
  BY Peers
<1>2. Order(n) /\ Order(Peer[n])
  BY <1>1 DEF Ordered
<1>3. \A k \in {n, Peer[n]} :
         /\ sent[k] \in Seq(Msg) /\ txDataChan[k] \in Seq(Msg)
         /\ inbox[k] \in Seq(Frame) /\ txChan[k] \in Seq(Frame) /\ BlamedOf(k) \subseteq Msg
  BY <1>1 DEF IInv, TypeOK, BlamedOf
<1> QED BY <1>1, <1>2, <1>3 DEF Order, Outgoing, Incoming

\* A step of session n alone.
OnlyAt(n) == \A k \in Node \ {n} :
  /\ tx'[k] = tx[k] /\ txChan'[k] = txChan[k]
  /\ rx'[k] = rx[k] /\ inbox'[k] = inbox[k] /\ delivered'[k] = delivered[k]
  /\ sent'[k] = sent[k] /\ txDataChan'[k] = txDataChan[k] /\ status'[k] = status[k]

\* It leaves every other pair of sessions as it was.
LEMMA Lifted ==
  ASSUME Apart, Ordered, NEW n \in Node, OnlyAt(n),
         \A k \in Node \ {n, Peer[n]} : BlamedOf(k)' = BlamedOf(k),
         Outgoing(n, sent'[n], txDataChan'[n], txChan'[n], tx'[n], BlamedOf(n)', status'[n]),
         Incoming(n, inbox'[n], rx'[n], Arrived(Peer[n])', BlamedOf(Peer[n])', status'[n])
  PROVE  Ordered'
<1>1. Peer[n] \in Node \ {n} /\ Peer[Peer[n]] = n
  BY Peers DEF Apart
<1>2. \A k \in Node : delivered'[Peer[k]] = delivered[Peer[k]] => Arrived(k)' = Arrived(k)
  BY DEF Arrived
<1>3. Order(n)'
  BY <1>1, <1>2 DEF Order, Outgoing, OnlyAt
<1>4. Order(Peer[n])'
  BY <1>1 DEF Order, Incoming, OnlyAt
<1>5. ASSUME NEW k \in Node \ {n, Peer[n]} PROVE Order(k)'
  <2>1. Peer[k] \in Node \ {n}
    BY <1>1, Peers
  <2>2. Order(k)
    BY DEF Ordered
  <2>3. BlamedOf(k)' = BlamedOf(k) /\ Arrived(k)' = Arrived(k)
    BY <1>2, <2>1 DEF OnlyAt
  <2> QED BY <2>1, <2>2, <2>3 DEF Order, OnlyAt
<1> QED BY <1>3, <1>4, <1>5 DEF Ordered

\* Errors are about payloads of one end.
LEMMA BlamedAt ==
  ASSUME NEW k, NEW ms, blamed' = blamed \cup (ms \cap Msg), \A m \in ms \cap Msg : Source[m] = k
  PROVE  /\ BlamedOf(k)' = BlamedOf(k) \cup (ms \cap Msg)
         /\ \A j \in Node \ {k} : BlamedOf(j)' = BlamedOf(j)
BY DEF BlamedOf

LEMMA NoneBlamed == ASSUME blamed' = blamed, NEW k PROVE BlamedOf(k)' = BlamedOf(k)
BY DEF BlamedOf

LEMMA NoneArrived ==
  ASSUME NEW k, delivered'[Peer[k]] = delivered[Peer[k]] PROVE Arrived(k)' = Arrived(k)
BY DEF Arrived

LEMMA OneArrived ==
  ASSUME IInv, NEW n \in Node, NEW d, delivered'[n] = Append(delivered[n], d)
  PROVE  Arrived(Peer[n])' = Arrived(Peer[n]) \cup {d.msg}
<1>1. Peer[Peer[n]] = n /\ delivered[n] \in Seq(Payload)
  BY Peers, Machines
<1> DEFINE s == delivered[n]
           z == Append(s, d)
<1>2. /\ Len(z) = Len(s) + 1 /\ Len(s) \in Nat /\ z[Len(s) + 1] = d
      /\ \A i \in 1..Len(s) : z[i] = s[i]
  BY <1>1
<1>3. delivered'[n] = z
  OBVIOUS
<1> HIDE DEF s, z
<1>4. Payloads(z) = Payloads(s) \cup {d.msg}
  <2>1. ASSUME NEW i \in 1..Len(z) PROVE z[i].msg \in {s[j].msg : j \in 1..Len(s)} \cup {d.msg}
    <3>1. CASE i \in 1..Len(s)
      BY <1>2, <3>1
    <3>2. CASE i = Len(s) + 1
      BY <1>2, <3>2
    <3> QED BY <1>2, <3>1, <3>2
  <2>2. ASSUME NEW i \in 1..Len(s) PROVE s[i].msg \in {z[j].msg : j \in 1..Len(z)}
    <3>1. i \in 1..Len(z) /\ z[i].msg = s[i].msg
      BY <1>2
    <3> QED BY <3>1
  <2>3. d.msg \in {z[j].msg : j \in 1..Len(z)}
    <3>1. Len(s) + 1 \in 1..Len(z) /\ z[Len(s) + 1].msg = d.msg
      BY <1>2
    <3> QED BY <3>1
  <2> QED BY <2>1, <2>2, <2>3 DEF Payloads
<1> QED BY <1>1, <1>3, <1>4 DEF Arrived, s

\* What a session does to its own payloads and to the statuses.
LEMMA OwnStep ==
  ASSUME IInv, NEW n \in Node, App(n) \/ Run(n)
  PROVE  OnlyAt(n)
<1>1. OthersSend(n) /\ OthersReceive(n)
  BY SessionSends, SessionReceives DEF Sends, Receives
<1>2. \A k \in Node \ {n} : /\ sent'[k] = sent[k] /\ txDataChan'[k] = txDataChan[k]
                            /\ status'[k] = status[k]
  <2>0. /\ sent \in [Node -> Seq(Msg)] /\ txDataChan \in [Node -> Seq(Msg)]
        /\ status \in [Node -> {"open", "closing", "closed"}]
    BY DEF IInv, TypeOK
  <2>1. CASE App(n)
    <3>1. CASE \E m \in Msg : SendContext(n, m)
      BY <2>0, <3>1 DEF SendContext
    <3>2. CASE ~\E m \in Msg : SendContext(n, m)
      BY <2>0, <2>1, <3>2 DEF App, SetTxAddress, Receive, ReadError, Close, appVars
    <3> QED BY <3>1, <3>2
  <2>2. CASE InitiateTx(n)
    BY <2>0, <2>2 DEF InitiateTx, SendSingleFrame, SendFirstFrame
  <2>3. CASE STminFires(n) \/ Timeouts(n)
    BY <2>3 DEF STminFires, Timeouts, FlowControlTimeout, ConsecutiveFrameTimeout, appVars
  <2>4. CASE ProcessRx(n)
    BY <2>4 DEF ProcessRx, RxForeign, RxBad, RxLateFlowControl, RxContinueToSend, RxWait,
       RxOverflow, RxSingleFrame, RxFirstFrameTooLarge, RxFirstFrame,
       RxStrayConsecutiveFrame, RxWrongSequence, RxLastConsecutiveFrame,
       RxConsecutiveFrame, appVars
  <2> QED BY <2>1, <2>2, <2>3, <2>4 DEF Run
<1> QED BY <1>1, <1>2 DEF OnlyAt, OthersSend, OthersReceive

-----------------------------------------------------------------------------
\* Every step keeps the payloads in order: the application's steps, ...
LEMMA AppOrdered ==
  ASSUME IInv, Apart, Lossless, Ordered, NEW n \in Node, App(n)
  PROVE  Ordered'
<1>1. OnlyAt(n)
  BY OwnStep
<1>2. UNCHANGED <<tx, rx, delivered, blamed, txChan, inbox>>
  BY DEF App, SendContext, SetTxAddress, Receive, ReadError, Close, txVars, rxVars, errVars
<1>3. \A k : BlamedOf(k)' = BlamedOf(k) /\ Arrived(k)' = Arrived(k)
  BY <1>2 DEF BlamedOf, Arrived
<1>4. Incoming(n, inbox[n], rx[n], Arrived(Peer[n]), BlamedOf(Peer[n]), status'[n])
  <2>1. status'[n] = "open" => status[n] = "open"
    BY StatusStep
  <2> QED BY <2>1, StreamsAt, ClosingInStep DEF Incoming
<1>5. Outgoing(n, sent'[n], txDataChan'[n], txChan[n], tx[n], BlamedOf(n), status'[n])
  <2>0. /\ Outgoing(n, sent[n], txDataChan[n], txChan[n], tx[n], BlamedOf(n), status[n])
        /\ sent[n] \in Seq(Msg) /\ txDataChan[n] \in Seq(Msg)
        /\ inbox[Peer[n]] \in Seq(Frame) /\ txChan[n] \in Seq(Frame)
    BY StreamsAt
  <2>1. CASE \E m \in Msg : SendContext(n, m)
    <3> PICK m \in Msg : SendContext(n, m)
      BY <2>1
    <3>1. /\ sent'[n] = Append(sent[n], m) /\ txDataChan'[n] = Append(txDataChan[n], m)
          /\ status'[n] = status[n] /\ Source[m] = n
          /\ \A i \in 1..Len(sent[n]) : sent[n][i] # m
      <4>1. /\ sent' = [sent EXCEPT ![n] = Append(sent[n], m)] /\ status' = status
            /\ txDataChan' = [txDataChan EXCEPT ![n] = Append(txDataChan[n], m)]
            /\ Source[m] = n /\ \A i \in DOMAIN sent[n] : sent[n][i] # m
        BY DEF SendContext
      <4>2. sent \in [Node -> Seq(Msg)] /\ DOMAIN sent[n] = 1..Len(sent[n])
        BY <2>0 DEF IInv, TypeOK
      <4> QED BY <4>1, <4>2, TxDataAt
    <3>2. InStep(n, Append(sent[n], m), Append(txDataChan[n], m), inbox[Peer[n]], txChan[n],
                 tx[n], rx[Peer[n]], Arrived(n), BlamedOf(n), status[n], status[Peer[n]])
      BY <2>0, <3>1, AcceptedInStep DEF Outgoing
    <3> QED BY <3>1, <3>2 DEF Outgoing
  <2>2. CASE ~\E m \in Msg : SendContext(n, m)
    <3>1. sent' = sent /\ txDataChan' = txDataChan
      BY <2>2 DEF App, SetTxAddress, Receive, ReadError, Close, appVars
    <3>2. status'[n] = "open" => status[n] = "open"
      BY StatusStep
    <3>3. Outgoing(n, sent[n], txDataChan[n], txChan[n], tx[n], BlamedOf(n), status'[n])
      BY <2>0, <3>2, ClosingInStep DEF Outgoing
    <3> QED BY <3>1, <3>3
  <2> QED BY <2>1, <2>2
<1> QED BY <1>1, <1>2, <1>3, <1>4, <1>5, Lifted

\* ... the end of a session, ...
LEMMA FinishOrdered ==
  ASSUME IInv, Apart, Ordered, NEW n \in Node, FinishClose(n)
  PROVE  Ordered'
<1> DEFINE t == [tx[n] EXCEPT !.timerFC = FALSE, !.timerST = FALSE]
           r == [rx[n] EXCEPT !.timerCF = FALSE]
<1>0. /\ tx' = [tx EXCEPT ![n] = t] /\ rx' = [rx EXCEPT ![n] = r]
      /\ txChan' = [txChan EXCEPT ![n] = <<>>] /\ inbox' = [inbox EXCEPT ![n] = <<>>]
      /\ status' = [status EXCEPT ![n] = "closed"]
      /\ UNCHANGED <<delivered, errVars, txDataChan, sent>>
  BY DEF FinishClose
<1>1. t.state = tx[n].state /\ t.msg = tx[n].msg /\ r.state = rx[n].state /\ r.msg = rx[n].msg
  BY Machines DEF TxMachine, RxMachine
<1> HIDE DEF t, r
<1>2. /\ tx'[n] = t /\ rx'[n] = r /\ txChan'[n] = <<>> /\ inbox'[n] = <<>> /\ status'[n] = "closed"
      /\ OnlyAt(n)
  <2>1. status'[n] = "closed" /\ \A k \in Node \ {n} : status'[k] = status[k]
    BY <1>0 DEF IInv, TypeOK
  <2>2. tx'[n] = t /\ txChan'[n] = <<>> /\ \A k \in Node \ {n} : tx'[k] = tx[k] /\ txChan'[k] = txChan[k]
    BY <1>0, TxAt, TxChanAt
  <2>3. rx'[n] = r /\ inbox'[n] = <<>> /\ \A k \in Node \ {n} : rx'[k] = rx[k] /\ inbox'[k] = inbox[k]
    BY <1>0, RxAt, InboxAt
  <2> QED BY <1>0, <2>1, <2>2, <2>3 DEF OnlyAt
<1>3. \A k : BlamedOf(k)' = BlamedOf(k) /\ Arrived(k)' = Arrived(k)
  BY <1>0 DEF BlamedOf, Arrived, errVars
<1>4. Outgoing(n, sent'[n], txDataChan'[n], txChan'[n], tx'[n], BlamedOf(n)', status'[n])
  <2>1. Outgoing(n, sent[n], txDataChan[n], <<>>, t, BlamedOf(n), "closed")
    BY <1>1, StreamsAt, SenderClosedInStep DEF Outgoing
  <2> QED BY <1>0, <1>2, <1>3, <2>1
<1>5. Incoming(n, inbox'[n], rx'[n], Arrived(Peer[n])', BlamedOf(Peer[n])', status'[n])
  BY <1>1, <1>2, <1>3, StreamsAt, ReceiverClosedInStep DEF Incoming
<1> QED BY <1>2, <1>3, <1>4, <1>5, Lifted

\* ... the next payload taken up, ...
LEMMA InitiateOrdered ==
  ASSUME IInv, Apart, Ordered, NEW n \in Node, InitiateTx(n)
  PROVE  Ordered'
<1> DEFINE m == Head(txDataChan[n])
           c == txDataChan[n]
           f == [type |-> IF FitsSingle(m) THEN "SF" ELSE "FF", id |-> txAddress[n], msg |-> m]
           t == IF FitsSingle(m) THEN TxIdle
                ELSE [tx[n] EXCEPT !.state = "WaitFC", !.msg = m, !.off = FirstChunk(m),
                                   !.seq = 1, !.timerFC = TRUE]
<1>0. /\ OnlyAt(n) /\ c # <<>> /\ tx[n].state = "Idle"
      /\ UNCHANGED <<rx, delivered, errVars, sent, status, inbox>>
      /\ txDataChan' = [txDataChan EXCEPT ![n] = Tail(c)]
  BY OwnStep DEF InitiateTx, SendSingleFrame, SendFirstFrame, Run, rxVars
<1>1. SendData(n, f, t)
  BY DEF InitiateTx, SendSingleFrame, SendFirstFrame
<1>2. /\ f \in Frame /\ Opens(f) /\ f.msg = m
      /\ t.state # "Idle" => f.type = "FF" /\ t.msg = m
  <2>1. m \in Msg
    BY <1>0, Machines
  <2>2. f \in Frame
    BY <2>1 DEF Frame, SingleFrame, FirstFrame, IInv, TypeOK
  <2>3. t.state # "Idle" => ~FitsSingle(m) /\ t.msg = m
    BY Machines DEF TxIdle, TxMachine
  <2> QED BY <2>2, <2>3 DEF Opens
<1> HIDE DEF f, t
<1>3. \/ tx'[n] = t /\ txChan'[n] = Append(txChan[n], f)
      \/ tx'[n] = TxIdle /\ txChan'[n] = txChan[n] /\ status[n] # "open"
  <2>1. CASE Queue(n, f) /\ tx' = [tx EXCEPT ![n] = t]
    BY <2>1, TxAt, TxChanAt DEF Queue
  <2>2. CASE status[n] = "closing" /\ tx' = [tx EXCEPT ![n] = TxIdle] /\ UNCHANGED txChan
    BY <2>2, TxAt
  <2> QED BY <1>1, <2>1, <2>2 DEF SendData
<1>4. txDataChan'[n] = Tail(c)
  BY <1>0, TxDataAt
<1>5. \A k : BlamedOf(k)' = BlamedOf(k) /\ Arrived(k)' = Arrived(k)
  BY <1>0 DEF BlamedOf, Arrived, errVars
<1>6. Incoming(n, inbox'[n], rx'[n], Arrived(Peer[n])', BlamedOf(Peer[n])', status'[n])
  BY <1>0, <1>5, StreamsAt
<1>7. Outgoing(n, sent'[n], txDataChan'[n], txChan'[n], tx'[n], BlamedOf(n)', status'[n])
  <2>1. Outgoing(n, sent[n], Tail(c), txChan'[n], tx'[n], BlamedOf(n), status[n])
    <3>1. CASE tx'[n] = t /\ txChan'[n] = Append(txChan[n], f)
      BY <1>0, <1>2, <3>1, StreamsAt, BegunInStep DEF Outgoing
    <3>2. CASE tx'[n] = TxIdle /\ txChan'[n] = txChan[n] /\ status[n] # "open"
      BY <1>0, <3>2, StreamsAt, SkippedInStep DEF Outgoing
    <3> QED BY <1>3, <3>1, <3>2
  <2> QED BY <1>0, <1>4, <1>5, <2>1
<1> QED BY <1>0, <1>5, <1>6, <1>7, Lifted

-----------------------------------------------------------------------------
\* ... the next consecutive frame, ...
LEMMA STminOrdered ==
  ASSUME IInv, Apart, Ordered, NEW n \in Node, STminFires(n)
  PROVE  Ordered'
<1>0. /\ OnlyAt(n) /\ tx[n].timerST
      /\ UNCHANGED <<rx, delivered, errVars, sent, txDataChan, status, inbox>>
  BY OwnStep DEF STminFires, Run, rxVars, appVars
<1>1. tx[n].state = "Transmit"
  BY <1>0, Machines DEF TxGood
<1>2. Keeps(n) \/ Advances(n)
  BY <1>1, STminSends DEF Sends, Begins
<1>3. \A k : BlamedOf(k)' = BlamedOf(k) /\ Arrived(k)' = Arrived(k)
  BY <1>0 DEF BlamedOf, Arrived, errVars
<1>4. Incoming(n, inbox'[n], rx'[n], Arrived(Peer[n])', BlamedOf(Peer[n])', status'[n])
  BY <1>0, <1>3, StreamsAt
<1>5. Outgoing(n, sent[n], txDataChan[n], txChan'[n], tx'[n], BlamedOf(n), status[n])
  <2>1. ASSUME NEW p \in Seq(Frame), Outgoing(n, sent[n], txDataChan[n], p, tx[n], BlamedOf(n), status[n]),
               tx'[n].state # "Idle" => tx[n].state # "Idle" /\ tx'[n].msg = tx[n].msg
        PROVE  Outgoing(n, sent[n], txDataChan[n], p, tx'[n], BlamedOf(n), status[n])
    BY <2>1, StreamsAt, GoesOnInStep DEF Outgoing
  <2>2. CASE Keeps(n)
    <3>1. tx'[n].state # "Idle" => tx[n].state # "Idle" /\ tx'[n].msg = tx[n].msg
      BY <2>2 DEF Keeps, Holds
    <3>2. CASE txChan'[n] = txChan[n]
      BY <2>1, <3>1, <3>2, StreamsAt
    <3>3. CASE \E f \in Frame : f.type = "FC" /\ txChan'[n] = Append(txChan[n], f)
      <4> PICK f \in Frame : f.type = "FC" /\ txChan'[n] = Append(txChan[n], f)
        BY <3>3
      <4>1. f.type \notin DataTypes /\ Append(txChan[n], f) \in Seq(Frame)
        BY StreamsAt DEF DataTypes
      <4>2. Outgoing(n, sent[n], txDataChan[n], Append(txChan[n], f), tx[n], BlamedOf(n), status[n])
        BY <4>1, StreamsAt, OtherQueued DEF Outgoing
      <4> QED BY <2>1, <3>1, <4>1, <4>2
    <3> QED BY <2>2, <3>2, <3>3 DEF Keeps
  <2>3. CASE Advances(n)
    <3> PICK f \in Frame :
          /\ f.type = "CF" /\ f.id = txAddress[n] /\ f.msg = tx[n].msg
          /\ f.off = tx[n].off /\ f.len = ChunkAt(f.msg, f.off)
          /\ txChan'[n] = Append(txChan[n], f)
          /\ tx'[n].state # "Idle" =>
               /\ tx'[n].msg = tx[n].msg /\ tx'[n].off = f.off + f.len
               /\ tx'[n].off < Size[tx[n].msg] /\ tx'[n].seq = (tx[n].seq + 1) % SeqMod
      BY <2>3 DEF Advances
    <3>1. tx'[n].state # "Idle" => tx'[n].msg = tx[n].msg /\ ~Ends(f)
      <4>1. tx[n].state # "Idle" => Size[tx[n].msg] \in Nat
        BY MsgAssumption, Machines DEF TxGood
      <4> QED BY <1>1, <4>1 DEF Ends
    <3>2. Outgoing(n, sent[n], txDataChan[n], Append(txChan[n], f), tx'[n], BlamedOf(n), status[n])
      BY <1>1, <3>1, StreamsAt, AdvancedInStep DEF Outgoing
    <3> QED BY <3>2
  <2> QED BY <1>2, <2>2, <2>3
<1>6. Outgoing(n, sent'[n], txDataChan'[n], txChan'[n], tx'[n], BlamedOf(n)', status'[n])
  BY <1>0, <1>3, <1>5
<1> QED BY <1>0, <1>3, <1>4, <1>6, Lifted

\* A frame that carries no payload is taken from the inbox.
LEMMA OtherTaken ==
  ASSUME IInv, Ordered, NEW n \in Node, inbox[n] # <<>>, ~Opens(Head(inbox[n]))
  PROVE  Incoming(n, Tail(inbox[n]), rx[n], Arrived(Peer[n]), BlamedOf(Peer[n]), status[n])
BY StreamsAt, IgnoredInStep DEF Incoming

\* ... a transfer given up by its sender, ...
LEMMA GivenUpOrdered ==
  ASSUME IInv, Apart, Sources, Ordered, NEW n \in Node, OnlyAt(n),
         UNCHANGED <<rx, delivered, sent, txDataChan, status, txChan>>,
         inbox' = inbox \/ (/\ inbox[n] # <<>> /\ ~Opens(Head(inbox[n]))
                            /\ inbox' = [inbox EXCEPT ![n] = Tail(inbox[n])]),
         tx[n].state # "Idle", tx' = [tx EXCEPT ![n] = TxIdle],
         blamed' = blamed \cup ({tx[n].msg} \cap Msg)
  PROVE  Ordered'
<1>1. tx[n].msg \in Msg /\ Source[tx[n].msg] = n
  BY Machines DEF TxGood, Sources
<1>2. /\ BlamedOf(n)' = BlamedOf(n) \cup {tx[n].msg}
      /\ \A j \in Node \ {n} : BlamedOf(j)' = BlamedOf(j)
  <2>1. {tx[n].msg} \cap Msg = {tx[n].msg}
    BY <1>1
  <2> DEFINE ms == {tx[n].msg}
  <2>2. blamed' = blamed \cup (ms \cap Msg) /\ \A m \in ms \cap Msg : Source[m] = n
    BY <1>1
  <2>3. ms \cap Msg = ms
    BY <2>1
  <2> HIDE DEF ms
  <2>4. /\ BlamedOf(n)' = BlamedOf(n) \cup (ms \cap Msg)
        /\ \A j \in Node \ {n} : BlamedOf(j)' = BlamedOf(j)
    BY <2>2, BlamedAt
  <2> QED BY <2>3, <2>4 DEF ms
<1>3. Peer[n] \in Node \ {n}
  BY Peers DEF Apart
<1>4. Arrived(Peer[n])' = Arrived(Peer[n]) /\ Arrived(n)' = Arrived(n)
  BY DEF Arrived
<1>5. tx'[n] = TxIdle
  BY TxAt
<1>6. Outgoing(n, sent[n], txDataChan[n], txChan[n], TxIdle, BlamedOf(n) \cup {tx[n].msg}, status[n])
  BY StreamsAt, GivenUpInStep DEF Outgoing
<1>7. Incoming(n, inbox'[n], rx[n], Arrived(Peer[n]), BlamedOf(Peer[n]), status[n])
  <2>1. CASE inbox' = inbox
    BY <2>1, StreamsAt
  <2>2. CASE inbox[n] # <<>> /\ ~Opens(Head(inbox[n])) /\ inbox' = [inbox EXCEPT ![n] = Tail(inbox[n])]
    <3>1. inbox'[n] = Tail(inbox[n])
      BY <2>2, InboxAt
    <3> QED BY <2>2, <3>1, OtherTaken
  <2> QED BY <2>1, <2>2
<1>8. Incoming(n, inbox'[n], rx'[n], Arrived(Peer[n])', BlamedOf(Peer[n])', status'[n])
  BY <1>2, <1>3, <1>4, <1>7
<1>9. Outgoing(n, sent'[n], txDataChan'[n], txChan'[n], tx'[n], BlamedOf(n)', status'[n])
  BY <1>2, <1>5, <1>6
<1> QED BY <1>2, <1>8, <1>9, Lifted

\* ... a frame of no payload taken from the inbox, ...
LEMMA TakenOrdered ==
  ASSUME IInv, Apart, Ordered, NEW n \in Node, OnlyAt(n),
         UNCHANGED <<rx, delivered, blamed, sent, txDataChan, status, txChan>>,
         inbox[n] # <<>>, ~Opens(Head(inbox[n])), inbox' = [inbox EXCEPT ![n] = Tail(inbox[n])],
         tx'[n].state # "Idle" => tx[n].state # "Idle" /\ tx'[n].msg = tx[n].msg
  PROVE  Ordered'
<1>1. \A k : BlamedOf(k)' = BlamedOf(k) /\ Arrived(k)' = Arrived(k)
  BY DEF BlamedOf, Arrived
<1>2. inbox'[n] = Tail(inbox[n])
  BY InboxAt
<1>3. Incoming(n, Tail(inbox[n]), rx[n], Arrived(Peer[n]), BlamedOf(Peer[n]), status[n])
  BY OtherTaken
<1>4. Incoming(n, inbox'[n], rx'[n], Arrived(Peer[n])', BlamedOf(Peer[n])', status'[n])
  BY <1>1, <1>2, <1>3
<1>5. Outgoing(n, sent[n], txDataChan[n], txChan[n], tx'[n], BlamedOf(n), status[n])
  BY StreamsAt, GoesOnInStep DEF Outgoing
<1>6. Outgoing(n, sent'[n], txDataChan'[n], txChan'[n], tx'[n], BlamedOf(n)', status'[n])
  BY <1>1, <1>5
<1> QED BY <1>1, <1>4, <1>6, Lifted

\* The first frame of the inbox is due.
LEMMA FrameDue ==
  ASSUME IInv, Transfers, NEW n \in Node, Running(n), inbox[n] # <<>>
  PROVE  LET f == Head(inbox[n]) IN
         /\ f \in Frame
         /\ f.type \in DataTypes => f.id = "base" /\ Source[f.msg] = Peer[n] /\ f.msg \in Msg
         /\ f.type = "CF" /\ rx[n].state = "WaitCF" =>
              /\ rx[n].msg = f.msg
              /\ Appended(n, f).msg = f.msg /\ Appended(n, f).len = f.off + f.len
              /\ f.off + f.len <= Size[f.msg] /\ f.off \in Nat /\ f.len \in Nat
              /\ rx[n].frameLen = Size[f.msg]
<1> DEFINE f == Head(inbox[n])
<1>1. Stream(Peer[n]) /\ Peer[Peer[n]] = n /\ inbox[n] \in Seq(Frame)
  BY Peers, Machines DEF Transfers
<1>2. PICK e : Before(n, rx[n], inbox[n], e)
  BY <1>1 DEF Stream, Streaming
<1>3. f \in Frame
  BY <1>1
<1>4. Continues(e[1], f, Peer[n])
  BY <1>1, <1>2, TurnTail DEF Before
<1> HIDE DEF f
<1>5. f.type \in DataTypes => f.id = "base" /\ Source[f.msg] = Peer[n] /\ f.msg \in Msg
  BY <1>3, <1>4, Kinds DEF Continues, DataTypes
<1>6. ASSUME f.type = "CF", rx[n].state = "WaitCF"
      PROVE  /\ rx[n].msg = f.msg
             /\ Appended(n, f).msg = f.msg /\ Appended(n, f).len = f.off + f.len
             /\ f.off + f.len <= Size[f.msg] /\ f.off \in Nat /\ f.len \in Nat
             /\ rx[n].frameLen = Size[f.msg]
  <2>1. f.msg = rx[n].msg /\ f.off = rx[n].len /\ f.len = ChunkAt(f.msg, f.off)
    BY <1>2, <1>4, <1>6 DEF Continues, Before
  <2>2. rx[n].msg \in Msg /\ rx[n].frameLen = Size[rx[n].msg]
    BY <1>6 DEF Transfers, Sources
  <2>3. f.off \in Nat /\ f.len \in Nat
    BY <1>3, <1>6, Kinds, FrameAssumption
  <2> QED BY <1>3, <1>6, <2>1, <2>2, <2>3, WholeChunk
<1> QED BY <1>3, <1>5, <1>6 DEF f

\* The payload a receiver is inside of, if any, is its peer's.
LEMMA InsideFrom ==
  ASSUME IInv, Sources, Ordered, NEW n \in Node
  PROVE  /\ \A m \in {rx[n].msg} \cap Msg : Source[m] = Peer[n] /\ rx[n].state = "WaitCF"
         /\ rx[n].state = "WaitCF" => rx[n].msg \in Msg
<1>1. rx[n].state # "WaitCF" => rx[n].msg = NoMsg
  BY StreamsAt DEF Incoming, InStep, Orderly, Midway
<1> QED BY <1>1, MsgAssumption DEF Sources

\* ... one frame of a reception, or its timeout, ...
LEMMA ReceptionOrdered ==
  ASSUME IInv, Apart, Ordered, NEW n \in Node, OnlyAt(n),
         UNCHANGED <<tx, sent, txDataChan, status>>,
         txChan' = txChan \/ \E f \in Frame : f.type = "FC" /\ Queue(n, f),
         NEW ms, blamed' = blamed \cup (ms \cap Msg), \A m \in ms \cap Msg : Source[m] = Peer[n],
         Incoming(n, inbox'[n], rx'[n], Arrived(Peer[n])', BlamedOf(Peer[n]) \cup (ms \cap Msg),
                  status[n])
  PROVE  Ordered'
<1>1. Peer[n] \in Node \ {n}
  BY Peers DEF Apart
<1>2. /\ BlamedOf(Peer[n])' = BlamedOf(Peer[n]) \cup (ms \cap Msg)
      /\ \A j \in Node \ {Peer[n]} : BlamedOf(j)' = BlamedOf(j)
  BY BlamedAt
<1>3. Outgoing(n, sent[n], txDataChan[n], txChan'[n], tx[n], BlamedOf(n), status[n])
  <2>1. CASE txChan' = txChan
    BY <2>1, StreamsAt
  <2>2. CASE \E f \in Frame : f.type = "FC" /\ Queue(n, f)
    <3> PICK f \in Frame : f.type = "FC" /\ Queue(n, f)
      BY <2>2
    <3>1. txChan'[n] = Append(txChan[n], f) /\ f.type \notin DataTypes
      BY TxChanAt DEF Queue, DataTypes
    <3>2. Outgoing(n, sent[n], txDataChan[n], Append(txChan[n], f), tx[n], BlamedOf(n), status[n])
      BY <3>1, StreamsAt, OtherQueued DEF Outgoing
    <3> QED BY <3>1, <3>2
  <2> QED BY <2>1, <2>2
<1>4. Outgoing(n, sent'[n], txDataChan'[n], txChan'[n], tx'[n], BlamedOf(n)', status'[n])
  BY <1>1, <1>2, <1>3
<1>5. Incoming(n, inbox'[n], rx'[n], Arrived(Peer[n])', BlamedOf(Peer[n])', status'[n])
  BY <1>2
<1> QED BY <1>2, <1>4, <1>5, Lifted

LEMMA FlowControlOrdered ==
  ASSUME IInv, Apart, Transfers, Ordered, NEW n \in Node,
         \/ RxForeign(n) \/ RxBad(n) \/ FlowControlTimeout(n) \/ RxStrayConsecutiveFrame(n)
         \/ RxLateFlowControl(n) \/ RxContinueToSend(n) \/ RxWait(n) \/ RxOverflow(n)
  PROVE  Ordered'
<1>0. OnlyAt(n) /\ Sources
  BY OwnStep DEF Run, Timeouts, ProcessRx, Transfers
<1>1. CASE FlowControlTimeout(n)
  <2>1. /\ UNCHANGED <<rx, delivered, sent, txDataChan, status, txChan, inbox>>
        /\ tx' = [tx EXCEPT ![n] = TxIdle] /\ blamed' = blamed \cup ({tx[n].msg} \cap Msg)
        /\ tx[n].timerFC
    BY <1>1 DEF FlowControlTimeout, FireErrors, rxVars, appVars
  <2>2. tx[n].state # "Idle"
    BY <2>1, Machines DEF TxGood
  <2> QED BY <1>0, <2>1, <2>2, GivenUpOrdered
<1>2. CASE RxForeign(n)
  <2>1. /\ UNCHANGED <<tx, rx, delivered, blamed, sent, txDataChan, status, txChan>>
        /\ Running(n) /\ inbox[n] # <<>> /\ Head(inbox[n]).id # "base"
        /\ inbox' = [inbox EXCEPT ![n] = Tail(inbox[n])]
    BY <1>2 DEF RxForeign, txVars, rxVars, errVars, appVars
  <2>2. ~Opens(Head(inbox[n]))
    BY <2>1, FrameDue, OpensData
  <2> QED BY <1>0, <2>1, <2>2, TakenOrdered
<1>3. CASE RxBad(n) \/ RxStrayConsecutiveFrame(n) \/ RxLateFlowControl(n)
  <2>1. /\ UNCHANGED <<tx, rx, delivered, sent, txDataChan, status, txChan>>
        /\ NextFrame(n, "BAD") \/ NextFrame(n, "CF") \/ NextFrame(n, "FC")
    BY <1>3 DEF RxBad, RxStrayConsecutiveFrame, RxLateFlowControl, txVars, rxVars, appVars
  <2>2. blamed' = blamed
    <3>1. FireErrors(n, 1, {}) \/ UNCHANGED errVars
      BY <1>3 DEF RxBad, RxStrayConsecutiveFrame, RxLateFlowControl
    <3> QED BY <3>1 DEF FireErrors, errVars
  <2>3. /\ inbox[n] # <<>> /\ ~Opens(Head(inbox[n]))
        /\ inbox' = [inbox EXCEPT ![n] = Tail(inbox[n])]
    BY <2>1 DEF NextFrame, Opens
  <2> QED BY <1>0, <2>1, <2>2, <2>3, TakenOrdered
<1>4. CASE RxContinueToSend(n) \/ RxWait(n) \/ RxOverflow(n)
  <2>1. /\ UNCHANGED <<rx, delivered, sent, txDataChan, status, txChan>>
        /\ NextFrame(n, "FC") /\ tx[n].state = "WaitFC"
    BY <1>4 DEF RxContinueToSend, RxWait, RxOverflow, FlowControl, rxVars, appVars
  <2>2. /\ inbox[n] # <<>> /\ ~Opens(Head(inbox[n]))
        /\ inbox' = [inbox EXCEPT ![n] = Tail(inbox[n])]
    BY <2>1 DEF NextFrame, Opens
  <2>3. \/ /\ tx' = [tx EXCEPT ![n] = TxIdle] /\ FireErrors(n, 1, {tx[n].msg})
        \/ /\ tx' = [tx EXCEPT ![n] = [tx[n] EXCEPT !.wait = @ + 1, !.timerFC = TRUE]]
           /\ UNCHANGED errVars
        \/ /\ tx' = [tx EXCEPT ![n] = [tx[n] EXCEPT !.state = "Transmit", !.block = 0, !.wait = 0,
                                       !.timerFC = FALSE, !.timerST = TRUE]]
           /\ UNCHANGED errVars
    BY <1>4 DEF RxContinueToSend, RxWait, RxOverflow
  <2>4. CASE tx' = [tx EXCEPT ![n] = TxIdle] /\ FireErrors(n, 1, {tx[n].msg})
    <3>1. blamed' = blamed \cup ({tx[n].msg} \cap Msg) /\ tx[n].state # "Idle"
      BY <2>1, <2>4 DEF FireErrors
    <3> QED BY <1>0, <2>1, <2>2, <2>4, <3>1, GivenUpOrdered
  <2>5. CASE /\ tx' = [tx EXCEPT ![n] = [tx[n] EXCEPT !.wait = @ + 1, !.timerFC = TRUE]]
             /\ UNCHANGED errVars
    <3>1. tx'[n].msg = tx[n].msg
      BY <2>5, Machines, TxAt DEF TxMachine
    <3>2. blamed' = blamed
      BY <2>5 DEF errVars
    <3> QED BY <1>0, <2>1, <2>2, <3>1, <3>2, TakenOrdered
  <2>6. CASE /\ tx' = [tx EXCEPT ![n] = [tx[n] EXCEPT !.state = "Transmit", !.block = 0, !.wait = 0,
                                       !.timerFC = FALSE, !.timerST = TRUE]]
             /\ UNCHANGED errVars
    <3>1. tx'[n].msg = tx[n].msg
      BY <2>6, Machines, TxAt DEF TxMachine
    <3>2. blamed' = blamed
      BY <2>6 DEF errVars
    <3> QED BY <1>0, <2>1, <2>2, <3>1, <3>2, TakenOrdered
  <2> QED BY <2>3, <2>4, <2>5, <2>6
<1> QED BY <1>1, <1>2, <1>3, <1>4

\* What Deliver does to the outcomes of payload d.
LEMMA DeliverOutcome ==
  ASSUME IInv, NEW n \in Node, NEW d, NEW k, NEW ms, Deliver(n, d, k, ms)
  PROVE  \/ /\ Arrived(Peer[n])' = Arrived(Peer[n]) \cup {d.msg}
            /\ blamed' = blamed \cup (ms \cap Msg)
         \/ /\ Arrived(Peer[n])' = Arrived(Peer[n])
            /\ blamed' = blamed \cup ((ms \cup {d.msg}) \cap Msg)
<1>1. CASE unread[n] < RxDataCap
  <2>1. delivered' = [delivered EXCEPT ![n] = Append(delivered[n], d)]
        /\ blamed' = blamed \cup (ms \cap Msg)
    BY <1>1 DEF Deliver, FireErrors
  <2>2. delivered'[n] = Append(delivered[n], d)
    BY <2>1, DeliveredAt
  <2> QED BY <2>1, <2>2, OneArrived
<1>2. CASE ~(unread[n] < RxDataCap)
  <2>1. delivered' = delivered /\ blamed' = blamed \cup ((ms \cup {d.msg}) \cap Msg)
    BY <1>2 DEF Deliver, FireErrors
  <2> QED BY <2>1 DEF Arrived
<1> QED BY <1>1, <1>2

LEMMA SingleFrameOrdered ==
  ASSUME IInv, Apart, Transfers, Ordered, NEW n \in Node, RxSingleFrame(n)
  PROVE  Ordered'
<1> DEFINE m == Head(inbox[n]).msg
           d == [msg |-> m, len |-> Size[m]]
           r == rx[n]
<1>0. OnlyAt(n) /\ Sources
  BY OwnStep DEF Run, ProcessRx, Transfers
<1>1. /\ NextFrame(n, "SF") /\ rx' = [rx EXCEPT ![n] = RxIdle]
      /\ Deliver(n, d, Interrupted(n), {r.msg})
      /\ UNCHANGED <<tx, sent, txDataChan, status, txChan>>
  BY DEF RxSingleFrame, txVars, appVars
<1>2. /\ inbox[n] # <<>> /\ inbox'[n] = Tail(inbox[n]) /\ Running(n)
      /\ Opens(Head(inbox[n])) /\ Ends(Head(inbox[n])) /\ rx'[n] = RxIdle
  BY <1>1, NextFrameShape, RxAt DEF Opens, Ends, NextFrame
<1>3. m \in Msg /\ Source[m] = Peer[n]
  BY <1>2, FrameDue, OpensData
<1>4. /\ \A x \in {r.msg} \cap Msg : Source[x] = Peer[n]
      /\ r.state = "WaitCF" => r.msg \in Msg
  BY <1>0, InsideFrom
<1>5. /\ Incoming(n, Tail(inbox[n]), RxIdle, Arrived(Peer[n]) \cup {m},
                  BlamedOf(Peer[n]) \cup ({r.msg} \cap Msg), status[n])
      /\ Incoming(n, Tail(inbox[n]), RxIdle, Arrived(Peer[n]),
                  BlamedOf(Peer[n]) \cup ({r.msg, m} \cap Msg), status[n])
  BY <1>2, <1>3, <1>4, StreamsAt, DeliveredInStep, RefusedInStep DEF Incoming
<1>6. d.msg = m
  OBVIOUS
<1> HIDE DEF m, d, r
<1>7. CASE /\ Arrived(Peer[n])' = Arrived(Peer[n]) \cup {d.msg}
           /\ blamed' = blamed \cup ({r.msg} \cap Msg)
  <2>1. Incoming(n, inbox'[n], rx'[n], Arrived(Peer[n])',
                 BlamedOf(Peer[n]) \cup ({r.msg} \cap Msg), status[n])
    BY <1>2, <1>5, <1>6, <1>7
  <2> QED BY <1>0, <1>1, <1>4, <1>7, <2>1, ReceptionOrdered
<1>8. CASE /\ Arrived(Peer[n])' = Arrived(Peer[n])
           /\ blamed' = blamed \cup (({r.msg} \cup {d.msg}) \cap Msg)
  <2>1. {r.msg} \cup {d.msg} = {r.msg, m}
    BY <1>6
  <2>2. blamed' = blamed \cup ({r.msg, m} \cap Msg)
    BY <1>8, <2>1
  <2>3. Incoming(n, inbox'[n], rx'[n], Arrived(Peer[n])',
                 BlamedOf(Peer[n]) \cup ({r.msg, m} \cap Msg), status[n])
    BY <1>2, <1>5, <1>8
  <2>4. \A x \in {r.msg, m} \cap Msg : Source[x] = Peer[n]
    BY <1>3, <1>4
  <2> QED BY <1>0, <1>1, <2>2, <2>3, <2>4, ReceptionOrdered
<1>9. \/ /\ Arrived(Peer[n])' = Arrived(Peer[n]) \cup {d.msg}
         /\ blamed' = blamed \cup ({r.msg} \cap Msg)
      \/ /\ Arrived(Peer[n])' = Arrived(Peer[n])
         /\ blamed' = blamed \cup (({r.msg} \cup {d.msg}) \cap Msg)
  BY <1>1, DeliverOutcome
<1> QED BY <1>7, <1>8, <1>9

LEMMA FirstFrameOrdered ==
  ASSUME IInv, Apart, Transfers, Ordered, NEW n \in Node, RxFirstFrameTooLarge(n) \/ RxFirstFrame(n)
  PROVE  Ordered'
<1> DEFINE m == Head(inbox[n]).msg
           r == rx[n]
<1>0. OnlyAt(n) /\ Sources
  BY OwnStep DEF Run, ProcessRx, Transfers
<1>1. NextFrame(n, "FF") /\ UNCHANGED <<tx, delivered, sent, txDataChan, status>>
  BY DEF RxFirstFrameTooLarge, RxFirstFrame, txVars, appVars
<1>2. /\ inbox[n] # <<>> /\ inbox'[n] = Tail(inbox[n]) /\ Running(n) /\ Opens(Head(inbox[n]))
  BY <1>1, NextFrameShape DEF Opens, NextFrame
<1>3. m \in Msg /\ Source[m] = Peer[n]
  BY <1>2, FrameDue, OpensData
<1>4. /\ \A x \in {r.msg} \cap Msg : Source[x] = Peer[n]
      /\ r.state = "WaitCF" => r.msg \in Msg
  BY <1>0, InsideFrom
<1>5. Arrived(Peer[n])' = Arrived(Peer[n])
  BY <1>1 DEF Arrived
<1>6. CASE RxFirstFrameTooLarge(n)
  <2>1. /\ rx' = [rx EXCEPT ![n] = RxIdle] /\ txChan' = txChan
        /\ blamed' = blamed \cup ({r.msg, m} \cap Msg)
    BY <1>6 DEF RxFirstFrameTooLarge, FireErrors
  <2>2. rx'[n] = RxIdle
    BY <2>1, RxAt
  <2>3. Incoming(n, Tail(inbox[n]), RxIdle, Arrived(Peer[n]),
                  BlamedOf(Peer[n]) \cup ({r.msg, m} \cap Msg), status[n])
    BY <1>2, <1>3, <1>4, StreamsAt, RefusedInStep DEF Incoming
  <2> HIDE DEF m, r
  <2>4. Incoming(n, inbox'[n], rx'[n], Arrived(Peer[n])',
                 BlamedOf(Peer[n]) \cup ({r.msg, m} \cap Msg), status[n])
    BY <1>2, <1>5, <2>2, <2>3
  <2>5. \A x \in {r.msg, m} \cap Msg : Source[x] = Peer[n]
    BY <1>3, <1>4
  <2> QED BY <1>0, <1>1, <2>1, <2>4, <2>5, ReceptionOrdered
<1>7. CASE RxFirstFrame(n)
  <2>1. SendFlowControl(n, Reception(n, m)) /\ blamed' = blamed \cup ({r.msg} \cap Msg)
    BY <1>7 DEF RxFirstFrame, FireErrors
  <2>2. txChan' = txChan \/ \E f \in Frame : f.type = "FC" /\ Queue(n, f)
    BY <2>1, FlowControlQueued
  <2>3. Reception(n, m).state = "WaitCF" /\ Reception(n, m).msg = m
    BY DEF Reception, RxIdle
  <2>4. (rx'[n].state = "WaitCF" /\ rx'[n].msg = m) \/ (status[n] # "open" /\ rx'[n] = RxIdle)
    <3>1. \/ rx' = [rx EXCEPT ![n] = Reception(n, m)]
          \/ rx' = [rx EXCEPT ![n] = RxIdle] /\ status[n] = "closing"
      BY <2>1 DEF SendFlowControl
    <3> QED BY <2>3, <3>1, RxAt
  <2>5. Incoming(n, Tail(inbox[n]), rx'[n], Arrived(Peer[n]),
                  BlamedOf(Peer[n]) \cup ({r.msg} \cap Msg), status[n])
    BY <1>2, <1>3, <1>4, <2>4, StreamsAt, StartedInStep DEF Incoming
  <2> HIDE DEF m, r
  <2>6. Incoming(n, inbox'[n], rx'[n], Arrived(Peer[n])',
                 BlamedOf(Peer[n]) \cup ({r.msg} \cap Msg), status[n])
    BY <1>2, <1>5, <2>5
  <2> QED BY <1>0, <1>1, <1>4, <2>1, <2>2, <2>6, ReceptionOrdered
<1> QED BY <1>6, <1>7

LEMMA AbandonOrdered ==
  ASSUME IInv, Apart, Transfers, Ordered, NEW n \in Node,
         RxWrongSequence(n) \/ ConsecutiveFrameTimeout(n)
  PROVE  Ordered'
<1> DEFINE r == rx[n]
           B == BlamedOf(Peer[n]) \cup ({r.msg} \cap Msg)
<1>0. OnlyAt(n) /\ Sources
  BY OwnStep DEF Run, ProcessRx, Timeouts, Transfers
<1>1. /\ UNCHANGED <<tx, delivered, sent, txDataChan, status, txChan>>
      /\ rx' = [rx EXCEPT ![n] = RxIdle] /\ blamed' = blamed \cup ({r.msg} \cap Msg)
      /\ inbox' = inbox \/ NextFrame(n, "CF")
  BY DEF RxWrongSequence, ConsecutiveFrameTimeout, FireErrors, txVars, appVars
<1>2. rx'[n] = RxIdle /\ Arrived(Peer[n])' = Arrived(Peer[n])
  BY <1>1, RxAt DEF Arrived
<1>3. /\ \A x \in {r.msg} \cap Msg : Source[x] = Peer[n]
      /\ r.state = "WaitCF" => r.msg \in Msg
  BY <1>0, InsideFrom
<1>4. Incoming(n, inbox'[n], RxIdle, Arrived(Peer[n]), B, status[n])
  <2>1. CASE inbox' = inbox
    BY <1>3, <2>1, StreamsAt, StoppedInStep DEF Incoming
  <2>2. CASE NextFrame(n, "CF")
    <3>1. /\ inbox[n] # <<>> /\ inbox'[n] = Tail(inbox[n]) /\ ~Opens(Head(inbox[n]))
      BY <2>2, NextFrameShape DEF Opens
    <3>2. Incoming(n, Tail(inbox[n]), RxIdle, Arrived(Peer[n]), B, status[n])
      BY <1>3, <3>1, StreamsAt, LeftInStep DEF Incoming
    <3> QED BY <3>1, <3>2
  <2> QED BY <1>1, <2>1, <2>2
<1>5. Incoming(n, inbox'[n], rx'[n], Arrived(Peer[n])', B, status[n])
  BY <1>2, <1>4
<1> HIDE DEF r
<1> QED BY <1>0, <1>1, <1>3, <1>5, ReceptionOrdered

LEMMA LastFrameOrdered ==
  ASSUME IInv, Apart, Transfers, Ordered, NEW n \in Node, RxLastConsecutiveFrame(n)
  PROVE  Ordered'
<1> DEFINE f == Head(inbox[n])
           d == [msg |-> Appended(n, f).msg, len |-> Appended(n, f).len]
           m == rx[n].msg
<1>0. OnlyAt(n) /\ Sources
  BY OwnStep DEF Run, ProcessRx, Transfers
<1>1. /\ NextFrame(n, "CF") /\ rx' = [rx EXCEPT ![n] = RxIdle] /\ rx[n].state = "WaitCF"
      /\ Deliver(n, d, 0, {}) /\ Appended(n, f).len >= Appended(n, f).frameLen
      /\ UNCHANGED <<tx, sent, txDataChan, status, txChan>>
  BY DEF RxLastConsecutiveFrame, InSequence, txVars, appVars
<1>2. /\ inbox[n] # <<>> /\ inbox'[n] = Tail(inbox[n]) /\ Running(n)
      /\ f.type = "CF" /\ rx'[n] = RxIdle
  BY <1>1, NextFrameShape, RxAt DEF NextFrame
<1>3. /\ m \in Msg /\ Source[m] = Peer[n] /\ f.msg = m /\ d.msg = m
      /\ Appended(n, f).len = f.off + f.len /\ f.off + f.len <= Size[m]
      /\ f.off \in Nat /\ f.len \in Nat /\ rx[n].frameLen = Size[m]
  BY <1>0, <1>1, <1>2, FrameDue DEF Sources
<1>4. Appended(n, f).frameLen = rx[n].frameLen
  BY Machines DEF Appended, RxMachine
<1>5. Ends(f) /\ ~Opens(f)
  <2>1. Size[m] \in Nat
    BY <1>3, MsgAssumption
  <2>2. f.off + f.len = Size[m]
    BY <1>1, <1>3, <1>4, <2>1
  <2> QED BY <1>2, <1>3, <2>2 DEF Ends, Opens
<1>6. /\ Incoming(n, Tail(inbox[n]), RxIdle, Arrived(Peer[n]) \cup {m}, BlamedOf(Peer[n]), status[n])
      /\ Incoming(n, Tail(inbox[n]), RxIdle, Arrived(Peer[n]), BlamedOf(Peer[n]) \cup {m}, status[n])
  BY <1>1, <1>2, <1>3, <1>5, StreamsAt, CompletedInStep DEF Incoming
<1>7. \/ Arrived(Peer[n])' = Arrived(Peer[n]) \cup {m} /\ blamed' = blamed \cup ({} \cap Msg)
      \/ Arrived(Peer[n])' = Arrived(Peer[n]) /\ blamed' = blamed \cup (({} \cup {m}) \cap Msg)
  <2>1. d.msg = m /\ Deliver(n, d, 0, {})
    BY <1>1, <1>3
  <2> HIDE DEF d, m
  <2> QED BY <2>1, DeliverOutcome
<1> HIDE DEF f, d, m
<1>8. CASE Arrived(Peer[n])' = Arrived(Peer[n]) \cup {m} /\ blamed' = blamed \cup ({} \cap Msg)
  <2>1. BlamedOf(Peer[n]) \cup ({} \cap Msg) = BlamedOf(Peer[n])
    OBVIOUS
  <2>2. Incoming(n, inbox'[n], rx'[n], Arrived(Peer[n])', BlamedOf(Peer[n]) \cup ({} \cap Msg), status[n])
    BY <1>2, <1>6, <1>8, <2>1
  <2> QED BY <1>0, <1>1, <1>8, <2>2, ReceptionOrdered
<1>9. CASE Arrived(Peer[n])' = Arrived(Peer[n]) /\ blamed' = blamed \cup (({} \cup {m}) \cap Msg)
  <2>1. {m} \cap Msg = {m} /\ ({} \cup {m}) \cap Msg = {m}
    BY <1>3
  <2>2. Incoming(n, inbox'[n], rx'[n], Arrived(Peer[n])', BlamedOf(Peer[n]) \cup ({m} \cap Msg), status[n])
    BY <1>2, <1>6, <1>9, <2>1
  <2>3. blamed' = blamed \cup ({m} \cap Msg) /\ \A x \in {m} \cap Msg : Source[x] = Peer[n]
    BY <1>3, <1>9, <2>1
  <2> QED BY <1>0, <1>1, <2>2, <2>3, ReceptionOrdered
<1> QED BY <1>7, <1>8, <1>9

LEMMA PartOrdered ==
  ASSUME IInv, Apart, Transfers, Ordered, NEW n \in Node, RxConsecutiveFrame(n)
  PROVE  Ordered'
<1> DEFINE f == Head(inbox[n])
           a == Appended(n, f)
           r == rx[n]
<1>0. OnlyAt(n) /\ Sources
  BY OwnStep DEF Run, ProcessRx, Transfers
<1>1. /\ NextFrame(n, "CF") /\ r.state = "WaitCF"
      /\ UNCHANGED <<tx, delivered, errVars, sent, txDataChan, status>>
      /\ \/ SendFlowControl(n, [a EXCEPT !.block = 0])
         \/ rx' = [rx EXCEPT ![n] = [a EXCEPT !.block = a.block + 1]] /\ txChan' = txChan
  BY DEF RxConsecutiveFrame, InSequence, txVars, appVars
<1>2. /\ inbox[n] # <<>> /\ inbox'[n] = Tail(inbox[n]) /\ Running(n)
      /\ f.type = "CF" /\ ~Opens(f) /\ f \in Frame
  BY <1>1, NextFrameShape, FrameDue DEF NextFrame, Opens
<1>3. a \in RxMachine /\ a.state = "WaitCF" /\ a.msg = r.msg
  BY <1>1, <1>2, FrameDue, AppendedTyped
<1> HIDE DEF a
<1>4. \A b : [a EXCEPT !.block = b].state = r.state /\ [a EXCEPT !.block = b].msg = r.msg
  BY <1>1, <1>3 DEF RxMachine
<1>5. txChan' = txChan \/ \E g \in Frame : g.type = "FC" /\ Queue(n, g)
  BY <1>1, FlowControlQueued
<1>6. \/ rx'[n].state = r.state /\ rx'[n].msg = r.msg
      \/ status[n] # "open" /\ rx'[n] = RxIdle
  <2>1. \/ \E b : rx' = [rx EXCEPT ![n] = [a EXCEPT !.block = b]]
        \/ rx' = [rx EXCEPT ![n] = RxIdle] /\ status[n] = "closing"
    BY <1>1 DEF SendFlowControl
  <2>2. CASE \E b : rx' = [rx EXCEPT ![n] = [a EXCEPT !.block = b]]
    <3> PICK b : rx' = [rx EXCEPT ![n] = [a EXCEPT !.block = b]]
      BY <2>2
    <3>1. rx'[n] = [a EXCEPT !.block = b]
      BY RxAt
    <3> QED BY <1>4, <3>1
  <2>3. CASE rx' = [rx EXCEPT ![n] = RxIdle] /\ status[n] = "closing"
    BY <2>3, RxAt
  <2> QED BY <2>1, <2>2, <2>3
<1>7. r.state = "WaitCF" => r.msg \in Msg
  BY <1>0, InsideFrom
<1>8. Incoming(n, Tail(inbox[n]), rx'[n], Arrived(Peer[n]), BlamedOf(Peer[n]), status[n])
  <2>1. CASE rx'[n].state = r.state /\ rx'[n].msg = r.msg
    BY <1>2, <2>1, StreamsAt, IgnoredInStep DEF Incoming
  <2>2. CASE status[n] # "open" /\ rx'[n] = RxIdle
    BY <1>2, <1>7, <2>2, StreamsAt, LeftInStep DEF Incoming
  <2> QED BY <1>6, <2>1, <2>2
<1>9. /\ Arrived(Peer[n])' = Arrived(Peer[n]) /\ BlamedOf(Peer[n]) \cup ({} \cap Msg) = BlamedOf(Peer[n])
      /\ blamed' = blamed \cup ({} \cap Msg) /\ \A x \in {} \cap Msg : Source[x] = Peer[n]
  BY <1>1 DEF Arrived, errVars
<1>10. Incoming(n, inbox'[n], rx'[n], Arrived(Peer[n])', BlamedOf(Peer[n]) \cup ({} \cap Msg), status[n])
  BY <1>2, <1>8, <1>9
<1> QED BY <1>0, <1>1, <1>5, <1>9, <1>10, ReceptionOrdered

\* ... and those of the bus.
LEMMA BusOrdered ==
  ASSUME IInv, Apart, Lossless, Ordered, NEW n \in Node, Bus(n)
  PROVE  Ordered'
<1>0. /\ UNCHANGED <<tx, rx, delivered, blamed, sent, txDataChan, status>>
      /\ Transfer(n) \/ \E f \in InjectFrames : Inject(n, f)
  <2>1. ~(lost < MaxLoss)
    BY DEF Lossless, IInv, TypeOK
  <2>2. Transfer(n) \/ \E f \in InjectFrames : Inject(n, f)
    BY <2>1 DEF Bus, DropAtSubscriber, Lose, SendFails
  <2> QED BY <2>2 DEF Transfer, Inject, txVars, rxVars, errVars, appVars
<1>1. \A k : BlamedOf(k)' = BlamedOf(k) /\ Arrived(k)' = Arrived(k)
  BY <1>0 DEF BlamedOf, Arrived
<1>2. Peer[n] \in Node \ {n} /\ Peer[Peer[n]] = n
  BY Peers DEF Apart
<1>3. ASSUME NEW k \in Node, txChan'[k] = txChan[k], inbox'[Peer[k]] = inbox[Peer[k]]
      PROVE  Order(k)'
  <2>1. Order(k)
    BY DEF Ordered
  <2> QED BY <1>0, <1>1, <1>3, <2>1 DEF Order
<1>4. \A k \in Node \ {n} : Peer[k] # Peer[n]
  BY Peers
<1>5. CASE Transfer(n)
  <2>1. /\ status[n] = "open" /\ txChan[n] # <<>> /\ txChan' = [txChan EXCEPT ![n] = Tail(txChan[n])]
        /\ inbox' = IF status[Peer[n]] = "open"
                    THEN [inbox EXCEPT ![Peer[n]] = Append(inbox[Peer[n]], Head(txChan[n]))]
                    ELSE inbox
    BY <1>5 DEF Transfer, TakeFrame
  <2>2. txChan'[n] = Tail(txChan[n]) /\ \A k \in Node \ {n} : txChan'[k] = txChan[k]
    BY <2>1, TxChanAt
  <2>3. CASE status[Peer[n]] = "open"
    <3>1. /\ inbox'[Peer[n]] = Append(inbox[Peer[n]], Head(txChan[n]))
          /\ \A k \in Node \ {Peer[n]} : inbox'[k] = inbox[k]
      BY <1>2, <2>1, <2>3, InboxAt
    <3>2. InStep(n, sent[n], txDataChan[n], Append(inbox[Peer[n]], Head(txChan[n])), Tail(txChan[n]),
                 tx[n], rx[Peer[n]], Arrived(n), BlamedOf(n), status[n], status[Peer[n]])
      BY <2>1, StreamsAt, TransferredInStep DEF Outgoing
    <3>3. Order(n)'
      BY <1>0, <1>1, <2>2, <3>1, <3>2 DEF Order
    <3>4. \A k \in Node \ {n} : Order(k)'
      BY <1>3, <1>4, <2>2, <3>1, Peers
    <3> QED BY <3>3, <3>4 DEF Ordered
  <2>4. CASE status[Peer[n]] # "open"
    <3>1. inbox' = inbox
      BY <2>1, <2>4
    <3>2. InStep(n, sent[n], txDataChan[n], inbox[Peer[n]], Tail(txChan[n]),
                 tx[n], rx[Peer[n]], Arrived(n), BlamedOf(n), status[n], status[Peer[n]])
      BY <2>1, <2>4, StreamsAt, DroppedInStep DEF Outgoing
    <3>3. Order(n)'
      BY <1>0, <1>1, <2>2, <3>1, <3>2 DEF Order
    <3>4. \A k \in Node \ {n} : Order(k)'
      BY <1>3, <2>2, <3>1
    <3> QED BY <3>3, <3>4 DEF Ordered
  <2> QED BY <2>3, <2>4
<1>6. CASE \E f \in InjectFrames : Inject(n, f)
  <2> PICK f \in InjectFrames : Inject(n, f)
    BY <1>6
  <2>1. f \in Frame /\ f.type \notin DataTypes
    BY InjectAssumption DEF Frame, FlowControlFrame, BadFrame, DataTypes
  <2>2. inbox' = [inbox EXCEPT ![n] = Append(inbox[n], f)] /\ txChan' = txChan
    BY DEF Inject
  <2>3. inbox'[n] = Append(inbox[n], f) /\ \A k \in Node \ {n} : inbox'[k] = inbox[k]
    BY <2>2, InboxAt
  <2>4. Incoming(n, Append(inbox[n], f), rx[n], Arrived(Peer[n]), BlamedOf(Peer[n]), status[n])
    BY <2>1, StreamsAt, OtherQueued DEF Incoming
  <2>5. Order(Peer[n])'
    BY <1>0, <1>1, <1>2, <2>2, <2>3, <2>4 DEF Order, Incoming
  <2>6. \A k \in Node \ {Peer[n]} : Order(k)'
    <3>1. \A k \in Node \ {Peer[n]} : Peer[k] \in Node \ {n}
      BY Peers
    <3> QED BY <1>3, <2>2, <2>3, <3>1
  <2> QED BY <2>5, <2>6 DEF Ordered
<1> QED BY <1>0, <1>5, <1>6

LEMMA InitOrdered == ASSUME Init PROVE Ordered
<1> SUFFICES ASSUME NEW n \in Node PROVE Order(n)
  BY DEF Ordered
<1>1. /\ sent[n] = <<>> /\ txDataChan[n] = <<>> /\ inbox[Peer[n]] = <<>> /\ txChan[n] = <<>>
      /\ tx[n] = TxIdle /\ rx[Peer[n]] = RxIdle /\ delivered[Peer[n]] = <<>> /\ blamed = {}
  BY Peers DEF Init
<1>2. Arrived(n) = {} /\ BlamedOf(n) = {}
  BY <1>1 DEF Arrived, BlamedOf, Payloads
<1>3. Orderly(<<>>, 0, <<>> \o <<>>, TxIdle, RxIdle, {}, {})
  <2>1. <<>> \o <<>> = <<>> /\ Len(<<>>) = 0 /\ TxIdle.state = "Idle" /\ RxIdle.state = "Idle" /\ RxIdle.msg = NoMsg
    BY DEF TxIdle, RxIdle
  <2> QED BY <2>1 DEF Orderly, Distinct, InOrder, Latest, Midway, Doomed
<1>4. InStep(n, <<>>, <<>>, <<>>, <<>>, TxIdle, RxIdle, {}, {}, status[n], status[Peer[n]])
  <2>1. Len(<<>>) = 0 /\ Len(<<>>) - Len(<<>>) = 0
    OBVIOUS
  <2> QED BY <1>3, <2>1 DEF InStep, Follows
<1> QED BY <1>1, <1>2, <1>4 DEF Order

-----------------------------------------------------------------------------
\* What the order of the payloads says about their outcomes.

\* Payload m has begun; those delivered, D, all come before it.
Ahead(s, h, m, D) == Begun(s, h, m) /\ \A x \in D : Begun(s, h, x) /\ Pos(s, x) < Pos(s, m)

LEMMA AheadOfAll ==
  ASSUME NEW s \in Seq(Msg), Distinct(s), NEW h \in 0..Len(s), NEW m, NEW D, Ahead(s, h, m, D)
  PROVE  /\ Pos(s, m) \in 1..Len(s) /\ s[Pos(s, m)] = m
         /\ \A j \in 1..Len(s) : j >= Pos(s, m) => s[j] \notin D
<1>1. Pos(s, m) \in 1..Len(s) /\ s[Pos(s, m)] = m
  BY DEF Ahead, Begun
<1>2. ASSUME NEW j \in 1..Len(s), j >= Pos(s, m), s[j] \in D PROVE FALSE
  <2>1. Pos(s, s[j]) = j
    BY PosAt
  <2> QED BY <1>1, <1>2, <2>1 DEF Ahead
<1> QED BY <1>1, <1>2

\* The payload in the sender's hand, ...
LEMMA LatestAhead ==
  ASSUME NEW s \in Seq(Msg), NEW h, NEW q, NEW t, NEW r, NEW D, NEW B, Orderly(s, h, q, t, r, D, B),
         t.state # "Idle"
  PROVE  Ahead(s, h, t.msg, D)
<1>1. /\ Distinct(s) /\ h \in 0..Len(s) /\ h > 0 /\ t.msg = s[h] /\ t.msg \notin D
      /\ \A x \in D : Begun(s, h, x)
  BY DEF Orderly, Latest, Midway
<1>2. Begun(s, h, t.msg) /\ Pos(s, t.msg) = h
  BY <1>1, BegunAt
<1>3. ASSUME NEW x \in D PROVE Pos(s, x) < h
  <2>1. Pos(s, x) \in 1..h /\ s[Pos(s, x)] = x
    BY <1>1 DEF Begun
  <2>2. Pos(s, x) # h
    BY <1>1, <2>1
  <2> QED BY <1>1, <2>1, <2>2
<1> QED BY <1>1, <1>2, <1>3 DEF Ahead

\* ... the one the receiver is inside of, ...
LEMMA InsideAhead ==
  ASSUME NEW s, NEW h, NEW q, NEW t, NEW r, NEW D, NEW B, Orderly(s, h, q, t, r, D, B),
         r.state = "WaitCF"
  PROVE  Ahead(s, h, r.msg, D)
BY DEF Orderly, Midway, Ahead

\* ... and the one that begins next are ahead of all those delivered.
LEMMA HeadAhead ==
  ASSUME NEW s, NEW h, NEW q \in Seq(Frame), q # <<>>, NEW t, NEW r, NEW D, NEW B,
         Orderly(s, h, q, t, r, D, B), Opens(Head(q))
  PROVE  /\ Ahead(s, h, Head(q).msg, D)
         /\ Ends(Head(q)) => Head(q).msg \notin B
<1>1. /\ Begun(s, h, Head(q).msg) /\ \A m \in D : Pos(s, m) < Pos(s, Head(q).msg)
      /\ Head(q).msg \in B => EndsNot(q, Head(q).msg)
  BY FirstInLine
<1>2. \A x \in D : Begun(s, h, x)
  BY DEF Orderly, Midway
<1>3. 1 \in 1..Len(q) /\ Head(q) = q[1]
  OBVIOUS
<1> QED BY <1>1, <1>2, <1>3 DEF Ahead, EndsNot

\* The last frame of a payload some error was about never arrives.
LEMMA LastUnblamed ==
  ASSUME NEW s, NEW h, NEW q \in Seq(Frame), q # <<>>, NEW t, NEW r, NEW D, NEW B,
         Orderly(s, h, q, t, r, D, B), r.state = "WaitCF", Head(q).msg = r.msg, Ends(Head(q))
  PROVE  r.msg \notin B
<1>1. r.msg \in B => EndsNot(q, r.msg)
  BY DEF Orderly, Doomed, Inside
<1>2. 1 \in 1..Len(q) /\ Head(q) = q[1]
  OBVIOUS
<1> QED BY <1>1, <1>2 DEF EndsNot

\* What a delivery overtakes has had its outcome, or it is what the receiver was inside of.
LEMMA NoneOvertaken ==
  ASSUME NEW n, NEW s \in Seq(Msg), NEW c \in Seq(Msg), NEW q \in Seq(Frame), NEW p \in Seq(Frame),
         NEW t, NEW r, NEW D, NEW B, NEW a, InStep(n, s, c, q, p, t, r, D, B, a, "open"),
         q # <<>>, NEW m,
         (Opens(Head(q)) /\ m = Head(q).msg) \/ (r.state = "WaitCF" /\ m = r.msg),
         NEW i \in 1..Len(s), i < Pos(s, m)
  PROVE  s[i] \in B \cup D \/ Inside(r, s[i])
<1> DEFINE h == Len(s) - Len(c)
           l == q \o p
<1>1. /\ h \in 0..Len(s) /\ Orderly(s, h, l, t, r, D, B) /\ l \in Seq(Frame)
      /\ l # <<>> /\ Head(l) = Head(q)
  BY InStepTypes, LineTail
<1>2. \A k \in 1..h :
        Accounted(s, k, l, r, D, B) \/ (a # "open" /\ Unreached(s, k, q, r))
  BY DEF InStep
<1>3. 1 \in 1..Len(q) /\ q[1] = Head(q) /\ 1 \in 1..Len(l) /\ l[1] = Head(q)
  BY <1>1
<1> HIDE DEF h, l
<1>4. Begun(s, h, m)
  BY <1>1, <1>3, OpensData DEF Orderly, InOrder, Midway
<1>5. i \in 1..h /\ Pos(s, s[i]) = i
  BY <1>1, <1>4, PosAt DEF Begun, Orderly
<1>6. ~Unreached(s, i, q, r)
  BY <1>3, <1>4, <1>5 DEF Unreached, Begun
<1>7. ASSUME OpensIn(l, s[i]) PROVE FALSE
  <2> PICK k \in 1..Len(l) : Opens(l[k]) /\ l[k].msg = s[i]
    BY <1>7 DEF OpensIn
  <2>1. CASE r.state = "WaitCF" /\ m = r.msg
    <3>1. Pos(s, r.msg) < Pos(s, l[k].msg)
      BY <1>1, <2>1 DEF Orderly, Midway, Precedes
    <3> QED BY <1>4, <1>5, <2>1, <3>1 DEF Begun
  <2>2. CASE Opens(Head(q)) /\ m = Head(q).msg
    <3>1. k = 1 \/ Pos(s, l[1].msg) < Pos(s, l[k].msg)
      <4>1. l[1].type \in DataTypes
        BY <1>3, <2>2, OpensData
      <4> QED BY <1>1, <1>3, <4>1 DEF Orderly, InOrder
    <3> QED BY <1>3, <1>4, <1>5, <2>2, <3>1 DEF Begun
  <2> QED BY <2>1, <2>2
<1> QED BY <1>2, <1>5, <1>6, <1>7 DEF Accounted

-----------------------------------------------------------------------------
\* The two sessions as a channel.
LEMMA GivenAt ==
  ASSUME IInv, IntactDelivery, NEW n \in Node
  PROVE  /\ Given(n) \in Seq(Msg) /\ Len(Given(n)) = Len(delivered[n])
         /\ DOMAIN Given(n) = 1..Len(delivered[n])
         /\ \A i \in 1..Len(delivered[n]) : Given(n)[i] = delivered[n][i].msg
<1>1. delivered[n] \in Seq(Payload) /\ DOMAIN delivered[n] = 1..Len(delivered[n])
  BY Machines
<1>2. \A i \in 1..Len(delivered[n]) :
        delivered[n][i].msg \in Msg /\ delivered[n][i].len = Size[delivered[n][i].msg]
  BY <1>1 DEF IntactDelivery
<1>3. Given(n) = [i \in 1..Len(delivered[n]) |-> delivered[n][i].msg]
  BY <1>1, <1>2 DEF Given
<1> QED BY <1>1, <1>2, <1>3

LEMMA ReceivedIs ==
  ASSUME IInv, IntactDelivery, NEW n \in Node, NEW m
  PROVE  Channel!Received(Peer[n], m) <=> m \in Arrived(n)
<1>1. Peer[n] \in Node
  BY Peers
<1>2. Channel!Received(Peer[n], m) <=> \E i \in DOMAIN Given(Peer[n]) : Given(Peer[n])[i] = m
  BY <1>1 DEF Channel!Received
<1> QED BY <1>1, <1>2, GivenAt DEF Arrived, Payloads

LEMMA PendingIs ==
  ASSUME IInv, IntactDelivery, NEW n \in Node, NEW i
  PROVE  i \in Channel!Pending(n) <=>
           /\ i \in DOMAIN sent[n] /\ sent[n][i] \notin blamed
           /\ \A j \in DOMAIN sent[n] : j >= i => sent[n][j] \notin Arrived(n)
BY ReceivedIs DEF Channel!Pending

\* Neither payload m of n nor any after it has been delivered.
Awaited(n, m) == \E i \in DOMAIN sent[n] :
  sent[n][i] = m /\ \A j \in DOMAIN sent[n] : j >= i => sent[n][j] \notin Arrived(n)

LEMMA AheadAwaited ==
  ASSUME NEW n, sent[n] \in Seq(Msg), NEW h, NEW q, NEW t, NEW r, NEW B,
         Orderly(sent[n], h, q, t, r, Arrived(n), B), NEW m, Ahead(sent[n], h, m, Arrived(n))
  PROVE  Awaited(n, m)
<1>1. /\ Pos(sent[n], m) \in 1..Len(sent[n]) /\ sent[n][Pos(sent[n], m)] = m
      /\ \A j \in 1..Len(sent[n]) : j >= Pos(sent[n], m) => sent[n][j] \notin Arrived(n)
  BY AheadOfAll DEF Orderly
<1>2. DOMAIN sent[n] = 1..Len(sent[n])
  OBVIOUS
<1> QED BY <1>1, <1>2 DEF Awaited

LEMMA OrderlyAt ==
  ASSUME IInv, Ordered, NEW n \in Node
  PROVE  LET p == Peer[n]
             h == Len(sent[p]) - Len(txDataChan[p]) IN
         /\ Orderly(sent[n], Len(sent[n]) - Len(txDataChan[n]), inbox[p] \o txChan[n], tx[n], rx[p],
                    Arrived(n), BlamedOf(n))
         /\ Orderly(sent[p], h, inbox[n] \o txChan[p], tx[p], rx[n], Arrived(p), BlamedOf(p))
         /\ inbox[n] \o txChan[p] \in Seq(Frame)
         /\ inbox[n] # <<>> =>
              inbox[n] \o txChan[p] # <<>> /\ Head(inbox[n] \o txChan[p]) = Head(inbox[n])
BY StreamsAt, InStepTypes, LineTail DEF Outgoing, Incoming

LEMMA InHandAwaited ==
  ASSUME IInv, Ordered, NEW n \in Node, tx[n].state # "Idle"
  PROVE  Awaited(n, tx[n].msg)
<1>1. sent[n] \in Seq(Msg)
  BY StreamsAt
<1>2. Ahead(sent[n], Len(sent[n]) - Len(txDataChan[n]), tx[n].msg, Arrived(n))
  BY <1>1, OrderlyAt, LatestAhead
<1> QED BY <1>1, <1>2, OrderlyAt, AheadAwaited

LEMMA InsideAwaited ==
  ASSUME IInv, Ordered, NEW n \in Node, rx[n].state = "WaitCF"
  PROVE  Awaited(Peer[n], rx[n].msg)
<1> DEFINE p == Peer[n]
           h == Len(sent[p]) - Len(txDataChan[p])
<1>1. sent[p] \in Seq(Msg)
  BY StreamsAt
<1>2. Orderly(sent[p], h, inbox[n] \o txChan[p], tx[p], rx[n], Arrived(p), BlamedOf(p))
  BY OrderlyAt
<1> HIDE DEF p, h
<1>3. Ahead(sent[p], h, rx[n].msg, Arrived(p))
  BY <1>2, InsideAhead
<1>4. Awaited(p, rx[n].msg)
  BY <1>1, <1>2, <1>3, AheadAwaited
<1> QED BY <1>4 DEF p

LEMMA OpeningAwaited ==
  ASSUME IInv, Ordered, NEW n \in Node, inbox[n] # <<>>, Opens(Head(inbox[n]))
  PROVE  /\ Awaited(Peer[n], Head(inbox[n]).msg)
         /\ Ends(Head(inbox[n])) => Head(inbox[n]).msg \notin BlamedOf(Peer[n])
<1> DEFINE p == Peer[n]
           h == Len(sent[p]) - Len(txDataChan[p])
           l == inbox[n] \o txChan[p]
           f == Head(inbox[n])
<1>1. sent[p] \in Seq(Msg)
  BY StreamsAt
<1>2. /\ Orderly(sent[p], h, l, tx[p], rx[n], Arrived(p), BlamedOf(p))
      /\ l \in Seq(Frame) /\ l # <<>> /\ Head(l) = f
  BY OrderlyAt
<1> HIDE DEF p, h, l
<1>3. /\ Ahead(sent[p], h, f.msg, Arrived(p))
      /\ Ends(f) => f.msg \notin BlamedOf(p)
  BY <1>2, HeadAhead
<1>4. Awaited(p, f.msg)
  BY <1>1, <1>2, <1>3, AheadAwaited
<1> QED BY <1>3, <1>4 DEF p

\* Errors about payloads that are awaited are a Report, or nothing new.
LEMMA Blames ==
  ASSUME IInv, IntactDelivery, NEW n \in Node, NEW ms, UNCHANGED <<sent, delivered, status>>,
         blamed' = blamed \cup (ms \cap Msg), \A m \in ms \cap Msg : Awaited(n, m)
  PROVE  Channel!Next \/ UNCHANGED Channel!vars
<1> DEFINE failed == (ms \cap Msg) \ blamed
<1>0. \A k : Given(k)' = Given(k)
  BY DEF Given
<1>1. CASE failed = {}
  <2>1. blamed' = blamed
    BY <1>1
  <2> QED BY <1>0, <2>1 DEF Channel!vars
<1>2. CASE failed # {}
  <2>1. ASSUME NEW m \in failed PROVE m \in {sent[n][i] : i \in Channel!Pending(n)}
    <3>1. PICK i \in DOMAIN sent[n] :
            sent[n][i] = m /\ \A j \in DOMAIN sent[n] : j >= i => sent[n][j] \notin Arrived(n)
      BY DEF Awaited
    <3>2. i \in Channel!Pending(n)
      BY <3>1, PendingIs
    <3> QED BY <3>1, <3>2
  <2>2. blamed' = blamed \cup failed
    OBVIOUS
  <2> HIDE DEF failed
  <2>3. failed \in SUBSET {sent[n][i] : i \in Channel!Pending(n)}
    BY <2>1
  <2>4. UNCHANGED <<sent, [k \in Node |-> Given(k)], {k \in Node : status[k] # "open"}>>
    BY <1>0
  <2>5. Channel!Report(n)
    BY <1>2, <2>2, <2>3, <2>4 DEF Channel!Report
  <2> QED BY <2>5 DEF Channel!Next
<1> QED BY <1>1, <1>2

\* The sequence an application has been given grows by one.
LEMMA GivenMore ==
  ASSUME IInv, IInv', IntactDelivery, IntactDelivery', NEW n \in Node,
         NEW d, delivered' = [delivered EXCEPT ![n] = Append(delivered[n], d)]
  PROVE  /\ [k \in Node |-> Given(k)]' = [[k \in Node |-> Given(k)] EXCEPT ![n] = Append(Given(n), d.msg)]
<1>1. delivered'[n] = Append(delivered[n], d) /\ \A k \in Node \ {n} : delivered'[k] = delivered[k]
  BY DeliveredAt
<1>2. \A k \in Node \ {n} : Given(k)' = Given(k)
  BY <1>1 DEF Given
<1>3. Given(n)' = Append(Given(n), d.msg)
  <2> DEFINE u == Given(n)
             v == Given(n)'
             s == delivered[n]
             z == delivered'[n]
  <2>1. /\ u \in Seq(Msg) /\ Len(u) = Len(s) /\ \A i \in 1..Len(s) : u[i] = s[i].msg
    BY GivenAt
  <2>2. /\ v \in Seq(Msg) /\ Len(v) = Len(z) /\ \A i \in 1..Len(z) : v[i] = z[i].msg
    <3>1. (/\ Given(n) \in Seq(Msg) /\ Len(Given(n)) = Len(delivered[n])
           /\ DOMAIN Given(n) = 1..Len(delivered[n])
           /\ \A i \in 1..Len(delivered[n]) : Given(n)[i] = delivered[n][i].msg)'
      BY GivenAt, PTL
    <3> QED BY <3>1
  <2>3. /\ Len(z) = Len(s) + 1 /\ Len(s) \in Nat /\ z[Len(s) + 1] = d
        /\ \A i \in 1..Len(s) : z[i] = s[i]
    BY <1>1, Machines
  <2> HIDE DEF u, v, s, z
  <2>4. v \in Seq(Msg) /\ u \in Seq(Msg) /\ Len(v) = Len(u) + 1 /\ v[Len(u) + 1] = d.msg
        /\ \A i \in 1..Len(u) : v[i] = u[i]
    <3>1. Len(s) + 1 \in 1..Len(z) /\ \A i \in 1..Len(s) : i \in 1..Len(z)
      BY <2>3
    <3>2. v[Len(s) + 1] = d.msg
      BY <2>2, <2>3, <3>1
    <3>3. \A i \in 1..Len(s) : v[i] = u[i]
      BY <2>1, <2>2, <2>3, <3>1
    <3> QED BY <2>1, <2>2, <2>3, <3>2, <3>3
  <2>5. d.msg \in Msg
    BY <2>4
  <2>6. /\ Append(u, d.msg) \in Seq(Msg) /\ Len(Append(u, d.msg)) = Len(u) + 1
        /\ \A i \in 1..Len(u) + 1 : Append(u, d.msg)[i] = v[i]
    BY <2>4, <2>5
  <2>7. v = Append(u, d.msg)
    BY <2>4, <2>6
  <2> QED BY <2>7 DEF u, v
<1> DEFINE g == [k \in Node |-> Given(k)]
<1>4. g' = [k \in Node |-> Given(k)']
  OBVIOUS
<1>5. [g EXCEPT ![n] = Append(Given(n), d.msg)]
        = [k \in Node |-> IF k = n THEN Append(Given(n), d.msg) ELSE Given(k)]
  OBVIOUS
<1>6. \A k \in Node : Given(k)' = IF k = n THEN Append(Given(n), d.msg) ELSE Given(k)
  BY <1>2, <1>3
<1> QED BY <1>4, <1>5, <1>6

\* A payload that is awaited is delivered, and each one overtaken is reported, unless the
\* session is being closed.
LEMMA Delivers ==
  ASSUME IInv, IInv', IntactDelivery, IntactDelivery', Ordered, NEW n \in Node,
         UNCHANGED <<sent, status>>,
         NEW d, delivered' = [delivered EXCEPT ![n] = Append(delivered[n], d)],
         d.msg \notin blamed, NEW ms, blamed' = blamed \cup (ms \cap Msg),
         NEW i \in Channel!Pending(Peer[n]), sent[Peer[n]][i] = d.msg,
         \A m \in ms \cap Msg : m \notin blamed =>
           \E j \in Channel!Pending(Peer[n]) : j < i /\ sent[Peer[n]][j] = m,
         status[n] = "open" => \A j \in Channel!Pending(Peer[n]) : j < i => sent[Peer[n]][j] \in ms
  PROVE  Channel!Next
<1> DEFINE p == Peer[n]
           failed == (ms \cap Msg) \ blamed
           overtaken == {sent[p][j] : j \in {k \in Channel!Pending(p) : k < i}}
<1>1. p \in Node /\ Peer[p] = n /\ sent[p] \in Seq(Msg)
  BY Peers, StreamsAt
<1>2. blamed' = blamed \cup failed /\ failed \in SUBSET overtaken
  OBVIOUS
<1>3. ASSUME status[n] = "open" PROVE overtaken \ failed = {}
  <2> SUFFICES ASSUME NEW j \in Channel!Pending(p), j < i PROVE sent[p][j] \in failed
    OBVIOUS
  <2>1. j \in DOMAIN sent[p] /\ sent[p][j] \notin blamed
    BY <1>1, PendingIs
  <2>2. sent[p][j] \in Msg
    BY <1>1, <2>1
  <2>3. sent[p][j] \in ms
    BY <1>3
  <2> QED BY <2>1, <2>2, <2>3
<1>4. /\ [k \in Node |-> Given(k)]' = [[k \in Node |-> Given(k)] EXCEPT ![n] = Append(Given(n), d.msg)]
      /\ UNCHANGED <<sent, {k \in Node : status[k] # "open"}>>
  BY GivenMore
<1> HIDE DEF failed, overtaken
<1>5. Peer[p] \notin {k \in Node : status[k] # "open"}
        => overtaken \ failed \subseteq (IF Lossless THEN {} ELSE {m \in Msg : FitsSingle(m)})
  BY <1>1, <1>3
<1>6. Channel!Deliver(p)
  <2>1. \E fs \in SUBSET overtaken :
          /\ Peer[p] \notin {k \in Node : status[k] # "open"} =>
               overtaken \ fs \subseteq (IF Lossless THEN {} ELSE {m \in Msg : FitsSingle(m)})
          /\ blamed' = blamed \cup fs
    BY <1>2, <1>5
  <2>2. [k \in Node |-> Given(k)]' =
          [[k \in Node |-> Given(k)] EXCEPT ![Peer[p]] = Append(@, sent[p][i])]
    BY <1>1, <1>4
  <2> QED BY <1>4, <2>1, <2>2 DEF Channel!Deliver, overtaken, p
<1> QED BY <1>1, <1>6 DEF Channel!Next

-----------------------------------------------------------------------------
\* Every step of the sessions is a step of the channel, or none.
LEMMA Unseen ==
  ASSUME UNCHANGED <<sent, delivered, blamed>>,
         \A k \in Node : status'[k] = "open" <=> status[k] = "open"
  PROVE  UNCHANGED Channel!vars
<1>1. \A k : Given(k)' = Given(k)
  BY DEF Given
<1>2. {k \in Node : status[k] # "open"}' = {k \in Node : status[k] # "open"}
  OBVIOUS
<1> QED BY <1>1, <1>2 DEF Channel!vars

LEMMA AppImplements ==
  ASSUME IInv, NEW n \in Node, App(n)
  PROVE  Channel!Next \/ UNCHANGED Channel!vars
<1>0. delivered' = delivered /\ blamed' = blamed /\ \A k : Given(k)' = Given(k)
  <2>1. UNCHANGED <<delivered, blamed>>
    BY DEF App, SendContext, SetTxAddress, Receive, ReadError, Close, rxVars, errVars
  <2> QED BY <2>1 DEF Given
<1>1. CASE \E m \in Msg : SendContext(n, m)
  <2> PICK m \in Msg : SendContext(n, m)
    BY <1>1
  <2>1. /\ Source[m] = n /\ \A i \in DOMAIN sent[n] : sent[n][i] # m
        /\ sent' = [sent EXCEPT ![n] = Append(@, m)] /\ status' = status
    BY DEF SendContext
  <2>2. ~Channel!Accepted(n, m)
    BY <2>1 DEF Channel!Accepted
  <2>3. UNCHANGED <<[k \in Node |-> Given(k)], blamed, {k \in Node : status[k] # "open"}>>
    BY <1>0, <2>1
  <2>4. Channel!Accept(n)
    BY <2>1, <2>2, <2>3 DEF Channel!Accept
  <2> QED BY <2>4 DEF Channel!Next
<1>2. CASE Close(n)
  <2>1. sent' = sent /\ status' = [status EXCEPT ![n] = "closing"]
    BY <1>2 DEF Close
  <2>2. {k \in Node : status[k] # "open"}' = {k \in Node : status[k] # "open"} \cup {n}
    BY <2>1 DEF IInv, TypeOK
  <2>3. UNCHANGED <<sent, [k \in Node |-> Given(k)], blamed>>
    BY <1>0, <2>1
  <2>4. Channel!Close(n)
    BY <2>2, <2>3 DEF Channel!Close
  <2> QED BY <2>4 DEF Channel!Next
<1>3. CASE ~(\E m \in Msg : SendContext(n, m)) /\ ~Close(n)
  <2>1. UNCHANGED <<sent, status>>
    BY <1>3 DEF App, SetTxAddress, Receive, ReadError, appVars
  <2> QED BY <1>0, <2>1, Unseen
<1> QED BY <1>1, <1>2, <1>3

LEMMA OtherImplements ==
  ASSUME IInv, Lossless, NEW n \in Node,
         FinishClose(n) \/ Bus(n) \/ InitiateTx(n) \/ STminFires(n)
  PROVE  UNCHANGED Channel!vars
<1>1. CASE FinishClose(n)
  <2>1. /\ UNCHANGED <<sent, delivered, blamed>>
        /\ status[n] = "closing" /\ status' = [status EXCEPT ![n] = "closed"]
    BY <1>1 DEF FinishClose, errVars
  <2>2. \A k \in Node : status'[k] = "open" <=> status[k] = "open"
    BY <2>1 DEF IInv, TypeOK
  <2> QED BY <2>1, <2>2, Unseen
<1>2. CASE Bus(n)
  <2>1. Transfer(n) \/ \E f \in InjectFrames : Inject(n, f)
    BY <1>2 DEF Bus, DropAtSubscriber, Lose, SendFails, Lossless, IInv, TypeOK
  <2>2. UNCHANGED <<sent, delivered, blamed, status>>
    BY <2>1 DEF Transfer, Inject, rxVars, errVars, appVars
  <2> QED BY <2>2, Unseen
<1>3. CASE InitiateTx(n) \/ STminFires(n)
  <2>1. UNCHANGED <<sent, delivered, blamed, status>>
    BY <1>3 DEF InitiateTx, SendSingleFrame, SendFirstFrame, STminFires, rxVars, errVars, appVars
  <2> QED BY <2>1, Unseen
<1> QED BY <1>1, <1>2, <1>3

LEMMA SenderImplements ==
  ASSUME IInv, IntactDelivery, Ordered, NEW n \in Node,
         \/ RxForeign(n) \/ RxBad(n) \/ FlowControlTimeout(n) \/ RxStrayConsecutiveFrame(n)
         \/ RxLateFlowControl(n) \/ RxContinueToSend(n) \/ RxWait(n) \/ RxOverflow(n)
  PROVE  Channel!Next \/ UNCHANGED Channel!vars
<1>1. UNCHANGED <<sent, delivered, status>>
  BY DEF RxForeign, RxBad, FlowControlTimeout, RxStrayConsecutiveFrame, RxLateFlowControl,
         RxContinueToSend, RxWait, RxOverflow, rxVars, appVars
<1>2. CASE FireErrors(n, 1, {tx[n].msg}) /\ tx[n].state # "Idle"
  <2>1. blamed' = blamed \cup ({tx[n].msg} \cap Msg)
    BY <1>2 DEF FireErrors
  <2>2. \A m \in {tx[n].msg} \cap Msg : Awaited(n, m)
    BY <1>2, InHandAwaited
  <2> QED BY <1>1, <2>1, <2>2, Blames
<1>3. CASE blamed' = blamed
  BY <1>1, <1>3, Unseen
<1>4. CASE FlowControlTimeout(n)
  <2>1. FireErrors(n, 1, {tx[n].msg}) /\ tx[n].timerFC
    BY <1>4 DEF FlowControlTimeout
  <2>2. tx[n].state # "Idle"
    BY <2>1, Machines DEF TxGood
  <2> QED BY <1>2, <2>1, <2>2
<1>5. CASE RxContinueToSend(n) \/ RxWait(n) \/ RxOverflow(n)
  <2>1. tx[n].state = "WaitFC" /\ (FireErrors(n, 1, {tx[n].msg}) \/ UNCHANGED errVars)
    BY <1>5 DEF RxContinueToSend, RxWait, RxOverflow
  <2> QED BY <1>2, <1>3, <2>1 DEF errVars
<1>6. CASE RxForeign(n) \/ RxBad(n) \/ RxStrayConsecutiveFrame(n) \/ RxLateFlowControl(n)
  <2>1. FireErrors(n, 1, {}) \/ UNCHANGED errVars
    BY <1>6 DEF RxForeign, RxBad, RxStrayConsecutiveFrame, RxLateFlowControl
  <2>2. blamed' = blamed
    BY <2>1 DEF FireErrors, errVars
  <2> QED BY <1>3, <2>2
<1> QED BY <1>4, <1>5, <1>6

\* A reception abandoned, interrupted or refused.
LEMMA AbandonImplements ==
  ASSUME IInv, Transfers, Ordered, NEW n \in Node,
         \/ RxWrongSequence(n) \/ ConsecutiveFrameTimeout(n) \/ RxConsecutiveFrame(n)
         \/ RxFirstFrameTooLarge(n) \/ RxFirstFrame(n)
  PROVE  Channel!Next \/ UNCHANGED Channel!vars
<1>0. Peer[n] \in Node /\ IntactDelivery /\ Sources
  BY Peers DEF Transfers
<1>1. UNCHANGED <<sent, delivered, status>>
  BY DEF RxWrongSequence, ConsecutiveFrameTimeout, RxConsecutiveFrame, RxFirstFrameTooLarge,
         RxFirstFrame, appVars
<1>2. \A m \in {rx[n].msg} \cap Msg : Awaited(Peer[n], m)
  BY <1>0, InsideFrom, InsideAwaited
<1>3. CASE RxWrongSequence(n) \/ ConsecutiveFrameTimeout(n) \/ RxFirstFrame(n)
  <2>1. blamed' = blamed \cup ({rx[n].msg} \cap Msg)
    BY <1>3 DEF RxWrongSequence, ConsecutiveFrameTimeout, RxFirstFrame, FireErrors
  <2> QED BY <1>0, <1>1, <1>2, <2>1, Blames
<1>4. CASE RxConsecutiveFrame(n)
  <2>1. blamed' = blamed
    BY <1>4 DEF RxConsecutiveFrame, errVars
  <2> QED BY <1>1, <2>1, Unseen
<1>5. CASE RxFirstFrameTooLarge(n)
  <2> DEFINE m == Head(inbox[n]).msg
             ms == {rx[n].msg, m}
  <2>1. NextFrame(n, "FF") /\ blamed' = blamed \cup (ms \cap Msg)
    BY <1>5 DEF RxFirstFrameTooLarge, FireErrors
  <2>2. Awaited(Peer[n], m)
    BY <2>1, NextFrameShape, OpeningAwaited DEF Opens
  <2>3. \A x \in ms \cap Msg : Awaited(Peer[n], x)
    BY <1>2, <2>2
  <2> HIDE DEF ms
  <2> QED BY <1>0, <1>1, <2>1, <2>3, Blames
<1> QED BY <1>3, <1>4, <1>5

\* A payload that ends is delivered, or refused because the data queue is full; the
\* receiver may have been inside of another, ms.
LEMMA EndingImplements ==
  ASSUME IInv, IInv', Transfers, IntactDelivery', Ordered, NEW n \in Node, UNCHANGED <<sent, status>>,
         NEW d, NEW k, NEW ms, Deliver(n, d, k, ms),
         inbox[n] # <<>>, d.msg \in Msg, d.msg \notin blamed,
         \/ Opens(Head(inbox[n])) /\ d.msg = Head(inbox[n]).msg /\ ms = {rx[n].msg}
         \/ rx[n].state = "WaitCF" /\ d.msg = rx[n].msg /\ ms = {}
  PROVE  Channel!Next \/ UNCHANGED Channel!vars
<1> DEFINE p == Peer[n]
           s == sent[p]
           h == Len(s) - Len(txDataChan[p])
           l == inbox[n] \o txChan[p]
           r == rx[n]
           m == d.msg
           D == Arrived(p)
<1>0. p \in Node /\ Peer[p] = n /\ IntactDelivery /\ Sources
  BY Peers DEF Transfers
<1>1. s \in Seq(Msg) /\ DOMAIN s = 1..Len(s)
  <2>1. s \in Seq(Msg)
    BY StreamsAt
  <2> HIDE DEF s
  <2> QED BY <2>1
<1>2. /\ Orderly(s, h, l, tx[p], r, D, BlamedOf(p))
      /\ l \in Seq(Frame) /\ l # <<>> /\ Head(l) = Head(inbox[n])
  BY OrderlyAt
<1>3. InStep(p, s, txDataChan[p], inbox[n], txChan[p], tx[p], r, D, BlamedOf(p), status[p], status[n])
  BY StreamsAt DEF Incoming
<1>4. txDataChan[p] \in Seq(Msg) /\ inbox[n] \in Seq(Frame) /\ txChan[p] \in Seq(Frame)
  BY StreamsAt
<1>5. \A j : j \in Channel!Pending(p) <=>
        /\ j \in 1..Len(s) /\ s[j] \notin blamed
        /\ \A i \in 1..Len(s) : i >= j => s[i] \notin D
  BY <1>0, <1>1, PendingIs
<1>6. \A x \in ms \cap Msg : x = r.msg /\ r.state = "WaitCF" /\ Opens(Head(inbox[n]))
  BY <1>0, InsideFrom
<1>7. (Opens(Head(inbox[n])) /\ m = Head(inbox[n]).msg) \/ (r.state = "WaitCF" /\ m = r.msg)
  OBVIOUS
<1>8. ms = {} => m = r.msg
  OBVIOUS
<1>9. Distinct(s) /\ h \in 0..Len(s)
  BY <1>2 DEF Orderly
<1> HIDE DEF p, s, h, l, r, m, D
<1>10. Ahead(s, h, m, D) /\ (r.state = "WaitCF" => Ahead(s, h, r.msg, D))
  BY <1>2, <1>7, HeadAhead, InsideAhead
<1>11. \A x : Ahead(s, h, x, D) =>
         /\ Pos(s, x) \in 1..Len(s) /\ s[Pos(s, x)] = x
         /\ \A j \in 1..Len(s) : j >= Pos(s, x) => s[j] \notin D
  BY <1>1, <1>9, AheadOfAll
<1>12. ASSUME NEW x, Ahead(s, h, x, D) PROVE Awaited(p, x)
  BY <1>1, <1>11, <1>12 DEF Awaited, s, D
<1>13. CASE unread[n] < RxDataCap
  <2> DEFINE i == Pos(s, m)
  <2>1. delivered' = [delivered EXCEPT ![n] = Append(delivered[n], d)]
        /\ blamed' = blamed \cup (ms \cap Msg)
    BY <1>13 DEF Deliver, FireErrors
  <2>2. i \in Channel!Pending(p) /\ s[i] = m
    BY <1>5, <1>10, <1>11 DEF m
  <2>3. ASSUME NEW x \in ms \cap Msg, x \notin blamed
        PROVE  \E j \in Channel!Pending(p) : j < i /\ s[j] = x
    <3>1. /\ Pos(s, x) \in 1..Len(s) /\ s[Pos(s, x)] = x
          /\ \A j \in 1..Len(s) : j >= Pos(s, x) => s[j] \notin D
      BY <1>6, <1>10, <1>11
    <3>2. Pos(s, x) \in Channel!Pending(p)
      BY <1>5, <2>3, <3>1
    <3>3. Pos(s, x) < i
      <4>1. Precedes(s, x, l)
        BY <1>2, <1>6 DEF Orderly, Midway
      <4>2. 1 \in 1..Len(l) /\ l[1] = Head(inbox[n])
        BY <1>2
      <4>3. m = Head(inbox[n]).msg
        BY <1>6 DEF m
      <4> QED BY <1>6, <4>1, <4>2, <4>3 DEF Precedes
    <3> QED BY <3>1, <3>2, <3>3
  <2>4. ASSUME status[n] = "open", NEW j \in Channel!Pending(p), j < i PROVE s[j] \in ms
    <3>1. j \in 1..Len(s) /\ s[j] \notin blamed /\ s[j] \notin D
      BY <1>5
    <3>2. s[j] \in BlamedOf(p) \cup D \/ Inside(r, s[j])
      <4>1. InStep(p, s, txDataChan[p], inbox[n], txChan[p], tx[p], r, D, BlamedOf(p), status[p], "open")
        BY <1>3, <2>4
      <4>2. j < Pos(s, m)
        BY <2>4
      <4> HIDE DEF i
      <4> QED BY <1>1, <1>4, <1>7, <3>1, <4>1, <4>2, NoneOvertaken
    <3>3. s[j] = r.msg
      BY <3>1, <3>2 DEF Inside, BlamedOf
    <3>4. Pos(s, s[j]) = j
      BY <1>1, <1>9, <3>1, PosAt
    <3>5. j # i
      BY <1>1, <2>4, <3>1
    <3>6. ms # {}
      BY <1>8, <3>3, <3>4, <3>5
    <3>7. ms = {r.msg}
      BY <3>6 DEF r
    <3> QED BY <3>3, <3>7
  <2> HIDE DEF i
  <2>5. \A x \in ms \cap Msg : x \notin blamed => \E j \in Channel!Pending(Peer[n]) : j < i /\ sent[Peer[n]][j] = x
    BY <2>3 DEF s, p
  <2>6. status[n] = "open" => \A j \in Channel!Pending(Peer[n]) : j < i => sent[Peer[n]][j] \in ms
    BY <2>4 DEF s, p
  <2>7. i \in Channel!Pending(Peer[n]) /\ sent[Peer[n]][i] = d.msg
    BY <2>2 DEF s, p, m
  <2> HIDE DEF m
  <2>8. IntactDelivery /\ d.msg \notin blamed
    BY <1>0
  <2> QED BY <2>1, <2>5, <2>6, <2>7, <2>8, Delivers
<1>14. CASE ~(unread[n] < RxDataCap)
  <2> DEFINE xs == ms \cup {d.msg}
  <2>1. delivered' = delivered /\ blamed' = blamed \cup (xs \cap Msg)
    BY <1>14 DEF Deliver, FireErrors
  <2>2. \A x \in xs \cap Msg : Awaited(p, x)
    BY <1>6, <1>10, <1>12 DEF m
  <2> HIDE DEF xs
  <2> QED BY <1>0, <2>1, <2>2, Blames
<1> QED BY <1>13, <1>14

LEMMA SingleImplements ==
  ASSUME IInv, IInv', Transfers, IntactDelivery', Ordered, NEW n \in Node, RxSingleFrame(n)
  PROVE  Channel!Next \/ UNCHANGED Channel!vars
<1> DEFINE f == Head(inbox[n])
           d == [msg |-> f.msg, len |-> Size[f.msg]]
<1>1. /\ NextFrame(n, "SF") /\ Deliver(n, d, Interrupted(n), {rx[n].msg})
      /\ UNCHANGED <<sent, status>>
  BY DEF RxSingleFrame, appVars
<1>2. inbox[n] # <<>> /\ Running(n) /\ Opens(f) /\ Ends(f)
  BY <1>1, NextFrameShape DEF Opens, Ends, NextFrame
<1>3. f.msg \in Msg /\ Source[f.msg] = Peer[n]
  BY <1>2, FrameDue, OpensData
<1>4. f.msg \notin blamed
  BY <1>2, <1>3, OpeningAwaited DEF BlamedOf
<1>5. d.msg = f.msg
  OBVIOUS
<1> HIDE DEF d
<1> QED BY <1>1, <1>2, <1>3, <1>4, <1>5, EndingImplements

LEMMA LastImplements ==
  ASSUME IInv, IInv', Transfers, IntactDelivery', Ordered, NEW n \in Node, RxLastConsecutiveFrame(n)
  PROVE  Channel!Next \/ UNCHANGED Channel!vars
<1> DEFINE f == Head(inbox[n])
           d == [msg |-> Appended(n, f).msg, len |-> Appended(n, f).len]
           m == rx[n].msg
           p == Peer[n]
<1>1. /\ NextFrame(n, "CF") /\ rx[n].state = "WaitCF"
      /\ Deliver(n, d, 0, {}) /\ Appended(n, f).len >= Appended(n, f).frameLen
      /\ UNCHANGED <<sent, status>>
  BY DEF RxLastConsecutiveFrame, InSequence, appVars
<1>2. inbox[n] # <<>> /\ Running(n) /\ f.type = "CF" /\ Sources
  BY <1>1, NextFrameShape DEF NextFrame, Transfers
<1>3. /\ m \in Msg /\ Source[m] = Peer[n] /\ f.msg = m /\ d.msg = m
      /\ Appended(n, f).len = f.off + f.len /\ f.off + f.len <= Size[m]
      /\ f.off \in Nat /\ f.len \in Nat /\ rx[n].frameLen = Size[m]
  BY <1>1, <1>2, FrameDue DEF Sources
<1>4. Appended(n, f).frameLen = rx[n].frameLen
  BY Machines DEF Appended, RxMachine
<1>5. Ends(f)
  <2>1. Size[m] \in Nat
    BY <1>3, MsgAssumption
  <2> HIDE DEF f, d, m, p
  <2>2. f.off + f.len = Size[m]
    BY <1>1, <1>3, <1>4, <2>1
  <2> QED BY <1>2, <1>3, <2>2 DEF Ends
<1>6. m \notin blamed
  <2> DEFINE s == sent[p]
             h == Len(s) - Len(txDataChan[p])
             l == inbox[n] \o txChan[p]
  <2>1. /\ Orderly(s, h, l, tx[p], rx[n], Arrived(p), BlamedOf(p))
        /\ l \in Seq(Frame) /\ l # <<>> /\ Head(l) = f
    BY <1>2, OrderlyAt
  <2> HIDE DEF s, h, l, f, p, d
  <2>2. m \notin BlamedOf(p)
    BY <1>1, <1>3, <1>5, <2>1, LastUnblamed
  <2> QED BY <1>3, <2>2 DEF BlamedOf, p
<1> HIDE DEF d, f, p
<1> QED BY <1>1, <1>2, <1>3, <1>6, EndingImplements

\* Every step keeps the order, and is a step of the channel or none.
LEMMA StepOrdered ==
  ASSUME Lossless, Apart, IInv, Transfers, Ordered, [Next]_vars
  PROVE  Ordered'
<1>1. CASE UNCHANGED vars
  <2>1. \A n \in Node : Order(n)'
    BY <1>1 DEF vars, txVars, rxVars, errVars, appVars, Ordered, Order, Arrived, BlamedOf
  <2> QED BY <2>1 DEF Ordered
<1>2. ASSUME NEW n \in Node, App(n) PROVE Ordered'
  BY <1>2, AppOrdered
<1>3. ASSUME NEW n \in Node, ProcessRx(n) PROVE Ordered'
  BY <1>3, FlowControlOrdered, SingleFrameOrdered, FirstFrameOrdered, AbandonOrdered,
     LastFrameOrdered, PartOrdered DEF ProcessRx
<1>4. ASSUME NEW n \in Node, Timeouts(n) PROVE Ordered'
  BY <1>4, FlowControlOrdered, AbandonOrdered DEF Timeouts
<1>5. ASSUME NEW n \in Node, InitiateTx(n) \/ STminFires(n) PROVE Ordered'
  BY <1>5, InitiateOrdered, STminOrdered
<1>6. ASSUME NEW n \in Node, FinishClose(n) PROVE Ordered'
  BY <1>6, FinishOrdered
<1>7. ASSUME NEW n \in Node, Bus(n) PROVE Ordered'
  BY <1>7, BusOrdered
<1> QED BY <1>1, <1>2, <1>3, <1>4, <1>5, <1>6, <1>7 DEF Next, Run

LEMMA StepImplements ==
  ASSUME Lossless, IInv, IInv', Transfers, Transfers', Ordered, [Next]_vars
  PROVE  [Channel!Next]_(Channel!vars)
<1>0. IntactDelivery /\ IntactDelivery'
  BY DEF Transfers
<1>1. CASE UNCHANGED vars
  BY <1>1, Unseen DEF vars, txVars, rxVars, errVars, appVars
<1>2. ASSUME NEW n \in Node, App(n) PROVE Channel!Next \/ UNCHANGED Channel!vars
  BY <1>2, AppImplements
<1>3. ASSUME NEW n \in Node, ProcessRx(n) PROVE Channel!Next \/ UNCHANGED Channel!vars
  BY <1>0, <1>3, SenderImplements, AbandonImplements, SingleImplements, LastImplements
     DEF ProcessRx
<1>4. ASSUME NEW n \in Node, Timeouts(n) PROVE Channel!Next \/ UNCHANGED Channel!vars
  BY <1>0, <1>4, SenderImplements, AbandonImplements DEF Timeouts
<1>5. ASSUME NEW n \in Node, InitiateTx(n) \/ STminFires(n) \/ FinishClose(n) \/ Bus(n)
      PROVE  UNCHANGED Channel!vars
  BY <1>5, OtherImplements
<1> QED BY <1>1, <1>2, <1>3, <1>4, <1>5 DEF Next, Run

LEMMA InitImplements == ASSUME Init PROVE Channel!Init
<1>1. /\ sent = [n \in Node |-> <<>>] /\ blamed = {}
      /\ \A n \in Node : delivered[n] = <<>> /\ status[n] = "open"
  BY DEF Init
<1>2. \A n \in Node : Given(n) = <<>>
  BY <1>1 DEF Given
<1>3. [n \in Node |-> Given(n)] = [n \in Node |-> <<>>] /\ {n \in Node : status[n] # "open"} = {}
  BY <1>1, <1>2
<1> QED BY <1>1, <1>3 DEF Channel!Init

\* Over a bus that loses nothing, two sessions are a channel: whatever timers fire, queues
\* fill or ends close, payloads come out whole, in the order they were handed over and at
\* most once, none after an error about it, and none is overtaken without an error.
THEOREM SessionsAreAChannel == ASSUME Lossless, Apart PROVE Spec => ImplementsChannel
<1> DEFINE OInv == IInv /\ Transfers /\ Ordered
<1>1. Init => OInv
  BY InitIInv, TransfersBegin, InitOrdered
<1>2. OInv /\ [Next]_vars => OInv'
  BY TransfersStep, StepOrdered
<1>3. Init => Channel!Init
  BY InitImplements
<1>4. OInv /\ OInv' /\ [Next]_vars => [Channel!Next]_(Channel!vars)
  BY StepImplements
<1> QED BY <1>1, <1>2, <1>3, <1>4, PTL DEF Spec, ImplementsChannel, Channel!Spec
=============================================================================

---------------------------- MODULE IsoTpCodecProofs ----------------------------
(***************************************************************************)
(* Proofs about IsoTpCodec, for payloads of any size, any padding byte and *)
(* any byte that is read where a header is expected.                       *)
(***************************************************************************)
EXTENDS IsoTpCodec, TLAPS

\* The lengths a CAN frame can have.
IsLength(l) == l \in 0..8 \/ \E k \in 1..7 : l = FDLengths[k]

\* The length a frame of l bytes is rounded to: the least that is long enough.
RoundsTo(l, r) == /\ IsLength(r) /\ r \in Nat /\ r >= l /\ r <= 64
                  /\ \A s \in Nat : IsLength(s) /\ s >= l => r <= s

LEMMA FDTable ==
  /\ FDLengths[1] = 12 /\ FDLengths[2] = 16 /\ FDLengths[3] = 20 /\ FDLengths[4] = 24
  /\ FDLengths[5] = 32 /\ FDLengths[6] = 48 /\ FDLengths[7] = 64
BY DEF FDLengths

LEMMA ISpan == 1..7 = {1, 2, 3, 4, 5, 6, 7}
OBVIOUS

LEMMA LengthCases ==
  ASSUME NEW l
  PROVE  IsLength(l) <=> l \in 0..8 \/ l \in {12, 16, 20, 24, 32, 48, 64}
<1>1. (\E k \in 1..7 : l = FDLengths[k]) <=> \E k \in {1, 2, 3, 4, 5, 6, 7} : l = FDLengths[k]
  BY ISpan
<1>2. (\E k \in {1, 2, 3, 4, 5, 6, 7} : l = FDLengths[k]) <=> l \in {12, 16, 20, 24, 32, 48, 64}
  BY FDTable
<1> QED BY <1>1, <1>2 DEF IsLength

\* The DLC of a length stands for the length it is rounded to.
LEMMA DLCRounds ==
  ASSUME NEW l \in 0..64 PROVE RoundsTo(l, DLCToLength(LengthToDLC(l)))
<1>1. CASE l <= 8
  <2>1. DLCToLength(LengthToDLC(l)) = l
    BY <1>1 DEF DLCToLength, LengthToDLC
  <2> QED BY <1>1, <2>1, LengthCases DEF RoundsTo
<1>2. CASE l > 8
  <2> DEFINE Fits(i) == l <= FDLengths[i] /\ \A j \in 1..(i - 1) : l > FDLengths[j]
             i == CHOOSE i \in 1..7 : Fits(i)
  <2>1. \E k \in 1..7 : Fits(k)
    <3>1. CASE l <= 12
      <4>1. Fits(1)
        BY <3>1, FDTable
      <4> QED BY <4>1
    <3>2. CASE l > 12 /\ l <= 16
      <4>1. 1..(2 - 1) = {1}
        OBVIOUS
      <4>2. Fits(2)
        BY <3>2, <4>1, FDTable
      <4> QED BY <4>2
    <3>3. CASE l > 16 /\ l <= 20
      <4>1. 1..(3 - 1) = {1, 2}
        OBVIOUS
      <4>2. Fits(3)
        BY <3>3, <4>1, FDTable
      <4> QED BY <4>2
    <3>4. CASE l > 20 /\ l <= 24
      <4>1. 1..(4 - 1) = {1, 2, 3}
        OBVIOUS
      <4>2. Fits(4)
        BY <3>4, <4>1, FDTable
      <4> QED BY <4>2
    <3>5. CASE l > 24 /\ l <= 32
      <4>1. 1..(5 - 1) = {1, 2, 3, 4}
        OBVIOUS
      <4>2. Fits(5)
        BY <3>5, <4>1, FDTable
      <4> QED BY <4>2
    <3>6. CASE l > 32 /\ l <= 48
      <4>1. 1..(6 - 1) = {1, 2, 3, 4, 5}
        OBVIOUS
      <4>2. Fits(6)
        BY <3>6, <4>1, FDTable
      <4> QED BY <4>2
    <3>7. CASE l > 48
      <4>1. 1..(7 - 1) = {1, 2, 3, 4, 5, 6}
        OBVIOUS
      <4>2. Fits(7)
        BY <3>7, <4>1, FDTable
      <4> QED BY <4>2
    <3> QED BY <1>2, <3>1, <3>2, <3>3, <3>4, <3>5, <3>6, <3>7
  <2>2. i \in 1..7 /\ Fits(i)
    BY <2>1
  <2>3. LengthToDLC(l) = 8 + i
    BY <1>2 DEF LengthToDLC
  <2> HIDE DEF i
  <2>4. DLCToLength(LengthToDLC(l)) = FDLengths[i]
    BY <2>2, <2>3 DEF DLCToLength
  <2>5. IsLength(FDLengths[i]) /\ FDLengths[i] \in Nat /\ FDLengths[i] <= 64
    <3>1. i \in {1, 2, 3, 4, 5, 6, 7}
      BY <2>2
    <3> QED BY <3>1, FDTable, LengthCases
  <2>6. ASSUME NEW s \in Nat, IsLength(s), s >= l PROVE FDLengths[i] <= s
    <3>1. PICK k \in 1..7 : s = FDLengths[k]
      BY <1>2, <2>6 DEF IsLength
    <3>2. ~(k <= i - 1)
      <4>1. k <= i - 1 => l > FDLengths[k]
        BY <2>2
      <4> QED BY <2>6, <3>1, <4>1
    <3>3. k >= i /\ i \in {1, 2, 3, 4, 5, 6, 7} /\ k \in {1, 2, 3, 4, 5, 6, 7}
      BY <2>2, <3>2
    <3> QED BY <3>1, <3>3, FDTable
  <2> QED BY <2>2, <2>4, <2>5, <2>6 DEF RoundsTo
<1> QED BY <1>1, <1>2

\* So does the length the session pads to, from 8 bytes up.
LEMMA TargetRounds ==
  ASSUME NEW l \in 0..64
  PROVE  /\ nextFDTargetLength(l) \in {8, 12, 16, 20, 24, 32, 48, 64}
         /\ nextFDTargetLength(l) >= l
         /\ \A s \in Nat : IsLength(s) /\ s >= l /\ s >= 8 => nextFDTargetLength(l) <= s
BY LengthCases DEF nextFDTargetLength

-----------------------------------------------------------------------------
\* What is sent, by type.
Paddings == PaddingBytes \cup {NoPadding}

LEMMA InputCases ==
  ASSUME NEW i \in Input
  PROVE  /\ i.fd \in BOOLEAN /\ i.padding \in Paddings
         /\ \/ i.type = "SF" /\ i.size \in Nat /\ FitsSingle(i.size, i.fd)
            \/ i.type = "FF" /\ i.size \in Nat /\ ~FitsSingle(i.size, i.fd)
            \/ /\ i.type = "CF" /\ i.sn \in 0..15
               /\ i.size \in Nat \ {0} /\ i.size < FrameDataLength(i.fd)
            \/ /\ i.type = "FC" /\ i.status \in 0..2 /\ i.bs \in 0..255
               /\ i.stmin \in (0..127) \cup (241..249)
<1>1. PICK fd \in BOOLEAN :
        \/ \E n \in {s \in SingleSizes : FitsSingle(s, fd)}, p \in Paddings :
             i = [type |-> "SF", size |-> n, fd |-> fd, padding |-> p]
        \/ \E n \in {s \in MessageSizes : ~FitsSingle(s, fd)}, p \in Paddings :
             i = [type |-> "FF", size |-> n, fd |-> fd, padding |-> p]
        \/ \E n \in {c \in ChunkSizes : c < FrameDataLength(fd)}, sn \in SequenceNumbers,
              p \in Paddings :
             i = [type |-> "CF", size |-> n, sn |-> sn, fd |-> fd, padding |-> p]
        \/ \E s \in 0..2, b \in BlockSizes, t \in STmins, p \in Paddings :
             i = [type |-> "FC", status |-> s, bs |-> b, stmin |-> t, fd |-> fd, padding |-> p]
  BY DEF Input, Paddings
<1>2. CASE \E n \in {s \in SingleSizes : FitsSingle(s, fd)}, p \in Paddings :
             i = [type |-> "SF", size |-> n, fd |-> fd, padding |-> p]
  BY <1>2, SizeAssumption
<1>3. CASE \E n \in {s \in MessageSizes : ~FitsSingle(s, fd)}, p \in Paddings :
             i = [type |-> "FF", size |-> n, fd |-> fd, padding |-> p]
  <2> PICK n \in {s \in MessageSizes : ~FitsSingle(s, fd)}, p \in Paddings :
             i = [type |-> "FF", size |-> n, fd |-> fd, padding |-> p]
    BY <1>3
  <2>1. i.type = "FF" /\ i.size = n /\ i.fd = fd /\ i.padding = p
    OBVIOUS
  <2>2. n \in Nat /\ ~FitsSingle(n, fd)
    BY SizeAssumption
  <2> QED BY <2>1, <2>2
<1>4. CASE \E n \in {c \in ChunkSizes : c < FrameDataLength(fd)}, sn \in SequenceNumbers,
              p \in Paddings :
             i = [type |-> "CF", size |-> n, sn |-> sn, fd |-> fd, padding |-> p]
  <2> PICK n \in {c \in ChunkSizes : c < FrameDataLength(fd)}, sn \in SequenceNumbers,
           p \in Paddings :
             i = [type |-> "CF", size |-> n, sn |-> sn, fd |-> fd, padding |-> p]
    BY <1>4
  <2>1. i.type = "CF" /\ i.size = n /\ i.sn = sn /\ i.fd = fd /\ i.padding = p
    OBVIOUS
  <2>2. n \in Nat \ {0} /\ n < FrameDataLength(fd) /\ sn \in 0..15
    BY SizeAssumption
  <2> QED BY <2>1, <2>2
<1>5. CASE \E s \in 0..2, b \in BlockSizes, t \in STmins, p \in Paddings :
             i = [type |-> "FC", status |-> s, bs |-> b, stmin |-> t, fd |-> fd, padding |-> p]
  BY <1>5, SizeAssumption
<1> QED BY <1>1, <1>2, <1>3, <1>4, <1>5

\* Header and data bytes of a frame, and the length they make.
Bare(f, h, d) == /\ f.header = h /\ f.data = d /\ f.pad = 0 /\ f.fill = 0
                 /\ f.with = NoPadding

LEMMA FrameIsBare == ASSUME NEW h, NEW d PROVE Bare(Frame(h, d), h, d)
BY DEF Frame, Bare

LEMMA SingleHeader ==
  ASSUME NEW n \in Nat, NEW fd \in BOOLEAN, FitsSingle(n, fd)
  PROVE  LET h == SingleFrameHeader(n, fd) IN
         /\ Len(h) + n <= FrameDataLength(fd)
         /\ \/ n = 0 /\ fd /\ h = <<0, 0>> /\ Len(h) = 2
            \/ n <= 7 /\ ~(n = 0 /\ fd) /\ h = <<n>> /\ Len(h) = 1
            \/ n \in 8..62 /\ fd /\ h = <<0, n>> /\ Len(h) = 2
<1>1. CASE n = 0 /\ fd
  BY <1>1 DEF SingleFrameHeader, FitsSingle, FrameDataLength
<1>2. CASE n <= 7 /\ ~(n = 0 /\ fd)
  <2>1. SingleFrameHeader(n, fd) = <<n>>
    BY <1>2 DEF SingleFrameHeader
  <2> QED BY <1>2, <2>1 DEF FitsSingle, FrameDataLength
<1>3. CASE n > 7
  <2>1. SingleFrameHeader(n, fd) = <<0, n % 256>>
    BY <1>3 DEF SingleFrameHeader
  <2>2. Len(<<0, n % 256>>) = 2
    OBVIOUS
  <2>3. n + 2 <= FrameDataLength(fd)
    BY <2>1, <2>2 DEF FitsSingle
  <2>4. fd /\ n <= 62
    BY <1>3, <2>3 DEF FrameDataLength
  <2>5. n % 256 = n
    BY <2>4
  <2>6. SingleFrameHeader(n, fd) = <<0, n>>
    BY <2>1, <2>5
  <2>7. /\ Len(SingleFrameHeader(n, fd)) = 2 /\ n \in 8..62
        /\ Len(SingleFrameHeader(n, fd)) + n <= FrameDataLength(fd)
    BY <1>3, <2>1, <2>2, <2>3, <2>4 DEF FrameDataLength
  <2> QED BY <2>4, <2>6, <2>7
<1> QED BY <1>1, <1>2, <1>3

LEMMA FirstHeader ==
  ASSUME NEW n \in Nat, NEW fd \in BOOLEAN, ~FitsSingle(n, fd)
  PROVE  LET h == FirstFrameHeader(n) IN
         /\ Len(h) + FirstChunk(n, fd) = FrameDataLength(fd)
         /\ FirstChunk(n, fd) \in Nat /\ FirstChunk(n, fd) < n
         /\ \/ /\ n <= 4095 /\ Len(h) = 2
               /\ h[1] = 16 + n \div 256 /\ h[2] = n % 256
            \/ /\ n > 4095 /\ Len(h) = 6 /\ h[1] = 16 /\ h[2] = 0
               /\ h[3] = (n \div 16777216) % 256 /\ h[4] = (n \div 65536) % 256
               /\ h[5] = (n \div 256) % 256 /\ h[6] = n % 256
<1>1. (IF fd THEN 62 ELSE 7) < n
  <2>1. CASE n <= 7
    <3>1. SingleFrameHeader(n, fd) = <<0, 0>> \/ SingleFrameHeader(n, fd) = <<n>>
      BY <2>1 DEF SingleFrameHeader
    <3> DEFINE w == Len(SingleFrameHeader(n, fd))
    <3>2. w \in 1..2 /\ (~fd => w = 1)
      BY <2>1, <3>1 DEF SingleFrameHeader
    <3>3. ~(n + w <= FrameDataLength(fd))
      BY DEF FitsSingle
    <3> HIDE DEF w
    <3> QED BY <2>1, <3>2, <3>3 DEF FrameDataLength
  <2>2. CASE n > 7
    <3>1. SingleFrameHeader(n, fd) = <<0, n % 256>>
      BY <2>2 DEF SingleFrameHeader
    <3>2. Len(SingleFrameHeader(n, fd)) = 2
      BY <3>1
    <3> QED BY <2>2, <3>2 DEF FitsSingle, FrameDataLength
  <2> QED BY <2>1, <2>2
<1>2. CASE n <= 4095
  <2>1. FirstFrameHeader(n) = <<16 + n \div 256, n % 256>>
    BY <1>2, SMT DEF FirstFrameHeader
  <2> QED BY <1>1, <1>2, <2>1, SMT DEF FirstChunk, FrameDataLength
<1>3. CASE n > 4095
  <2>1. FirstFrameHeader(n) = <<16, 0, (n \div 16777216) % 256, (n \div 65536) % 256,
                                (n \div 256) % 256, n % 256>>
    BY <1>3, SMT DEF FirstFrameHeader
  <2> DEFINE h == FirstFrameHeader(n)
  <2>2. /\ Len(h) = 6 /\ h[1] = 16 /\ h[2] = 0
        /\ h[3] = (n \div 16777216) % 256 /\ h[4] = (n \div 65536) % 256
        /\ h[5] = (n \div 256) % 256 /\ h[6] = n % 256
    BY <2>1, SMT
  <2>3. FirstChunk(n, fd) = FrameDataLength(fd) - 6
    BY <1>3, SMT DEF FirstChunk
  <2> QED BY <1>3, <2>2, <2>3, SMT DEF FrameDataLength
<1> QED BY <1>2, <1>3, SMT

\* What is encoded: a header of 1 to 6 bytes, and data the frame has room for.
HeaderOf(i) == Encoded(i).header
DataOf(i)   == Encoded(i).data

LEMMA EncodedShape ==
  ASSUME NEW i \in Input
  PROVE  /\ Bare(Encoded(i), HeaderOf(i), DataOf(i))
         /\ Len(HeaderOf(i)) \in 1..6 /\ DataOf(i) \in Nat
         /\ Len(HeaderOf(i)) + DataOf(i) <= FrameDataLength(i.fd)
         /\ i.type = "SF" => HeaderOf(i) = SingleFrameHeader(i.size, i.fd) /\ DataOf(i) = i.size
         /\ i.type = "FF" => /\ HeaderOf(i) = FirstFrameHeader(i.size)
                             /\ DataOf(i) = FirstChunk(i.size, i.fd)
         /\ i.type = "CF" => HeaderOf(i) = <<32 + i.sn>> /\ DataOf(i) = i.size
         /\ i.type = "FC" => HeaderOf(i) = <<48 + i.status, i.bs, i.stmin>> /\ DataOf(i) = 0
<1>1. ASSUME NEW h, NEW d, Encoded(i) = Frame(h, d)
      PROVE  Bare(Encoded(i), HeaderOf(i), DataOf(i)) /\ HeaderOf(i) = h /\ DataOf(i) = d
  BY <1>1, FrameIsBare DEF HeaderOf, DataOf, Bare
<1>2. CASE i.type = "SF"
  <2>1. i.size \in Nat /\ FitsSingle(i.size, i.fd) /\ i.fd \in BOOLEAN
    BY <1>2, InputCases
  <2> DEFINE h == SingleFrameHeader(i.size, i.fd)
  <2>2. Encoded(i) = Frame(h, i.size)
    BY <1>2 DEF Encoded
  <2>3. Len(h) \in 1..2 /\ Len(h) + i.size <= FrameDataLength(i.fd)
    BY <2>1, SingleHeader
  <2> HIDE DEF h
  <2>4. Len(h) \in 1..6
    BY <2>3
  <2> QED BY <1>1, <1>2, <2>1, <2>2, <2>3, <2>4 DEF h
<1>3. CASE i.type = "FF"
  <2>1. i.size \in Nat /\ ~FitsSingle(i.size, i.fd) /\ i.fd \in BOOLEAN
    BY <1>3, InputCases
  <2> DEFINE h == FirstFrameHeader(i.size)
             d == FirstChunk(i.size, i.fd)
  <2>2. Encoded(i) = Frame(h, d)
    BY <1>3 DEF Encoded
  <2>3. /\ Len(h) \in {2, 6} /\ d \in Nat
        /\ Len(h) + d = FrameDataLength(i.fd)
    BY <2>1, FirstHeader
  <2> HIDE DEF h, d
  <2>4. Len(h) \in 1..6 /\ Len(h) + d <= FrameDataLength(i.fd)
    BY <2>3 DEF FrameDataLength
  <2> QED BY <1>1, <1>3, <2>2, <2>3, <2>4 DEF h, d
<1>4. CASE i.type = "CF"
  <2>1. i.size \in Nat /\ i.size < FrameDataLength(i.fd) /\ i.fd \in BOOLEAN
    BY <1>4, InputCases
  <2> DEFINE h == <<32 + i.sn>>
  <2>2. Encoded(i) = Frame(h, i.size)
    BY <1>4 DEF Encoded, ConsecutiveFrameHeader
  <2>3. Len(h) = 1
    OBVIOUS
  <2> HIDE DEF h
  <2>4. Len(h) \in 1..6 /\ Len(h) + i.size <= FrameDataLength(i.fd)
    BY <2>1, <2>3 DEF FrameDataLength
  <2> QED BY <1>1, <1>4, <2>1, <2>2, <2>4 DEF h
<1>5. CASE i.type = "FC"
  <2> DEFINE h == <<48 + i.status, i.bs, i.stmin>>
  <2>1. Encoded(i) = Frame(h, 0)
    BY <1>5 DEF Encoded, FlowControlHeader
  <2>2. Len(h) = 3
    OBVIOUS
  <2> HIDE DEF h
  <2>3. Len(h) \in 1..6 /\ Len(h) + 0 <= FrameDataLength(i.fd)
    BY <2>2 DEF FrameDataLength
  <2>4. Bare(Encoded(i), HeaderOf(i), DataOf(i)) /\ HeaderOf(i) = h /\ DataOf(i) = 0
    BY <1>1, <2>1
  <2>5. Len(HeaderOf(i)) \in 1..6 /\ Len(HeaderOf(i)) + DataOf(i) <= FrameDataLength(i.fd)
    BY <2>3, <2>4
  <2>6. i.type = "FC" => HeaderOf(i) = <<48 + i.status, i.bs, i.stmin>>
    BY <2>4 DEF h
  <2>7. DataOf(i) \in Nat /\ i.type # "SF" /\ i.type # "FF" /\ i.type # "CF"
    BY <1>5, <2>4
  <2> QED BY <2>4, <2>5, <2>6, <2>7
<1> QED BY <1>2, <1>3, <1>4, <1>5, InputCases

\* The length a frame of l bytes is padded to.
Target(l, fd) == IF fd THEN nextFDTargetLength(l) ELSE 8

LEMMA TargetIsLength ==
  ASSUME NEW fd \in BOOLEAN, NEW l \in Nat, l <= FrameDataLength(fd)
  PROVE  /\ Target(l, fd) \in Nat /\ Target(l, fd) >= l
         /\ Target(l, fd) <= FrameDataLength(fd) /\ IsLength(Target(l, fd))
         /\ \A s \in Nat : IsLength(s) /\ s >= l /\ s >= 8 => Target(l, fd) <= s
<1>1. CASE fd
  <2>1. l \in 0..64 /\ Target(l, fd) = nextFDTargetLength(l) /\ FrameDataLength(fd) = 64
    BY <1>1 DEF FrameDataLength, Target
  <2>2. nextFDTargetLength(l) \in {8, 12, 16, 20, 24, 32, 48, 64}
    BY <2>1, TargetRounds
  <2>3. IsLength(nextFDTargetLength(l))
    BY <2>2, LengthCases
  <2>4. /\ nextFDTargetLength(l) >= l
        /\ \A s \in Nat : IsLength(s) /\ s >= l /\ s >= 8 => nextFDTargetLength(l) <= s
    BY <2>1, TargetRounds
  <2>5. nextFDTargetLength(l) \in Nat /\ nextFDTargetLength(l) <= 64
    BY <2>2
  <2> QED BY <2>1, <2>3, <2>4, <2>5
<1>2. CASE ~fd
  <2>1. Target(l, fd) = 8 /\ FrameDataLength(fd) = 8
    BY <1>2 DEF FrameDataLength, Target
  <2>2. IsLength(8)
    BY LengthCases
  <2> QED BY <2>1, <2>2
<1> QED BY <1>1, <1>2

\* A frame f of header h, d data bytes, and pad and fill bytes behind them.
Made(f, h, d, pad, fill) ==
  f.header = h /\ f.data = d /\ f.pad = pad /\ f.fill = fill

LEMMA MadeLength ==
  ASSUME NEW f, NEW h, NEW d, NEW pad, NEW fill, Made(f, h, d, pad, fill)
  PROVE  Length(f) = Len(h) + d + pad + fill
BY DEF Made, Length

\* Padded to that length, or left as it is.
PaddedAs(p, h, d, l, i) ==
  LET t == Target(l, i.fd) IN
  /\ \E k, v : p = [header |-> h, data |-> d, pad |-> k, with |-> v, fill |-> 0]
  /\ Made(p, h, d, IF i.padding # NoPadding /\ l < t THEN t - l ELSE 0, 0)

LEMMA PaddedShape ==
  ASSUME NEW h, NEW w \in 1..6, Len(h) = w, NEW d \in Nat,
         NEW i, w + d <= FrameDataLength(i.fd)
  PROVE  PaddedAs(Padded(Frame(h, d), i), h, d, w + d, i)
<1> DEFINE e == Frame(h, d)
           t == Target(w + d, i.fd)
<1>1. e = [header |-> h, data |-> d, pad |-> 0, with |-> NoPadding, fill |-> 0]
  BY DEF Frame
<1>2. Length(e) = w + d
  <2>1. Length(e) = Len(h) + d + 0 + 0
    BY <1>1, MadeLength DEF Made
  <2> QED BY <2>1
<1>3. Padded(e, i) = IF i.padding # NoPadding /\ w + d < t
                     THEN [e EXCEPT !.pad = t - (w + d), !.with = i.padding] ELSE e
  BY <1>2 DEF Padded, Target
<1> HIDE DEF e, t
<1>4. CASE i.padding # NoPadding /\ w + d < t
  <2>1. Padded(e, i) = [header |-> h, data |-> d, pad |-> t - (w + d),
                        with |-> i.padding, fill |-> 0]
    BY <1>1, <1>3, <1>4
  <2>2. Made(Padded(e, i), h, d, t - (w + d), 0)
    BY <2>1 DEF Made
  <2>3. Made(Padded(e, i), h, d, IF i.padding # NoPadding /\ w + d < t THEN t - (w + d) ELSE 0, 0)
    BY <1>4, <2>2
  <2>4. \E k, v : Padded(e, i) = [header |-> h, data |-> d, pad |-> k, with |-> v, fill |-> 0]
    BY <2>1
  <2> QED BY <2>3, <2>4 DEF e, t, PaddedAs
<1>5. CASE ~(i.padding # NoPadding /\ w + d < t)
  <2>1. Padded(e, i) = e
    BY <1>3, <1>5
  <2>2. Made(Padded(e, i), h, d, 0, 0)
    BY <1>1, <2>1 DEF Made
  <2>3. Made(Padded(e, i), h, d, IF i.padding # NoPadding /\ w + d < t THEN t - (w + d) ELSE 0, 0)
    BY <1>5, <2>2
  <2>4. \E k, v : Padded(e, i) = [header |-> h, data |-> d, pad |-> k, with |-> v, fill |-> 0]
    BY <1>1, <2>1
  <2> QED BY <2>3, <2>4 DEF e, t, PaddedAs
<1> QED BY <1>4, <1>5

LEMMA CarriedShape ==
  ASSUME NEW p, NEW h, NEW w \in 1..6, Len(h) = w, NEW d \in Nat, NEW pad \in Nat,
         \E k, v : p = [header |-> h, data |-> d, pad |-> k, with |-> v, fill |-> 0],
         Made(p, h, d, pad, 0), w + d + pad <= 64
  PROVE  \E r \in Nat : /\ RoundsTo(w + d + pad, r)
                        /\ Made(Carried(p), h, d, pad, r - (w + d + pad))
                        /\ Length(Carried(p)) = r
<1> DEFINE m == w + d + pad
           r == DLCToLength(LengthToDLC(m))
<1>1. Length(p) = m
  <2>1. Length(p) = Len(h) + d + pad + 0
    BY MadeLength
  <2> QED BY <2>1
<1>2. m \in 0..64
  OBVIOUS
<1>3. Carried(p) = [p EXCEPT !.fill = r - m]
  BY <1>1 DEF Carried
<1> HIDE DEF m
<1>4. RoundsTo(m, r)
  BY <1>2, DLCRounds
<1> HIDE DEF r
<1>5. Made(Carried(p), h, d, pad, r - m)
  <2>1. PICK k, v : p = [header |-> h, data |-> d, pad |-> k, with |-> v, fill |-> 0]
    OBVIOUS
  <2>2. k = pad
    BY <2>1 DEF Made
  <2> QED BY <1>3, <2>1, <2>2 DEF Made
<1>6. Length(Carried(p)) = r
  <2>1. Length(Carried(p)) = Len(h) + d + pad + (r - m)
    BY <1>5, MadeLength
  <2>2. r \in Nat
    BY <1>4 DEF RoundsTo
  <2> QED BY <2>1, <2>2 DEF m
<1>7. r \in Nat
  BY <1>4 DEF RoundsTo
<1> QED BY <1>4, <1>5, <1>6, <1>7 DEF m

\* The frame as the peer gets it.
Sent(i) == Carried(Padded(Encoded(i), i))

\* Header and data arrive; what is filled in stands behind them.
LEMMA SentShape ==
  ASSUME NEW i \in Input
  PROVE  LET f == Sent(i)
             l == Len(HeaderOf(i)) + DataOf(i)
         IN /\ f.header = HeaderOf(i) /\ f.data = DataOf(i)
            /\ l \in Nat /\ Length(f) \in Nat /\ Length(f) >= l
            /\ Length(Padded(Encoded(i), i)) <= FrameDataLength(i.fd)
            /\ i.padding # NoPadding => f.fill = 0
            /\ i.padding = NoPadding => RoundsTo(l, Length(f))
            /\ \A s \in Nat : IsLength(s) /\ s >= l /\ (i.padding = NoPadding \/ s >= 8)
                 => Length(f) <= s
<1>1. PICK h, d, w : /\ h = HeaderOf(i) /\ d = DataOf(i) /\ w = Len(HeaderOf(i))
  OBVIOUS
<1>2. w \in 1..6 /\ d \in Nat /\ w + d <= FrameDataLength(i.fd) /\ Len(h) = w
  BY <1>1, EncodedShape
<1>3. Encoded(i) = Frame(h, d) /\ i.fd \in BOOLEAN
  <2>1. \E a, b : Encoded(i) = Frame(a, b)
    BY InputCases DEF Encoded
  <2> QED BY <1>1, <2>1, InputCases DEF HeaderOf, DataOf, Frame
<1>4. PICK t : t = Target(w + d, i.fd)
  OBVIOUS
<1>5. PICK l : l = w + d
  OBVIOUS
<1>6. PICK pad : pad = IF i.padding # NoPadding /\ l < t THEN t - l ELSE 0
  OBVIOUS
<1>7. PICK p : p = Padded(Encoded(i), i)
  OBVIOUS
<1>8. /\ \E k, v : p = [header |-> h, data |-> d, pad |-> k, with |-> v, fill |-> 0]
      /\ Made(p, h, d, pad, 0)
  <2>1. PaddedAs(Padded(Frame(h, d), i), h, d, w + d, i)
    BY <1>2, PaddedShape
  <2>2. PaddedAs(p, h, d, w + d, i)
    BY <1>3, <1>7, <2>1
  <2> QED BY <1>4, <1>5, <1>6, <2>2 DEF PaddedAs
<1>9. l \in Nat /\ l <= FrameDataLength(i.fd) /\ FrameDataLength(i.fd) \in {8, 64}
  BY <1>2, <1>3, <1>5 DEF FrameDataLength
<1>10. /\ t \in Nat /\ t >= l /\ t <= FrameDataLength(i.fd) /\ IsLength(t)
       /\ \A s \in Nat : IsLength(s) /\ s >= l /\ s >= 8 => t <= s
  BY <1>3, <1>4, <1>5, <1>9, TargetIsLength
<1>11. /\ pad \in Nat /\ l + pad <= FrameDataLength(i.fd) /\ l + pad <= 64
       /\ i.padding = NoPadding => pad = 0
       /\ i.padding # NoPadding => l + pad = t
  BY <1>6, <1>9, <1>10
<1>12. PICK r \in Nat : /\ RoundsTo(l + pad, r)
                        /\ Made(Carried(p), h, d, pad, r - (l + pad))
                        /\ Length(Carried(p)) = r
  <2>1. w + d + pad = l + pad
    BY <1>5
  <2> QED BY <1>2, <1>8, <1>11, <2>1, CarriedShape
<1>13. PICK f : f = Sent(i)
  OBVIOUS
<1>14. f.header = h /\ f.data = d /\ f.fill = r - (l + pad) /\ Length(f) = r
  BY <1>7, <1>12, <1>13 DEF Sent, Made
<1>15. Length(p) = l + pad
  <2>1. Length(p) = Len(h) + d + pad + 0
    BY <1>8, MadeLength
  <2> QED BY <1>2, <1>5, <1>9, <1>11, <2>1
<1>16. r >= l + pad /\ \A s \in Nat : IsLength(s) /\ s >= l + pad => r <= s
  BY <1>12 DEF RoundsTo
<1>17. i.padding # NoPadding => f.fill = 0
  <2> SUFFICES ASSUME i.padding # NoPadding PROVE f.fill = 0
    OBVIOUS
  <2>1. r = t
    BY <1>10, <1>11, <1>16
  <2> QED BY <1>11, <1>14, <1>10, <2>1
<1>18. i.padding = NoPadding => RoundsTo(l, Length(f))
  <2> SUFFICES ASSUME i.padding = NoPadding PROVE RoundsTo(l, Length(f))
    OBVIOUS
  <2>1. l + pad = l
    BY <1>9, <1>11
  <2> QED BY <1>12, <1>14, <2>1
<1>19. ASSUME NEW s \in Nat, IsLength(s), s >= l, i.padding = NoPadding \/ s >= 8
       PROVE  Length(f) <= s
  <2>1. l + pad <= s
    BY <1>9, <1>10, <1>11, <1>19
  <2> QED BY <1>14, <1>16, <1>19, <2>1
<1>20. Length(f) >= l
  BY <1>9, <1>11, <1>14, <1>16
<1>21. l = Len(HeaderOf(i)) + DataOf(i)
  BY <1>1, <1>5
<1> QED BY <1>1, <1>7, <1>9, <1>11, <1>13, <1>14, <1>15, <1>17, <1>18, <1>19, <1>20, <1>21

-----------------------------------------------------------------------------
\* What the peer parses.

LEMMA HeaderByte ==
  ASSUME NEW f, NEW w \in 1..6, Len(f.header) = w, NEW k \in 1..w
  PROVE  ByteAt(f, k) = f.header[k]
BY DEF ByteAt

\* A message whose length the long header has room for.
LengthFits(n) == n \div 16777216 <= 255

\* The bytes of a 32-bit number put together again.
LEMMA FourBytes ==
  ASSUME NEW n \in Nat, LengthFits(n)
  PROVE  ((((n \div 16777216) % 256) * 256 + ((n \div 65536) % 256)) * 256
             + ((n \div 256) % 256)) * 256 + (n % 256) = n
<1>1. (n \div 16777216) % 256 = n \div 16777216
  BY SMT DEF LengthFits
<1>2. (n \div 16777216) * 256 + ((n \div 65536) % 256) = n \div 65536
  BY SMT
<1>3. (n \div 65536) * 256 + ((n \div 256) % 256) = n \div 256
  BY SMT
<1>4. (n \div 256) * 256 + (n % 256) = n
  BY SMT
<1> QED BY <1>1, <1>2, <1>3, <1>4, SMT

LEMMA ParsedSingle ==
  ASSUME NEW f, NEW n \in Nat, NEW fd \in BOOLEAN, FitsSingle(n, fd),
         f.header = SingleFrameHeader(n, fd), Length(f) \in Nat,
         Length(f) >= Len(f.header) + n, n = 0 /\ ~fd => Length(f) = 1
  PROVE  ParseFrame(f) = [type |-> "SF", start |-> Len(f.header), count |-> n]
<1>1. CASE n = 0 /\ fd
  <2>1. Len(f.header) = 2 /\ f.header[1] = 0 /\ f.header[2] = 0
    <3>1. f.header = <<0, 0>>
      BY <1>1, SingleHeader
    <3> QED BY <3>1
  <2>2. ByteAt(f, 1) = 0 /\ ByteAt(f, 2) = 0
    BY <2>1, HeaderByte
  <2>3. ParseFrame(f) = ParseSingleFrame(f)
    BY <2>1, <2>2 DEF ParseFrame
  <2>4. ParseSingleFrame(f) = [type |-> "SF", start |-> 2, count |-> 0]
    BY <2>1, <2>2 DEF ParseSingleFrame
  <2> QED BY <1>1, <2>1, <2>3, <2>4
<1>2. CASE n <= 7 /\ ~(n = 0 /\ fd)
  <2>1. Len(f.header) = 1 /\ f.header[1] = n
    <3>1. f.header = <<n>>
      BY <1>2 DEF SingleFrameHeader
    <3> QED BY <3>1
  <2>2. ByteAt(f, 1) = n
    BY <2>1, HeaderByte
  <2>3. ParseFrame(f) = ParseSingleFrame(f)
    BY <1>2, <2>1, <2>2 DEF ParseFrame
  <2>4. ParseSingleFrame(f) = [type |-> "SF", start |-> 1, count |-> n]
    BY <1>2, <2>1, <2>2 DEF ParseSingleFrame
  <2> QED BY <2>1, <2>3, <2>4
<1>3. CASE n > 7
  <2>1. Len(f.header) = 2 /\ f.header[1] = 0 /\ f.header[2] = n
    <3>1. f.header = <<0, n>>
      BY <1>3, SingleHeader
    <3> QED BY <3>1
  <2>2. ByteAt(f, 1) = 0 /\ ByteAt(f, 2) = n
    BY <2>1, HeaderByte
  <2>3. ParseFrame(f) = ParseSingleFrame(f)
    BY <2>1, <2>2 DEF ParseFrame
  <2>4. ParseSingleFrame(f) = [type |-> "SF", start |-> 2, count |-> n]
    BY <2>1, <2>2 DEF ParseSingleFrame
  <2> QED BY <2>1, <2>3, <2>4
<1> QED BY <1>1, <1>2, <1>3

LEMMA ParsedFirst ==
  ASSUME NEW f, NEW n \in Nat, NEW fd \in BOOLEAN, ~FitsSingle(n, fd),
         LengthFits(n),
         f.header = FirstFrameHeader(n), Length(f) = FrameDataLength(fd)
  PROVE  ParseFrame(f) = [type |-> "FF", total |-> n, start |-> Len(f.header),
                          count |-> FirstChunk(n, fd)]
<1> DEFINE c == FirstChunk(n, fd)
<1>1. Length(f) \in {8, 64}
  BY DEF FrameDataLength
<1>2. c \in Nat /\ c < n /\ Len(f.header) + c = Length(f)
  BY FirstHeader
<1> HIDE DEF c
<1>3. CASE n <= 4095
  <2>1. Len(f.header) = 2 /\ f.header[1] = 16 + n \div 256 /\ f.header[2] = n % 256
    BY <1>3, FirstHeader
  <2>2. ByteAt(f, 1) = 16 + n \div 256 /\ ByteAt(f, 2) = n % 256
    BY <2>1, HeaderByte
  <2>3. (16 + n \div 256) \div 16 = 1 /\ (16 + n \div 256) % 16 = n \div 256
    BY <1>3
  <2>4. (n \div 256) * 256 + (n % 256) = n
    OBVIOUS
  <2>5. ParseFrame(f) = ParseFirstFrame(f)
    BY <1>1, <2>2, <2>3 DEF ParseFrame
  <2>6. (ByteAt(f, 1) % 16) * 256 + ByteAt(f, 2) = n
    <3>1. ByteAt(f, 1) % 16 = n \div 256
      BY <2>2, <2>3
    <3>2. ByteAt(f, 2) = n % 256
      BY <2>2
    <3> QED BY <2>4, <3>1, <3>2
  <2>7. n # 0 /\ Length(f) - 2 = c /\ ~(Length(f) < 2) /\ ~(n <= Length(f) - 2)
    BY <1>1, <1>2, <2>1
  <2>8. ParseFirstFrame(f) = [type |-> "FF", total |-> n, start |-> 2, count |-> c]
    BY <2>6, <2>7 DEF ParseFirstFrame
  <2> QED BY <2>1, <2>5, <2>8 DEF c
<1>4. CASE n > 4095
  <2>1. /\ Len(f.header) = 6 /\ f.header[1] = 16 /\ f.header[2] = 0
        /\ f.header[3] = (n \div 16777216) % 256 /\ f.header[4] = (n \div 65536) % 256
        /\ f.header[5] = (n \div 256) % 256 /\ f.header[6] = n % 256
    BY <1>4, FirstHeader, SMT
  <2>2. /\ ByteAt(f, 1) = 16 /\ ByteAt(f, 2) = 0
        /\ ByteAt(f, 3) = (n \div 16777216) % 256 /\ ByteAt(f, 4) = (n \div 65536) % 256
        /\ ByteAt(f, 5) = (n \div 256) % 256 /\ ByteAt(f, 6) = n % 256
    BY <2>1, HeaderByte, SMT
  <2>3. ParseFrame(f) = ParseFirstFrame(f)
    BY <1>1, <2>2, SMT DEF ParseFrame
  <2>4. ((ByteAt(f, 3) * 256 + ByteAt(f, 4)) * 256 + ByteAt(f, 5)) * 256 + ByteAt(f, 6) = n
    BY <2>2, FourBytes, SMT
  <2>5. (ByteAt(f, 1) % 16) * 256 + ByteAt(f, 2) = 0
    BY <2>2, SMT
  <2>6. Length(f) - 6 = c /\ ~(Length(f) < 6) /\ ~(n <= Length(f) - 6) /\ ~(n <= 4095)
    BY <1>1, <1>2, <1>4, <2>1, SMT
  <2>7. ParseFirstFrame(f) = [type |-> "FF", total |-> n, start |-> 6, count |-> c]
    BY <2>4, <2>5, <2>6, SMT DEF ParseFirstFrame
  <2> QED BY <2>1, <2>3, <2>7, SMT DEF c
<1> QED BY <1>3, <1>4, SMT

LEMMA ParsedConsecutive ==
  ASSUME NEW f, NEW sn \in 0..15, Len(f.header) = 1, f.header[1] = 32 + sn,
         Length(f) \in Nat, Length(f) >= 1
  PROVE  ParseFrame(f) = [type |-> "CF", sn |-> sn, start |-> Len(f.header),
                          count |-> Length(f) - 1]
<1>2. ByteAt(f, 1) = 32 + sn
  BY HeaderByte
<1>3. (32 + sn) \div 16 = 2 /\ (32 + sn) % 16 = sn
  OBVIOUS
<1> QED BY <1>2, <1>3 DEF ParseFrame

LEMMA STminDecodes ==
  ASSUME NEW b \in (0..127) \cup (241..249) PROVE decodeSTmin(b) = Separation(b)
<1>1. decodeSTmin(b) \in SeparationTimes /\ StandsFor(b, decodeSTmin(b))
  BY DEF decodeSTmin, StandsFor, SeparationTimes
<1>2. Separation(b) \in SeparationTimes /\ StandsFor(b, Separation(b))
  BY <1>1 DEF Separation
<1>3. ASSUME NEW t \in SeparationTimes, StandsFor(b, t) PROVE t = decodeSTmin(b)
  BY <1>3 DEF decodeSTmin, StandsFor, SeparationTimes
<1> QED BY <1>2, <1>3

LEMMA ParsedFlowControl ==
  ASSUME NEW f, Len(f.header) = 3, f.header[1] \in 48..50,
         f.header[3] \in (0..127) \cup (241..249), Length(f) \in Nat, Length(f) >= 3
  PROVE  ParseFrame(f) = [type |-> "FC", status |-> f.header[1] - 48, bs |-> f.header[2],
                          stmin |-> Separation(f.header[3])]
<1>1. ByteAt(f, 1) = f.header[1] /\ ByteAt(f, 2) = f.header[2] /\ ByteAt(f, 3) = f.header[3]
  BY HeaderByte
<1>2. f.header[1] \div 16 = 3 /\ f.header[1] % 16 = f.header[1] - 48
  OBVIOUS
<1>3. ParseFrame(f) = ParseFlowControl(f)
  BY <1>1, <1>2 DEF ParseFrame
<1>4. ParseFlowControl(f) = [type |-> "FC", status |-> f.header[1] - 48, bs |-> f.header[2],
                             stmin |-> decodeSTmin(f.header[3])]
  BY <1>1, <1>2 DEF ParseFlowControl
<1> QED BY <1>3, <1>4, STminDecodes

\* The sizes that are sent segmented are among MessageSizes.
LEMMA FirstSizes ==
  ASSUME NEW i \in Input, i.type = "FF" PROVE i.size \in MessageSizes
<1>1. PICK fd \in BOOLEAN :
        \/ \E n \in {s \in SingleSizes : FitsSingle(s, fd)}, p \in Paddings :
             i = [type |-> "SF", size |-> n, fd |-> fd, padding |-> p]
        \/ \E n \in {s \in MessageSizes : ~FitsSingle(s, fd)}, p \in Paddings :
             i = [type |-> "FF", size |-> n, fd |-> fd, padding |-> p]
        \/ \E n \in {c \in ChunkSizes : c < FrameDataLength(fd)}, sn \in SequenceNumbers,
              p \in Paddings :
             i = [type |-> "CF", size |-> n, sn |-> sn, fd |-> fd, padding |-> p]
        \/ \E s \in 0..2, b \in BlockSizes, t \in STmins, p \in Paddings :
             i = [type |-> "FC", status |-> s, bs |-> b, stmin |-> t, fd |-> fd, padding |-> p]
  BY DEF Input, Paddings
<1>2. \E n \in {s \in MessageSizes : ~FitsSingle(s, fd)}, p \in Paddings :
        i = [type |-> "FF", size |-> n, fd |-> fd, padding |-> p]
  BY <1>1
<1> QED BY <1>2

-----------------------------------------------------------------------------
\* What is sent arrives.
LEMMA SentArrives ==
  ASSUME NEW i \in Input, ~PaddedEmpty(i), i.type = "FF" => LengthFits(i.size)
  PROVE  Arrives(i, Sent(i), ParseFrame(Sent(i)))
<1>1. PICK f : f = Sent(i)
  OBVIOUS
<1>2. i.fd \in BOOLEAN
  BY InputCases
<1>3. /\ f.header = HeaderOf(i) /\ f.data = DataOf(i) /\ Length(f) \in Nat
      /\ Length(f) >= Len(HeaderOf(i)) + DataOf(i)
      /\ i.padding = NoPadding => RoundsTo(Len(HeaderOf(i)) + DataOf(i), Length(f))
  BY <1>1, SentShape
<1>8. Length(f) \in Nat
  BY <1>3
<1>4. CASE i.type = "SF"
  <2>1. i.size \in Nat /\ FitsSingle(i.size, i.fd)
    BY <1>4, InputCases
  <2>2. f.header = SingleFrameHeader(i.size, i.fd) /\ DataOf(i) = i.size
    BY <1>3, <1>4, EncodedShape
  <2>3. i.size = 0 /\ ~i.fd => Length(f) = 1
    <3> SUFFICES ASSUME i.size = 0, ~i.fd PROVE Length(f) = 1
      OBVIOUS
    <3>1. f.header = <<0>>
      BY <2>2 DEF SingleFrameHeader
    <3>2. Len(f.header) = 1
      BY <3>1
    <3>3. i.padding = NoPadding
      BY <1>4 DEF PaddedEmpty
    <3>4. Len(HeaderOf(i)) + DataOf(i) = 1
      BY <1>3, <2>2, <3>2
    <3>5. RoundsTo(1, Length(f))
      BY <1>3, <3>3, <3>4
    <3>6. IsLength(1)
      BY LengthCases
    <3> QED BY <3>5, <3>6 DEF RoundsTo
  <2>4. Length(f) >= Len(f.header) + i.size
    BY <1>3, <2>2
  <2>5. ParseFrame(f) = [type |-> "SF", start |-> Len(f.header), count |-> i.size]
    BY <1>2, <1>3, <2>1, <2>2, <2>3, <2>4, ParsedSingle
  <2> QED BY <1>1, <1>4, <2>5 DEF Arrives, DataInPlace
<1>5. CASE i.type = "FF"
  <2>1. i.size \in Nat /\ ~FitsSingle(i.size, i.fd)
    BY <1>5, InputCases
  <2>2. f.header = FirstFrameHeader(i.size) /\ DataOf(i) = FirstChunk(i.size, i.fd)
    BY <1>3, <1>5, EncodedShape
  <2>3. Length(f) = FrameDataLength(i.fd)
    <3> DEFINE m == FrameDataLength(i.fd)
    <3>1. Len(HeaderOf(i)) + DataOf(i) = m
      BY <1>2, <1>3, <2>1, <2>2, FirstHeader
    <3>2. m \in {8, 64}
      BY DEF FrameDataLength
    <3> HIDE DEF m
    <3>3. IsLength(m) /\ m \in Nat /\ m >= 8
      BY <3>2, LengthCases
    <3>4. Length(f) <= m
      BY <1>1, <3>1, <3>3, SentShape
    <3> QED BY <1>3, <3>1, <3>3, <3>4 DEF m
  <2>4. ParseFrame(f) = [type |-> "FF", total |-> i.size, start |-> Len(f.header),
                         count |-> FirstChunk(i.size, i.fd)]
    BY <1>2, <1>5, <2>1, <2>2, <2>3, ParsedFirst
  <2> QED BY <1>1, <1>5, <2>4 DEF Arrives, DataInPlace
<1>6. CASE i.type = "CF"
  <2>1. i.sn \in 0..15 /\ i.size \in Nat
    BY <1>6, InputCases
  <2>2. f.header = <<32 + i.sn>> /\ DataOf(i) = i.size
    BY <1>3, <1>6, EncodedShape
  <2>3. Len(f.header) = 1 /\ f.header[1] = 32 + i.sn
    BY <2>2
  <2>4. Length(f) >= 1 + i.size
    BY <1>3, <2>2, <2>3
  <2>5. ParseFrame(f) = [type |-> "CF", sn |-> i.sn, start |-> Len(f.header),
                         count |-> Length(f) - 1]
    <3>1. Length(f) >= 1
      BY <1>8, <2>1, <2>4
    <3> QED BY <1>8, <2>1, <2>3, <3>1, ParsedConsecutive
  <2> QED BY <1>1, <1>3, <1>6, <2>1, <2>4, <2>5 DEF Arrives, DataInPlace
<1>7. CASE i.type = "FC"
  <2>1. i.status \in 0..2 /\ i.stmin \in (0..127) \cup (241..249)
    BY <1>7, InputCases
  <2>2. f.header = <<48 + i.status, i.bs, i.stmin>> /\ DataOf(i) = 0
    BY <1>3, <1>7, EncodedShape
  <2>3. /\ Len(f.header) = 3 /\ f.header[1] = 48 + i.status /\ f.header[2] = i.bs
        /\ f.header[3] = i.stmin
    BY <2>2
  <2>4. Length(f) >= 3
    BY <1>3, <2>2, <2>3
  <2>5. ParseFrame(f) = [type |-> "FC", status |-> i.status, bs |-> i.bs,
                         stmin |-> Separation(i.stmin)]
    <3>1. f.header[1] \in 48..50 /\ f.header[1] - 48 = i.status
      BY <2>1, <2>3
    <3>2. f.header[3] \in (0..127) \cup (241..249)
      BY <2>1, <2>3
    <3>3. ParseFrame(f) = [type |-> "FC", status |-> f.header[1] - 48, bs |-> f.header[2],
                           stmin |-> Separation(f.header[3])]
      BY <1>8, <2>3, <2>4, <3>1, <3>2, ParsedFlowControl
    <3> QED BY <2>3, <3>1, <3>3
  <2> QED BY <1>1, <1>7, <2>5 DEF Arrives
<1> QED BY <1>4, <1>5, <1>6, <1>7, InputCases

-----------------------------------------------------------------------------
\* What is known of the frame at each stage: it is the one the stages before it make of
\* the input, and the link has not refused it.
CInv ==
  /\ input \in Input
  /\ stage \in {"encode", "pad", "send", "parse", "done"}
  /\ stage = "pad" => frame = Encoded(input)
  /\ stage = "send" => frame = Padded(Encoded(input), input)
  /\ stage \in {"parse", "done"} => frame = Sent(input)
  /\ stage = "done" => pdu = ParseFrame(frame)

LEMMA CInvInit == Init => CInv
BY DEF Init, CInv

LEMMA CInvStep == CInv /\ [Next]_vars => CInv'
<1> SUFFICES ASSUME CInv, [Next]_vars PROVE CInv'
  OBVIOUS
<1>1. CASE Encode
  BY <1>1 DEF CInv, Encode, Step
<1>2. CASE Pad
  BY <1>2 DEF CInv, Pad, Step
<1>3. CASE Transmit
  <2>1. stage = "send" /\ input \in Input /\ frame = Padded(Encoded(input), input)
    BY <1>3 DEF CInv, Transmit, Step
  <2>2. Length(frame) <= FrameDataLength(input.fd)
    BY <2>1, SentShape
  <2>3. stage' = "parse" /\ input' = input /\ frame' = Sent(input)
    BY <1>3, <2>1, <2>2 DEF Transmit, Step, Sent
  <2> QED BY <2>1, <2>3 DEF CInv
<1>4. CASE Parse
  BY <1>4 DEF CInv, Parse
<1>5. CASE UNCHANGED vars
  BY <1>5 DEF CInv, vars
<1> QED BY <1>1, <1>2, <1>3, <1>4, <1>5 DEF Next

\* Every frame on its way is what the stages behind it make of the input (makeTxMsg,
\* can.NewFrame, fromCANFrame, ParseFrame).
THEOREM CInvHolds == Spec => []CInv
BY CInvInit, CInvStep, PTL DEF Spec

\* can.NewFrame takes every frame the session builds, whatever its payload and padding.
THEOREM NoFrameIsRefused == Spec => []NeverRefused
<1>1. CInv => NeverRefused
  BY DEF CInv, NeverRefused
<1> QED BY <1>1, CInvHolds, PTL

\* The padding of the session and the DLC of the frame agree: what is padded is not filled,
\* what is not is filled no further than to the next length a DLC stands for.
THEOREM PaddingMeetsDLC == Spec => []FillAgrees
<1>1. CInv => FillAgrees
  <2> SUFFICES ASSUME CInv, stage = "done"
               PROVE  /\ input.padding # NoPadding => frame.fill = 0
                      /\ \A l \in (0..8) \cup {FDLengths[k] : k \in 1..7} :
                           /\ l >= Len(frame.header) + frame.data
                           /\ input.padding = NoPadding \/ l >= 8
                           => Length(frame) <= l
    BY DEF FillAgrees
  <2>1. input \in Input /\ frame = Sent(input)
    BY DEF CInv
  <2>2. /\ frame.header = HeaderOf(input) /\ frame.data = DataOf(input)
        /\ input.padding # NoPadding => frame.fill = 0
        /\ \A s \in Nat : /\ IsLength(s) /\ s >= Len(HeaderOf(input)) + DataOf(input)
                          /\ input.padding = NoPadding \/ s >= 8
                          => Length(frame) <= s
    BY <2>1, SentShape
  <2>3. ASSUME NEW l \in (0..8) \cup {FDLengths[k] : k \in 1..7}
        PROVE  l \in Nat /\ IsLength(l)
    <3>1. IsLength(l)
      BY DEF IsLength
    <3> QED BY <3>1, LengthCases
  <2> QED BY <2>2, <2>3
<1> QED BY <1>1, CInvHolds, PTL

\* Messages whose length the long header has room for: 32 bits, to which the code cuts
\* the length off without a word.
LongestFits == \A n \in MessageSizes : LengthFits(n)

\* Whatever size, padding and frame format, the peer parses what was meant, at every
\* boundary of the header formats (createSingleFramePayload to ParseFrame).
THEOREM FramesArrive == ASSUME LongestFits PROVE Spec => []RoundTrip
<1>1. CInv => RoundTrip
  <2> SUFFICES ASSUME CInv, stage = "done", ~PaddedEmpty(input)
               PROVE  Arrives(input, frame, pdu)
    BY DEF RoundTrip
  <2>1. input \in Input /\ frame = Sent(input) /\ pdu = ParseFrame(frame)
    BY DEF CInv
  <2>2. input.type = "FF" => LengthFits(input.size)
    BY <2>1, FirstSizes DEF LongestFits
  <2> QED BY <2>1, <2>2, SentArrives
<1> QED BY <1>1, CInvHolds, PTL
=============================================================================

------------------------------- MODULE IsoTpCodec -------------------------------
(***************************************************************************)
(* One ISO-TP frame from the payload bytes it is made of to the PDU the    *)
(* peer parses: header, padding, the CAN frame's DLC, and ParseFrame.      *)
(*                                                                         *)
(* The length of a frame on the bus is a property of its DLC, so the peer  *)
(* sees padding and DLC fill behind the bytes that were meant.  A frame    *)
(* here is its header bytes, the number of payload bytes, and the number   *)
(* and value of the bytes filled in behind them.                           *)
(***************************************************************************)
EXTENDS Integers, Sequences

CONSTANTS
  SingleSizes,   \* payload sizes sent as single frames
  MessageSizes,  \* payload sizes sent segmented
  ChunkSizes,    \* payload bytes of consecutive frames
  SequenceNumbers, BlockSizes, STmins,
  PaddingBytes,  \* values of Config.PaddingByte that are tried ...
  NoPadding,     \* ... besides an unset one
  PayloadByte    \* what a payload byte is read as, where a header is expected

ASSUME SizeAssumption ==
  /\ SingleSizes \subseteq Nat /\ MessageSizes \subseteq Nat /\ ChunkSizes \subseteq Nat \ {0}
  /\ SequenceNumbers \subseteq 0..15 /\ BlockSizes \subseteq 0..255
  /\ STmins \subseteq (0..127) \cup (241..249)
ASSUME ByteAssumption == PaddingBytes \subseteq 0..255 /\ NoPadding \notin 0..255
                         /\ PayloadByte \in 0..255

FrameDataLength(fd) == IF fd THEN 64 ELSE 8

-----------------------------------------------------------------------------
\* Lengths a CAN frame can have: up to 8 exactly, then these.
FDLengths == <<12, 16, 20, 24, 32, 48, 64>>

\* Mutant: a length the DLC stands for exactly takes the next DLC.
LengthToDLCOff(l) ==
  IF l <= 8 THEN l
  ELSE IF l >= 48 THEN 15
  ELSE 8 + CHOOSE i \in 1..7 : l < FDLengths[i] /\ \A j \in 1..(i - 1) : l >= FDLengths[j]

LengthToDLC(l) ==
  IF l <= 8 THEN l
  ELSE IF l > 64 THEN 15
  ELSE 8 + CHOOSE i \in 1..7 : l <= FDLengths[i] /\ \A j \in 1..(i - 1) : l > FDLengths[j]

DLCToLength(dlc) == IF dlc <= 8 THEN dlc ELSE FDLengths[dlc - 8]

\* The session's own table of lengths to pad to.
nextFDTargetLength(l) ==
  CASE l <= 8  -> 8
    [] l \in 9..12  -> 12
    [] l \in 13..16 -> 16
    [] l \in 17..20 -> 20
    [] l \in 21..24 -> 24
    [] l \in 25..32 -> 32
    [] l \in 33..48 -> 48
    [] OTHER -> 64

-----------------------------------------------------------------------------
\* Headers.
SingleFrameHeader(n, fd) ==
  IF n = 0 /\ fd THEN <<0, 0>>
  ELSE IF n <= 7 THEN <<n>>
  ELSE <<0, n % 256>>

\* Mutant: 4096 bytes are taken for a 12-bit length.
FirstFrameHeaderOff(total) ==
  IF total <= 4096 THEN <<16 + total \div 256, total % 256>>
  ELSE <<16, 0, (total \div 16777216) % 256, (total \div 65536) % 256, (total \div 256) % 256,
         total % 256>>

\* 12-bit length, or a zero one and 32 bits.
FirstFrameHeader(total) ==
  IF total <= 4095 THEN <<16 + total \div 256, total % 256>>
  ELSE <<16, 0, (total \div 16777216) % 256, (total \div 65536) % 256, (total \div 256) % 256,
         total % 256>>

ConsecutiveFrameHeader(sn) == <<32 + sn>>

FlowControlHeader(status, bs, stmin) == <<48 + status, bs, stmin>>

Frame(header, data) == [header |-> header, data |-> data, pad |-> 0, with |-> NoPadding, fill |-> 0]

Length(f) == Len(f.header) + f.data + f.pad + f.fill

\* What the session is asked to send: initiateTx chooses between a single and a
\* first frame, handleTxTransmit cuts the rest, sendFlowControl answers.
FitsSingle(n, fd) == n + Len(SingleFrameHeader(n, fd)) <= FrameDataLength(fd)

\* Mutant: the long header is not accounted for.
FirstChunkShortHeader(total, fd) == FrameDataLength(fd) - 2

FirstChunk(total, fd) == FrameDataLength(fd) - (IF total <= 4095 THEN 2 ELSE 6)

Input ==
  UNION {
    {[type |-> "SF", size |-> n, fd |-> fd, padding |-> p] :
       n \in {s \in SingleSizes : FitsSingle(s, fd)}, p \in PaddingBytes \cup {NoPadding}}
    \cup {[type |-> "FF", size |-> n, fd |-> fd, padding |-> p] :
       n \in {s \in MessageSizes : ~FitsSingle(s, fd)}, p \in PaddingBytes \cup {NoPadding}}
    \cup {[type |-> "CF", size |-> n, sn |-> sn, fd |-> fd, padding |-> p] :
       n \in {c \in ChunkSizes : c < FrameDataLength(fd)}, sn \in SequenceNumbers,
       p \in PaddingBytes \cup {NoPadding}}
    \cup {[type |-> "FC", status |-> s, bs |-> b, stmin |-> t, fd |-> fd, padding |-> p] :
       s \in 0..2, b \in BlockSizes, t \in STmins, p \in PaddingBytes \cup {NoPadding}}
    : fd \in BOOLEAN}

Encoded(i) ==
  CASE i.type = "SF" -> Frame(SingleFrameHeader(i.size, i.fd), i.size)
    [] i.type = "FF" -> Frame(FirstFrameHeader(i.size), FirstChunk(i.size, i.fd))
    [] i.type = "CF" -> Frame(ConsecutiveFrameHeader(i.sn), i.size)
    [] i.type = "FC" -> Frame(FlowControlHeader(i.status, i.bs, i.stmin), 0)

\* makeTxMsgWithAddr.
Padded(f, i) ==
  LET target == IF i.fd THEN nextFDTargetLength(Length(f)) ELSE 8
  IN IF i.padding # NoPadding /\ Length(f) < target
     THEN [f EXCEPT !.pad = target - Length(f), !.with = i.padding]
     ELSE f

\* NewFrame and fromCANFrame: the length becomes that of the DLC.
Carried(f) == [f EXCEPT !.fill = DLCToLength(LengthToDLC(Length(f))) - Length(f)]

-----------------------------------------------------------------------------
\* ParseFrame: the PDU, with the first index and the number of its data bytes.
ByteAt(f, k) ==
  LET h == Len(f.header) IN
  IF k <= h THEN f.header[k]
  ELSE IF k <= h + f.data THEN PayloadByte
  ELSE IF k <= h + f.data + f.pad THEN f.with
  ELSE 0

ParseError == [type |-> "error"]

ParseSingleFrame(f) ==
  LET short == ByteAt(f, 1) % 16
      start == IF short # 0 THEN 1 ELSE 2
      size  == IF short # 0 THEN short ELSE ByteAt(f, 2)
  IN IF short = 0 /\ Length(f) = 1 THEN [type |-> "SF", start |-> 1, count |-> 0]
     ELSE IF Length(f) - start < size THEN ParseError
     ELSE [type |-> "SF", start |-> start, count |-> size]

ParseFirstFrame(f) ==
  LET short == (ByteAt(f, 1) % 16) * 256 + ByteAt(f, 2)
      start == IF short # 0 THEN 2 ELSE 6
      long  == ((ByteAt(f, 3) * 256 + ByteAt(f, 4)) * 256 + ByteAt(f, 5)) * 256 + ByteAt(f, 6)
      total == IF short # 0 THEN short ELSE long
  IN IF \/ Length(f) < start
        \/ short = 0 /\ long <= 4095
        \/ total <= Length(f) - start
     THEN ParseError
     ELSE [type |-> "FF", total |-> total, start |-> start, count |-> Length(f) - start]

\* The time an STmin byte stands for, in tenths of a millisecond.
decodeSTmin(b) ==
  IF b <= 127 THEN b * 10
  ELSE IF b \in 241..249 THEN b - 240
  ELSE 127 * 10

ParseFlowControl(f) ==
  IF Length(f) < 3 \/ ByteAt(f, 1) % 16 > 2 THEN ParseError
  ELSE [type |-> "FC", status |-> ByteAt(f, 1) % 16, bs |-> ByteAt(f, 2),
        stmin |-> decodeSTmin(ByteAt(f, 3))]

ParseFrame(f) ==
  LET pciType == ByteAt(f, 1) \div 16 IN
  CASE Length(f) = 0 -> ParseError
    [] pciType = 0 -> ParseSingleFrame(f)
    [] pciType = 1 /\ Length(f) >= 2 -> ParseFirstFrame(f)
    [] pciType = 2 -> [type |-> "CF", sn |-> ByteAt(f, 1) % 16, start |-> 1, count |-> Length(f) - 1]
    [] pciType = 3 -> ParseFlowControl(f)
    [] OTHER -> ParseError

-----------------------------------------------------------------------------
VARIABLES
  input, \* what is sent
  stage, \* how far the frame has come
  frame, \* its bytes
  pdu    \* what the peer parsed

vars == <<input, stage, frame, pdu>>

Init ==
  /\ input \in Input
  /\ stage = "encode"
  /\ frame = Frame(<<>>, 0)
  /\ pdu = ParseError

Step(from, to, f) ==
  /\ stage = from /\ stage' = to
  /\ frame' = f
  /\ UNCHANGED <<input, pdu>>

Encode == Step("encode", "pad", Encoded(input))
Pad    == Step("pad", "send", Padded(frame, input))

\* A frame longer than its format allows is refused.
Transmit == Step("send", IF Length(frame) <= FrameDataLength(input.fd) THEN "parse" ELSE "refused",
                 Carried(frame))

Parse ==
  /\ stage = "parse" /\ stage' = "done"
  /\ pdu' = ParseFrame(frame)
  /\ UNCHANGED <<input, frame>>

Next == Encode \/ Pad \/ Transmit \/ Parse

Spec == Init /\ [][Next]_vars

-----------------------------------------------------------------------------
\* The data bytes of p start right behind the header of f.
DataInPlace(p, f) == p.start = Len(f.header)

\* "0x00-0x7F represent milliseconds and 0xF1-0xF9 represent 100-900 microseconds"
\* (framing.go), in tenths of a millisecond.
StandsFor(b, t) ==
  \/ b \in 0..127 /\ t = 10 * b
  \/ b \in 241..249 /\ t \in 1..9 /\ b = 240 + t

SeparationTimes == 0..1270
Separation(b) == CHOOSE t \in SeparationTimes : StandsFor(b, t)

\* What must arrive for input i: a single frame exactly; of the others, whose data
\* may be followed by fill the receiver cuts off, every payload byte in its place.
Arrives(i, f, p) ==
  /\ p.type = i.type
  /\ i.type = "SF" => DataInPlace(p, f) /\ p.count = i.size
  /\ i.type = "FF" => DataInPlace(p, f) /\ p.count = FirstChunk(i.size, i.fd) /\ p.total = i.size
  /\ i.type = "CF" => DataInPlace(p, f) /\ p.count >= i.size /\ p.sn = i.sn
  /\ i.type = "FC" => p.status = i.status /\ p.bs = i.bs /\ p.stmin = Separation(i.stmin)

PaddedEmpty(i) == i.type = "SF" /\ i.size = 0 /\ ~i.fd /\ i.padding # NoPadding

\* Whatever length, padding byte and frame format: the peer parses what was meant.
\* (But for an empty payload on padded classic CAN: ParseFrame takes the padding for a length.)
RoundTrip == stage = "done" /\ ~PaddedEmpty(input) => Arrives(input, frame, pdu)

\* Padding and DLC agree: a padded frame has a length a DLC stands for, so that the
\* link adds nothing to it, and a frame never grows beyond the next such length.
FillAgrees == stage = "done" =>
  /\ input.padding # NoPadding => frame.fill = 0
  /\ \A l \in (0..8) \cup {FDLengths[k] : k \in 1..7} :
       l >= Len(frame.header) + frame.data /\ (input.padding = NoPadding \/ l >= 8)
         => Length(frame) <= l

\* No frame the session builds is refused as too long by can.NewFrame.
NeverRefused == stage # "refused"
=============================================================================

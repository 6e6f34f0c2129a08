----------------------------- MODULE IsoTpSession -----------------------------
(***************************************************************************)
(* Two ISO-TP sessions (isotp.Session) facing each other over a CAN bus.   *)
(*                                                                         *)
(* Each session is one `run` goroutine that owns a transmit machine (tx)   *)
(* and a receive machine (rx), a forwarder that drains its frame queue     *)
(* (txChan) to the bus and one that fills its inbox from the bus.  Every   *)
(* case of run's select is one action here, the whole handler included.    *)
(*                                                                         *)
(* Data is abstract: a payload is a member of Msg with a Size in bytes, a  *)
(* frame names the message and the byte range it carries, and a reassembly *)
(* buffer is "the first len bytes of msg" or Mixed once its bytes stopped  *)
(* being a prefix of one message.  Time is abstract: a timer is armed or   *)
(* not, and an armed timer may fire (when it may is constant Patient).     *)
(***************************************************************************)
EXTENDS Integers, Sequences, FiniteSets

CONSTANTS
  Node, Peer,        \* the two sessions, and each one's counterpart
  Msg, Size, Source, \* payloads, their length in bytes, the node that sends it
  NoMsg, Mixed,      \* no payload; bytes that are no prefix of a payload
  FrameLen,          \* frameDataLength: 8 on classic CAN, 64 on CAN FD
  SeqMod,            \* modulus of the sequence number (16 in the code)
  Padded,            \* Config.PaddingByte is set
  BlockSize, MaxPayloadSize, MaxWaitFrames, ManualFlowControl, \* Config, by node
  TxDataCap, RxDataCap, ErrorCap, \* capacity of txDataChan, rxDataChan, errorChan
  TxCap,             \* capacity of the frame queue to the bus
  SubCap, InboxCap,  \* subscriber channel alone, and with rxMessages behind it
  Patient,           \* TRUE: N_Bs and N_Cr outlast everything still in flight
  CloseNodes,        \* nodes whose application may call Close
  TxIDs,             \* what SetTxAddress may select
  MaxLoss,           \* bound on frames the bus loses or refuses
  InjectFrames, MaxInject \* frames other bus participants send, and how many

Statuses == {"CTS", "WAIT", "OVFLW"}
IDs == {"base", "other"}

ASSUME NodeAssumption == Peer \in [Node -> Node] /\ \A n \in Node : Peer[Peer[n]] = n
ASSUME MsgAssumption  == /\ Size \in [Msg -> Nat] /\ Source \in [Msg -> Node]
                         /\ NoMsg \notin Msg /\ Mixed \notin Msg /\ NoMsg # Mixed
ASSUME FrameAssumption == FrameLen \in {8, 64} /\ SeqMod \in Nat /\ SeqMod > 1
                          /\ Padded \in BOOLEAN /\ Patient \in BOOLEAN
ASSUME ConfigAssumption == /\ BlockSize \in [Node -> 0..255]
                           /\ MaxPayloadSize \in [Node -> Nat]
                           /\ MaxWaitFrames \in [Node -> Int]
                           /\ ManualFlowControl \in [Node -> BOOLEAN]
ASSUME CapAssumption == /\ {TxDataCap, RxDataCap, ErrorCap, TxCap, SubCap, InboxCap} \subseteq Nat
                        /\ SubCap <= InboxCap /\ TxCap > 0
                        /\ MaxLoss \in Nat /\ MaxInject \in Nat
ASSUME EnvAssumption == CloseNodes \subseteq Node /\ TxIDs \subseteq IDs

-----------------------------------------------------------------------------
\* Header bytes of a single and of a first frame.
SfPci(size) == IF size > 7 THEN 2 ELSE 1
FfPci(size) == IF size > 4095 THEN 6 ELSE 2

FitsSingle(m) == Size[m] + SfPci(Size[m]) <= FrameLen
FirstChunk(m) == FrameLen - FfPci(Size[m])

\* Frames, as ParseFrame hands them to processRx.  id says whether the
\* arbitration ID is the one the peer's address accepts.  A first frame announces
\* more than it carries: ParseFrame refuses any other.

SingleFrame      == [type : {"SF"}, id : IDs, msg : Msg]
FirstFrame       == [type : {"FF"}, id : IDs, msg : {m \in Msg : ~FitsSingle(m)}]
ConsecutiveFrame == [type : {"CF"}, id : IDs, msg : Msg, sn : 0..(SeqMod - 1),
                     off : Nat, len : 0..(FrameLen - 1)]
FlowControlFrame == [type : {"FC"}, id : IDs, status : Statuses, bs : 0..255]
BadFrame         == [type : {"BAD"}, id : IDs]
Frame == SingleFrame \cup FirstFrame \cup ConsecutiveFrame \cup FlowControlFrame \cup BadFrame

ASSUME InjectAssumption == InjectFrames \subseteq FlowControlFrame \cup BadFrame

Min2(a, b) == IF a <= b THEN a ELSE b

\* Length on the bus of a frame of l bytes: padding to 8 or to the next CAN FD
\* size, and without padding the rounding of the DLC.
FDSizes == {8, 12, 16, 20, 24, 32, 48, 64}
nextFDTargetLength(l) == CHOOSE s \in FDSizes : s >= l /\ \A t \in FDSizes : t >= l => s <= t
WireLength(l) == IF l <= 8 /\ ~Padded THEN l ELSE nextFDTargetLength(l)

-----------------------------------------------------------------------------
VARIABLES
  tx,              \* transmit machine, with its N_Bs (timerFC) and STmin (timerST) timers
  remoteBlockSize, \* block size of the last CTS; stopSending does not reset it
  rx,              \* receive machine, with its N_Cr timer
  txDataChan,      \* payloads accepted by SendContext
  delivered,       \* history: everything ever put on rxDataChan
  unread,          \* length of rxDataChan: the last `unread` entries of delivered
  errorChan,       \* number of errors queued for the application
  txChan,          \* frames on their way to the bus
  inbox,           \* frames received, not yet processed
  txAddress,       \* which ID data frames carry
  status,          \* "open", "closing" (ctx cancelled), "closed" (Close returned)
  sent,            \* history: payloads in the order SendContext accepted them
  blamed,          \* history: messages some fireError was about
  lost, injected   \* how much of MaxLoss and MaxInject is used

txVars   == <<tx, remoteBlockSize>>
rxVars   == <<rx, delivered, unread>>
errVars  == <<errorChan, blamed>>
envVars  == <<lost, injected>>
appVars  == <<txDataChan, sent, txAddress, status>>
vars == <<txVars, rxVars, errVars, envVars, appVars, txChan, inbox>>

\* What stopSending and stopReceiving leave behind.
TxIdle == [state |-> "Idle", msg |-> NoMsg, off |-> 0, seq |-> 0, block |-> 0,
           wait |-> 0, timerFC |-> FALSE, timerST |-> FALSE]
RxIdle == [state |-> "Idle", msg |-> NoMsg, len |-> 0, frameLen |-> 0, seq |-> 0,
           block |-> 0, timerCF |-> FALSE]

Init ==
  /\ tx = [n \in Node |-> TxIdle]
  /\ remoteBlockSize = [n \in Node |-> 0]
  /\ rx = [n \in Node |-> RxIdle]
  /\ txDataChan = [n \in Node |-> <<>>]
  /\ delivered = [n \in Node |-> <<>>]
  /\ unread = [n \in Node |-> 0]
  /\ errorChan = [n \in Node |-> 0]
  /\ txChan = [n \in Node |-> <<>>]
  /\ inbox = [n \in Node |-> <<>>]
  /\ txAddress = [n \in Node |-> "base"]
  /\ status = [n \in Node |-> "open"]
  /\ sent = [n \in Node |-> <<>>]
  /\ blamed = {}
  /\ lost = 0 /\ injected = 0

Running(n) == status[n] # "closed"

\* fireError, k times, about the messages ms: errors beyond the capacity are dropped.
FireErrors(n, k, ms) ==
  /\ errorChan' = [errorChan EXCEPT ![n] = Min2(ErrorCap, @ + k)]
  /\ blamed' = blamed \cup (ms \cap Msg)

Queue(n, f) == txChan' = [txChan EXCEPT ![n] = Append(@, f)]

\* Mutant: the cancelled handler returns without stopSending.
SendDataAbandoned(n, f, next) ==
  \/ Len(txChan[n]) < TxCap /\ Queue(n, f) /\ tx' = [tx EXCEPT ![n] = next]
  \/ /\ status[n] = "closing"
     /\ tx' = [tx EXCEPT ![n] = [next EXCEPT !.timerFC = FALSE, !.timerST = FALSE]]
     /\ UNCHANGED txChan

\* sendMessage from the transmit machine: it blocks while the frame queue is
\* full; once the context is cancelled it may give up, and then sending stops.
SendData(n, f, next) ==
  \/ /\ Len(txChan[n]) < TxCap
     /\ Queue(n, f)
     /\ tx' = [tx EXCEPT ![n] = next]
  \/ /\ status[n] = "closing"
     /\ tx' = [tx EXCEPT ![n] = TxIdle]
     /\ UNCHANGED txChan

-----------------------------------------------------------------------------
\* The application.

SendContext(n, m) ==
  /\ Running(n)  \* a caller past the first check may still win the race with Close
  /\ Source[m] = n
  /\ \A i \in DOMAIN sent[n] : sent[n][i] # m  \* bound: each payload once
  /\ Size[m] <= MaxPayloadSize[n]
  /\ Len(txDataChan[n]) < TxDataCap
  /\ txDataChan' = [txDataChan EXCEPT ![n] = Append(@, m)]
  /\ sent' = [sent EXCEPT ![n] = Append(@, m)]
  /\ UNCHANGED <<txVars, rxVars, errVars, envVars, txAddress, status, txChan, inbox>>

SetTxAddress(n, id) ==
  /\ id # txAddress[n]
  /\ txAddress' = [txAddress EXCEPT ![n] = id]
  /\ UNCHANGED <<txVars, rxVars, errVars, envVars, txDataChan, sent, status, txChan, inbox>>

Receive(n) ==
  /\ unread[n] > 0
  /\ unread' = [unread EXCEPT ![n] = @ - 1]
  /\ UNCHANGED <<txVars, rx, delivered, errVars, envVars, appVars, txChan, inbox>>

ReadError(n) ==
  /\ errorChan[n] > 0
  /\ errorChan' = [errorChan EXCEPT ![n] = @ - 1]
  /\ UNCHANGED <<txVars, rxVars, blamed, envVars, appVars, txChan, inbox>>

\* Close cancels the context and unsubscribes ...
Close(n) ==
  /\ status[n] = "open"
  /\ status' = [status EXCEPT ![n] = "closing"]
  /\ UNCHANGED <<txVars, rxVars, errVars, envVars, txDataChan, sent, txAddress, txChan, inbox>>

\* ... and returns once the goroutines are gone; run stops its timers on the way.
FinishClose(n) ==
  /\ status[n] = "closing"
  /\ status' = [status EXCEPT ![n] = "closed"]
  /\ tx' = [tx EXCEPT ![n] = [@ EXCEPT !.timerFC = FALSE, !.timerST = FALSE]]
  /\ rx' = [rx EXCEPT ![n] = [@ EXCEPT !.timerCF = FALSE]]
  /\ txChan' = [txChan EXCEPT ![n] = <<>>]
  /\ inbox' = [inbox EXCEPT ![n] = <<>>]
  /\ UNCHANGED <<remoteBlockSize, delivered, unread, errVars, envVars, txDataChan, sent, txAddress>>

-----------------------------------------------------------------------------
\* The transmit machine.

\* initiateTx, payload short enough for one frame.
SendSingleFrame(n) ==
  /\ Running(n) /\ tx[n].state = "Idle" /\ txDataChan[n] # <<>>
  /\ LET m == Head(txDataChan[n]) IN
       /\ FitsSingle(m)
       /\ SendData(n, [type |-> "SF", id |-> txAddress[n], msg |-> m], TxIdle)
  /\ txDataChan' = [txDataChan EXCEPT ![n] = Tail(@)]
  /\ UNCHANGED <<remoteBlockSize, rxVars, errVars, envVars, sent, txAddress, status, inbox>>

\* initiateTx, segmented payload: first frame, then wait for flow control.
SendFirstFrame(n) ==
  /\ Running(n) /\ tx[n].state = "Idle" /\ txDataChan[n] # <<>>
  /\ LET m == Head(txDataChan[n]) IN
       /\ ~FitsSingle(m)
       /\ SendData(n, [type |-> "FF", id |-> txAddress[n], msg |-> m],
                   [tx[n] EXCEPT !.state = "WaitFC", !.msg = m, !.off = FirstChunk(m),
                                 !.seq = 1, !.timerFC = TRUE])
  /\ txDataChan' = [txDataChan EXCEPT ![n] = Tail(@)]
  /\ UNCHANGED <<remoteBlockSize, rxVars, errVars, envVars, sent, txAddress, status, inbox>>

\* Mutant: one frame more than the block.
BlockSentLate(n, block) == remoteBlockSize[n] > 0 /\ block > remoteBlockSize[n]

\* The block granted by the last CTS is used up.
BlockSent(n, block) == remoteBlockSize[n] > 0 /\ block >= remoteBlockSize[n]

\* Mutant: the sequence number starts again with every block.
AwaitFlowControlRestart(t) == [t EXCEPT !.state = "WaitFC", !.timerFC = TRUE, !.seq = 1]
\* Mutant: resetTxFCTimer forgotten after a block.
AwaitFlowControlUntimed(t) == [t EXCEPT !.state = "WaitFC"]

AwaitFlowControl(t) == [t EXCEPT !.state = "WaitFC", !.timerFC = TRUE]

\* State of the transmit machine once the consecutive frame ending at `end` is queued.
AfterConsecutiveFrame(n, end) ==
  LET next == [tx[n] EXCEPT !.off = end, !.seq = (@ + 1) % SeqMod, !.block = @ + 1,
                            !.timerST = FALSE]
  IN IF end = Size[tx[n].msg] THEN TxIdle
     ELSE IF BlockSent(n, next.block) THEN AwaitFlowControl(next)
     ELSE [next EXCEPT !.timerST = TRUE]

\* The STmin timer fires: handleTxTransmit sends the next consecutive frame.
STminFires(n) ==
  /\ Running(n) /\ tx[n].timerST
  /\ LET m   == tx[n].msg
         off == tx[n].off
     IN IF tx[n].state # "Transmit"
        THEN tx' = [tx EXCEPT ![n] = [@ EXCEPT !.timerST = FALSE]] /\ UNCHANGED txChan
        ELSE IF off >= Size[m]
        THEN tx' = [tx EXCEPT ![n] = TxIdle] /\ UNCHANGED txChan
        ELSE LET len == Min2(FrameLen - 1, Size[m] - off)
             IN SendData(n, [type |-> "CF", id |-> txAddress[n], msg |-> m,
                             sn |-> tx[n].seq, off |-> off, len |-> len],
                         AfterConsecutiveFrame(n, off + len))
  /\ UNCHANGED <<remoteBlockSize, rxVars, errVars, envVars, appVars, inbox>>

\* Nothing is in flight in either direction and the peer has no frame due.
Quiet(n) ==
  /\ \A k \in Node : txChan[k] = <<>> /\ inbox[k] = <<>>
  /\ tx[Peer[n]].state # "Transmit"

FlowControlTimeout(n) ==
  /\ Running(n) /\ tx[n].timerFC
  /\ Patient => Quiet(n)
  /\ FireErrors(n, 1, {tx[n].msg})
  /\ tx' = [tx EXCEPT ![n] = TxIdle]
  /\ UNCHANGED <<remoteBlockSize, rxVars, envVars, appVars, txChan, inbox>>

-----------------------------------------------------------------------------
\* processRx: one action per kind of frame at the head of the inbox.

NextFrame(n, type) ==
  /\ Running(n) /\ inbox[n] # <<>>
  /\ Head(inbox[n]).id = "base"
  /\ Head(inbox[n]).type = type
  /\ inbox' = [inbox EXCEPT ![n] = Tail(@)]

\* An ID the session's address does not accept.
RxForeign(n) ==
  /\ Running(n) /\ inbox[n] # <<>>
  /\ Head(inbox[n]).id # "base"
  /\ inbox' = [inbox EXCEPT ![n] = Tail(@)]
  /\ UNCHANGED <<txVars, rxVars, errVars, envVars, appVars, txChan>>

\* ParseFrame refuses the payload.
RxBad(n) ==
  /\ NextFrame(n, "BAD")
  /\ FireErrors(n, 1, {})
  /\ UNCHANGED <<txVars, rxVars, envVars, appVars, txChan>>

FlowControl(n, s) == NextFrame(n, "FC") /\ Head(inbox[n]).status = s

\* handleTxFlowControl outside WaitFC: late or unsolicited, ignored.
RxLateFlowControl(n) ==
  /\ NextFrame(n, "FC")
  /\ tx[n].state # "WaitFC"
  /\ UNCHANGED <<txVars, rxVars, errVars, envVars, appVars, txChan>>

RxContinueToSend(n) ==
  /\ FlowControl(n, "CTS")
  /\ tx[n].state = "WaitFC"
  /\ remoteBlockSize' = [remoteBlockSize EXCEPT ![n] = Head(inbox[n]).bs]
  /\ tx' = [tx EXCEPT ![n] = [@ EXCEPT !.state = "Transmit", !.block = 0, !.wait = 0,
                                       !.timerFC = FALSE, !.timerST = TRUE]]
  /\ UNCHANGED <<rxVars, errVars, envVars, appVars, txChan>>

RxWait(n) ==
  /\ FlowControl(n, "WAIT")
  /\ tx[n].state = "WaitFC"
  /\ IF MaxWaitFrames[n] >= 0 /\ tx[n].wait + 1 > MaxWaitFrames[n]
     THEN /\ FireErrors(n, 1, {tx[n].msg})
          /\ tx' = [tx EXCEPT ![n] = TxIdle]
     ELSE /\ tx' = [tx EXCEPT ![n] = [tx[n] EXCEPT !.wait = @ + 1, !.timerFC = TRUE]]
          /\ UNCHANGED errVars
  /\ UNCHANGED <<remoteBlockSize, rxVars, envVars, appVars, txChan>>

RxOverflow(n) ==
  /\ FlowControl(n, "OVFLW")
  /\ tx[n].state = "WaitFC"
  /\ FireErrors(n, 1, {tx[n].msg})
  /\ tx' = [tx EXCEPT ![n] = TxIdle]
  /\ UNCHANGED <<remoteBlockSize, rxVars, envVars, appVars, txChan>>

\* Mutant: the queue's capacity is not looked at.
DeliverUnchecked(n, d, k, ms) ==
  /\ delivered' = [delivered EXCEPT ![n] = Append(@, d)]
  /\ unread' = [unread EXCEPT ![n] = @ + 1]
  /\ FireErrors(n, k, ms)

\* Hand a payload to the application without blocking; k errors about ms were
\* already fired, one more if rxDataChan is full.
Deliver(n, d, k, ms) ==
  IF unread[n] < RxDataCap
  THEN /\ delivered' = [delivered EXCEPT ![n] = Append(@, d)]
       /\ unread' = [unread EXCEPT ![n] = @ + 1]
       /\ FireErrors(n, k, ms)
  ELSE /\ FireErrors(n, k + 1, ms \cup {d.msg})
       /\ UNCHANGED <<delivered, unread>>

\* Errors a new message causes by interrupting a reception.
Interrupted(n) == IF rx[n].state # "Idle" THEN 1 ELSE 0

RxSingleFrame(n) ==
  /\ NextFrame(n, "SF")
  /\ LET m == Head(inbox[n]).msg
     IN Deliver(n, [msg |-> m, len |-> Size[m]], Interrupted(n), {rx[n].msg})
  /\ rx' = [rx EXCEPT ![n] = RxIdle]
  /\ UNCHANGED <<txVars, envVars, appVars, txChan>>

\* sendFlowControl from the receive machine; it uses the base address.
SendFlowControl(n, next) ==
  \/ /\ ManualFlowControl[n]
     /\ rx' = [rx EXCEPT ![n] = next]
     /\ UNCHANGED txChan
  \/ /\ ~ManualFlowControl[n]
     /\ Len(txChan[n]) < TxCap
     /\ Queue(n, [type |-> "FC", id |-> "base", status |-> "CTS", bs |-> BlockSize[n]])
     /\ rx' = [rx EXCEPT ![n] = next]
  \/ /\ ~ManualFlowControl[n]
     /\ status[n] = "closing"
     /\ rx' = [rx EXCEPT ![n] = RxIdle]
     /\ UNCHANGED txChan

\* A first frame announcing more than MaxPayloadSize is refused, with no answer.
RxFirstFrameTooLarge(n) ==
  /\ NextFrame(n, "FF")
  /\ LET m == Head(inbox[n]).msg IN
       /\ Size[m] > MaxPayloadSize[n]
       /\ FireErrors(n, Interrupted(n) + 1, {rx[n].msg, m})
  /\ rx' = [rx EXCEPT ![n] = RxIdle]
  /\ UNCHANGED <<txVars, delivered, unread, envVars, appVars, txChan>>

\* Mutant: the limit is not checked.
AcceptsAnySize(n, m) == TRUE

AcceptsSize(n, m) == Size[m] <= MaxPayloadSize[n]

\* Mutant: the bytes of the interrupted reception stay in the buffer.
ReceptionKept(n, m) ==
  [RxIdle EXCEPT !.state = "WaitCF", !.msg = IF rx[n].len = 0 THEN m ELSE Mixed,
                 !.len = rx[n].len + FirstChunk(m), !.frameLen = Size[m],
                 !.seq = 1, !.timerCF = TRUE]

\* Reception of m, its first frame consumed.
Reception(n, m) ==
  [RxIdle EXCEPT !.state = "WaitCF", !.msg = m, !.len = FirstChunk(m),
                 !.frameLen = Size[m], !.seq = 1, !.timerCF = TRUE]

RxFirstFrame(n) ==
  /\ NextFrame(n, "FF")
  /\ LET m == Head(inbox[n]).msg IN
       /\ AcceptsSize(n, m)
       /\ FireErrors(n, Interrupted(n), {rx[n].msg})
       /\ SendFlowControl(n, Reception(n, m))
  /\ UNCHANGED <<txVars, delivered, unread, envVars, appVars>>

\* handleRxConsecutiveFrame while nothing is being received.
RxStrayConsecutiveFrame(n) ==
  /\ NextFrame(n, "CF")
  /\ rx[n].state # "WaitCF"
  /\ UNCHANGED <<txVars, rxVars, errVars, envVars, appVars, txChan>>

RxWrongSequence(n) ==
  /\ NextFrame(n, "CF")
  /\ rx[n].state = "WaitCF"
  /\ Head(inbox[n]).sn # rx[n].seq
  /\ FireErrors(n, 1, {rx[n].msg})
  /\ rx' = [rx EXCEPT ![n] = RxIdle]
  /\ UNCHANGED <<txVars, delivered, unread, envVars, appVars, txChan>>

\* Mutant: padding is not cut off.
TakenUncut(n, f) == WireLength(f.len + 1) - 1

\* Bytes taken from f: those that pad it on the bus included, cut at the announced length.
Taken(n, f) == Min2(WireLength(f.len + 1) - 1, rx[n].frameLen - rx[n].len)

\* Mutant: the expected sequence number does not wrap.
AppendedNoWrap(n, f) ==
  LET r     == rx[n]
      whole == f.msg = r.msg /\ f.off = r.len /\ Taken(n, f) <= f.len
  IN [r EXCEPT !.msg = IF whole THEN @ ELSE Mixed, !.len = @ + Taken(n, f),
               !.seq = @ + 1, !.timerCF = TRUE]

\* The receive machine of n once the bytes of f are in its buffer.
Appended(n, f) ==
  LET r     == rx[n]
      taken == Taken(n, f)
      whole == f.msg = r.msg /\ f.off = r.len /\ taken <= f.len
  IN [r EXCEPT !.msg = IF whole THEN @ ELSE Mixed, !.len = @ + taken,
               !.seq = (@ + 1) % SeqMod, !.timerCF = TRUE]

InSequence(n) ==
  /\ NextFrame(n, "CF")
  /\ rx[n].state = "WaitCF"
  /\ Head(inbox[n]).sn = rx[n].seq

RxLastConsecutiveFrame(n) ==
  /\ InSequence(n)
  /\ LET r == Appended(n, Head(inbox[n])) IN
       /\ r.len >= r.frameLen
       /\ Deliver(n, [msg |-> r.msg, len |-> r.len], 0, {})
  /\ rx' = [rx EXCEPT ![n] = RxIdle]
  /\ UNCHANGED <<txVars, envVars, appVars, txChan>>

\* Mutant: flow control is sent one frame late.
BlockReceivedLate(n, block) == BlockSize[n] > 0 /\ block > BlockSize[n]

BlockReceived(n, block) == BlockSize[n] > 0 /\ block >= BlockSize[n]

RxConsecutiveFrame(n) ==
  /\ InSequence(n)
  /\ LET r     == Appended(n, Head(inbox[n]))
         block == r.block + 1
     IN /\ r.len < r.frameLen
        /\ IF BlockReceived(n, block)
           THEN SendFlowControl(n, [r EXCEPT !.block = 0])
           ELSE /\ rx' = [rx EXCEPT ![n] = [r EXCEPT !.block = block]]
                /\ UNCHANGED txChan
  /\ UNCHANGED <<txVars, delivered, unread, errVars, envVars, appVars>>

ConsecutiveFrameTimeout(n) ==
  /\ Running(n) /\ rx[n].timerCF
  /\ Patient => Quiet(n)
  /\ FireErrors(n, 1, {rx[n].msg})
  /\ rx' = [rx EXCEPT ![n] = RxIdle]
  /\ UNCHANGED <<txVars, delivered, unread, envVars, appVars, txChan, inbox>>

-----------------------------------------------------------------------------
\* The forwarders and the bus between them.

\* Take the next frame from n's queue; a cancelled session sends no more.
TakeFrame(n) ==
  /\ status[n] = "open" /\ txChan[n] # <<>>
  /\ txChan' = [txChan EXCEPT ![n] = Tail(@)]

\* Mutant: a frame that was sent is sent again.
TransferAgain(n) ==
  /\ status[n] = "open" /\ txChan[n] # <<>> /\ Len(inbox[Peer[n]]) < InboxCap
  /\ inbox' = [inbox EXCEPT ![Peer[n]] = Append(@, Head(txChan[n]))]
  /\ UNCHANGED <<txVars, rxVars, errVars, envVars, appVars, txChan>>

\* The frame reaches the peer's inbox, if the peer is still subscribed.
Transfer(n) ==
  LET p == Peer[n] IN
  /\ TakeFrame(n)
  /\ status[p] = "open" => Len(inbox[p]) < InboxCap
  /\ inbox' = IF status[p] = "open"
              THEN [inbox EXCEPT ![p] = Append(@, Head(txChan[n]))] ELSE inbox
  /\ UNCHANGED <<txVars, rxVars, errVars, envVars, appVars>>

\* The subscriber channel is full: dispatch drops the frame and counts it.
DropAtSubscriber(n) ==
  /\ TakeFrame(n)
  /\ lost < MaxLoss
  /\ status[Peer[n]] = "open" /\ Len(inbox[Peer[n]]) >= SubCap
  /\ lost' = lost + 1
  /\ UNCHANGED <<txVars, rxVars, errVars, injected, appVars, inbox>>

\* The frame is lost on the wire ...
Lose(n) ==
  /\ TakeFrame(n)
  /\ lost < MaxLoss
  /\ lost' = lost + 1
  /\ UNCHANGED <<txVars, rxVars, errVars, injected, appVars, inbox>>

\* ... or bus.Send fails, which the forwarder reports and forgets.
SendFails(n) ==
  /\ TakeFrame(n)
  /\ lost < MaxLoss
  /\ lost' = lost + 1
  /\ FireErrors(n, 1, {})
  /\ UNCHANGED <<txVars, rxVars, injected, appVars, inbox>>

\* Another participant, or the application of a manually flow-controlled peer,
\* puts a frame on the bus.
Inject(n, f) ==
  /\ injected < MaxInject
  /\ status[n] = "open" /\ Len(inbox[n]) < InboxCap
  /\ injected' = injected + 1
  /\ inbox' = [inbox EXCEPT ![n] = Append(@, f)]
  /\ UNCHANGED <<txVars, rxVars, errVars, lost, appVars, txChan>>

-----------------------------------------------------------------------------
App(n) ==
  \/ \E m \in Msg : SendContext(n, m)
  \/ \E id \in TxIDs : SetTxAddress(n, id)
  \/ Receive(n)
  \/ ReadError(n)
  \/ n \in CloseNodes /\ Close(n)

ProcessRx(n) ==
  \/ RxForeign(n) \/ RxBad(n)
  \/ RxLateFlowControl(n) \/ RxContinueToSend(n) \/ RxWait(n) \/ RxOverflow(n)
  \/ RxSingleFrame(n)
  \/ RxFirstFrameTooLarge(n) \/ RxFirstFrame(n)
  \/ RxStrayConsecutiveFrame(n) \/ RxWrongSequence(n)
  \/ RxLastConsecutiveFrame(n) \/ RxConsecutiveFrame(n)

InitiateTx(n) == SendSingleFrame(n) \/ SendFirstFrame(n)
Timeouts(n)   == FlowControlTimeout(n) \/ ConsecutiveFrameTimeout(n)

Run(n) == InitiateTx(n) \/ STminFires(n) \/ ProcessRx(n) \/ Timeouts(n)

Bus(n) ==
  \/ Transfer(n) \/ DropAtSubscriber(n) \/ Lose(n) \/ SendFails(n)
  \/ \E f \in InjectFrames : Inject(n, f)

Next == \E n \in Node : App(n) \/ Run(n) \/ FinishClose(n) \/ Bus(n)

Spec == Init /\ [][Next]_vars
-----------------------------------------------------------------------------
\* Fairness: every goroutine keeps running, select starves no ready case, an
\* armed timer fires unless it is stopped, and the bus keeps taking frames.
Fairness == \A n \in Node :
  /\ WF_vars(InitiateTx(n)) /\ WF_vars(STminFires(n)) /\ WF_vars(ProcessRx(n))
  /\ WF_vars(Timeouts(n)) /\ WF_vars(Transfer(n)) /\ WF_vars(Receive(n))

FairSpec == Spec /\ Fairness

-----------------------------------------------------------------------------
TxMachine == [state : {"Idle", "WaitFC", "Transmit"}, msg : Msg \cup {NoMsg}, off : Nat,
              seq : 0..(SeqMod - 1), block : Nat, wait : Nat,
              timerFC : BOOLEAN, timerST : BOOLEAN]
RxMachine == [state : {"Idle", "WaitCF"}, msg : Msg \cup {NoMsg, Mixed}, len : Nat,
              frameLen : Nat, seq : 0..(SeqMod - 1), block : Nat, timerCF : BOOLEAN]
Payload == [msg : Msg \cup {Mixed}, len : Nat]

\* Types of the variables, with the bounds of the non-blocking channels.
TypeOK ==
  /\ tx \in [Node -> TxMachine]
  /\ remoteBlockSize \in [Node -> 0..255]
  /\ rx \in [Node -> RxMachine]
  /\ txDataChan \in [Node -> Seq(Msg)] /\ sent \in [Node -> Seq(Msg)]
  /\ delivered \in [Node -> Seq(Payload)]
  /\ unread \in [Node -> 0..RxDataCap]
  /\ errorChan \in [Node -> 0..ErrorCap]
  /\ txChan \in [Node -> Seq(Frame)] /\ inbox \in [Node -> Seq(Frame)]
  /\ txAddress \in [Node -> IDs]
  /\ status \in [Node -> {"open", "closing", "closed"}]
  /\ blamed \subseteq Msg
  /\ lost \in Nat /\ injected \in Nat

\* While run is alive, exactly the timer of the current state is armed: N_Bs in
\* WaitFC, STmin in Transmit, N_Cr in WaitCF.  A state without its timer would
\* wait for ever; a timer without its state would abort or advance a transfer
\* that is not there.  After Close no timer is armed.
TimerDiscipline == \A n \in Node :
  /\ tx[n].timerFC <=> (Running(n) /\ tx[n].state = "WaitFC")
  /\ tx[n].timerST <=> (Running(n) /\ tx[n].state = "Transmit")
  /\ rx[n].timerCF <=> (Running(n) /\ rx[n].state = "WaitCF")

\* A transfer in progress always has bytes left to send (handleTxTransmit's
\* empty-buffer branch is never taken), and its sequence number is the number of
\* frames sent so far: what the receiver's check relies on.
SenderProgress == \A n \in Node : LET t == tx[n] IN
  t.state # "Idle" =>
    /\ t.msg \in Msg /\ t.off < Size[t.msg]
    /\ \E k \in 0..Size[t.msg] :
         t.off = FirstChunk(t.msg) + k * (FrameLen - 1) /\ t.seq = (k + 1) % SeqMod

\* A reassembly in progress is incomplete, and never larger than MaxPayloadSize:
\* the limit that keeps a forged length from an unbounded allocation.
ReassemblyBounded == \A n \in Node :
  rx[n].state = "WaitCF" =>
    rx[n].len < rx[n].frameLen /\ rx[n].frameLen <= MaxPayloadSize[n]

\* A bus that loses nothing, and sessions whose data frames always carry the ID their
\* peer accepts.
Lossless == MaxLoss = 0 /\ TxIDs = {}

\* What the application receives is a payload the peer sent, whole and unmixed.
IntactDelivery == \A n \in Node : \A i \in DOMAIN delivered[n] :
  LET d == delivered[n][i] IN
    d.msg \in Msg /\ Source[d.msg] = Peer[n] /\ d.len = Size[d.msg]

\* Outcomes of payload m.
Delivered(m) == \E i \in DOMAIN delivered[Peer[Source[m]]] :
                  delivered[Peer[Source[m]]][i] = [msg |-> m, len |-> Size[m]]
Sent(m) == \E i \in DOMAIN sent[Source[m]] : sent[Source[m]][i] = m

\* The sender stays within the block the receiver granted: the consecutive frames
\* under way and those already counted never exceed the receiver's BlockSize.
ConsecutiveFramesTo(n) ==
  Cardinality({i \in DOMAIN txChan[Peer[n]] : txChan[Peer[n]][i].type = "CF"})
  + Cardinality({i \in DOMAIN inbox[n] : inbox[n][i].type = "CF"})

FlowControlCredit == \A n \in Node :
  BlockSize[n] > 0 /\ rx[n].state = "WaitCF" /\ tx[Peer[n]].msg = rx[n].msg =>
    rx[n].block + ConsecutiveFramesTo(n) <= BlockSize[n]

\* Over a bus that loses nothing the two ends never wait for each other: with no
\* frame under way, a sender in WaitFC does not face a receiver in WaitCF.
NoMutualWait == \A n \in Node :
  (\A k \in Node : txChan[k] = <<>> /\ inbox[k] = <<>>) =>
    ~(tx[n].state = "WaitFC" /\ rx[Peer[n]].state = "WaitCF")

\* Every transfer ends: whatever the bus loses, the sender becomes Idle again and
\* takes the next payload.
SenderReturns == \A n \in Node : tx[n].state # "Idle" ~> tx[n].state = "Idle"

\* Over a bus that loses nothing every accepted payload is delivered.
EventuallyDelivered == \A m \in Msg : Sent(m) ~> Delivered(m)
=============================================================================

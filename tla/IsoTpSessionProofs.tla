--------------------------- MODULE IsoTpSessionProofs ---------------------------
(***************************************************************************)
(* Proofs about IsoTpSession, for any payloads, configuration and queue    *)
(* sizes.                                                                  *)
(*                                                                         *)
(* First, one session at a time: its types, its timers, the bound of a     *)
(* reassembly, whatever is lost and whenever.  Then a transfer as a whole: *)
(* where its sender is, which frames of it are under way and where its     *)
(* receiver is.  SenderProgress holds of every session.  IntactDelivery is *)
(* proved for a bus that loses and refuses nothing and for sessions that   *)
(* keep their address: past SeqMod lost frames the sequence number comes   *)
(* round again, and a payload can be assembled from two.                   *)
(***************************************************************************)
EXTENDS IsoTpSession, TLAPS

USE DEF Running

\* What is true of one transmit machine, and of one receive machine.
TxGood(t, run) ==
  /\ t \in TxMachine
  /\ t.timerFC <=> (run /\ t.state = "WaitFC")
  /\ t.timerST <=> (run /\ t.state = "Transmit")
  /\ t.state # "Idle" => t.msg \in Msg /\ t.off < Size[t.msg]

RxGood(r, run, max) ==
  /\ r \in RxMachine
  /\ r.timerCF <=> (run /\ r.state = "WaitCF")
  /\ r.state = "WaitCF" => r.len < r.frameLen /\ r.frameLen <= max

\* The inductive invariant.
IInv ==
  /\ TypeOK
  /\ \A n \in Node : TxGood(tx[n], Running(n))
  /\ \A n \in Node : RxGood(rx[n], Running(n), MaxPayloadSize[n])

\* Constants, one fact each.
LEMMA Caps ==
  /\ TxDataCap \in Nat /\ RxDataCap \in Nat /\ ErrorCap \in Nat
  /\ TxCap \in Nat /\ SubCap \in Nat /\ InboxCap \in Nat
BY CapAssumption

LEMMA FirstChunkNat == ASSUME NEW m \in Msg PROVE FirstChunk(m) \in Nat
BY FrameAssumption, MsgAssumption DEF FirstChunk, FfPci

\* A segmented payload is longer than its first frame carries.
LEMMA FirstChunkShort ==
  ASSUME NEW m \in Msg, ~FitsSingle(m) PROVE FirstChunk(m) < Size[m]
BY FrameAssumption, MsgAssumption DEF FirstChunk, FfPci, FitsSingle, SfPci

LEMMA IdleTx == ASSUME NEW run \in BOOLEAN PROVE TxGood(TxIdle, run)
<1>1. 0 \in 0..(SeqMod - 1)
  BY FrameAssumption
<1> QED BY <1>1 DEF TxGood, TxIdle, TxMachine

LEMMA IdleRx == ASSUME NEW run \in BOOLEAN, NEW max \in Nat PROVE RxGood(RxIdle, run, max)
<1>1. 0 \in 0..(SeqMod - 1)
  BY FrameAssumption
<1> QED BY <1>1 DEF RxGood, RxIdle, RxMachine

LEMMA NextSeq == ASSUME NEW s \in Nat PROVE (s + 1) % SeqMod \in 0..(SeqMod - 1)
BY FrameAssumption

LEMMA WireLengthNat ==
  ASSUME NEW l \in 1..FrameLen PROVE WireLength(l) \in Nat /\ WireLength(l) >= 1
<1>1. l \in Nat /\ l >= 1 /\ l <= 64
  BY FrameAssumption
<1>2. \E s \in FDSizes : s >= l /\ \A t \in FDSizes : t >= l => s <= t
  BY <1>1 DEF FDSizes
<1>3. nextFDTargetLength(l) \in FDSizes /\ nextFDTargetLength(l) >= l
  BY <1>2 DEF nextFDTargetLength
<1> QED BY <1>1, <1>3 DEF WireLength, FDSizes

\* One machine replaced by a good one, while no session changes its status.
LEMMA TxUpdate ==
  ASSUME IInv, status' = status, NEW n \in Node, NEW t, TxGood(t, Running(n)),
         tx' = [tx EXCEPT ![n] = t]
  PROVE  /\ tx' \in [Node -> TxMachine]
         /\ \A k \in Node : TxGood(tx'[k], Running(k)')
BY DEF IInv, TypeOK, TxGood

LEMMA RxUpdate ==
  ASSUME IInv, status' = status, NEW n \in Node, NEW r, RxGood(r, Running(n), MaxPayloadSize[n]),
         rx' = [rx EXCEPT ![n] = r]
  PROVE  /\ rx' \in [Node -> RxMachine]
         /\ \A k \in Node : RxGood(rx'[k], Running(k)', MaxPayloadSize[k])
BY DEF IInv, TypeOK, RxGood

LEMMA SameMachines ==
  ASSUME IInv, status' = status
  PROVE  /\ tx' = tx => tx' \in [Node -> TxMachine] /\ \A k \in Node : TxGood(tx'[k], Running(k)')
         /\ rx' = rx => rx' \in [Node -> RxMachine]
                        /\ \A k \in Node : RxGood(rx'[k], Running(k)', MaxPayloadSize[k])
BY DEF IInv, TypeOK

\* The rest of TypeOK: what is neither of the two machines.
Rest ==
  /\ remoteBlockSize \in [Node -> 0..255]
  /\ txDataChan \in [Node -> Seq(Msg)] /\ sent \in [Node -> Seq(Msg)]
  /\ delivered \in [Node -> Seq(Payload)]
  /\ unread \in [Node -> 0..RxDataCap]
  /\ errorChan \in [Node -> 0..ErrorCap]
  /\ txChan \in [Node -> Seq(Frame)] /\ inbox \in [Node -> Seq(Frame)]
  /\ txAddress \in [Node -> IDs]
  /\ status \in [Node -> {"open", "closing", "closed"}]
  /\ blamed \subseteq Msg
  /\ lost \in Nat /\ injected \in Nat

LEMMA Parts ==
  ASSUME Rest', tx' \in [Node -> TxMachine], rx' \in [Node -> RxMachine],
         \A k \in Node : TxGood(tx'[k], Running(k)'),
         \A k \in Node : RxGood(rx'[k], Running(k)', MaxPayloadSize[k])
  PROVE  IInv'
BY DEF IInv, TypeOK, Rest

LEMMA RestHolds == ASSUME IInv PROVE Rest
BY DEF IInv, TypeOK, Rest

LEMMA ErrorsTyped ==
  ASSUME Rest, NEW n \in Node, NEW k \in Nat, NEW ms, FireErrors(n, k, ms)
  PROVE  errorChan' \in [Node -> 0..ErrorCap] /\ blamed' \subseteq Msg
BY Caps DEF Rest, FireErrors, Min2

LEMMA QueueTyped ==
  ASSUME Rest, NEW n \in Node, NEW f \in Frame, Queue(n, f)
  PROVE  txChan' \in [Node -> Seq(Frame)]
BY DEF Rest, Queue

LEMMA HeadTyped ==
  ASSUME Rest, NEW n \in Node, inbox[n] # <<>>
  PROVE  Head(inbox[n]) \in Frame /\ Tail(inbox[n]) \in Seq(Frame)
BY DEF Rest

LEMMA FrameTyped == ASSUME Rest, NEW n \in Node, NEW type, NextFrame(n, type)
  PROVE /\ inbox' \in [Node -> Seq(Frame)]
        /\ Head(inbox[n]) \in Frame
        /\ Head(inbox[n]).type = type
        /\ Running(n)
<1>1. inbox[n] # <<>> /\ inbox' = [inbox EXCEPT ![n] = Tail(@)]
  BY DEF NextFrame
<1>2. Head(inbox[n]) \in Frame /\ Tail(inbox[n]) \in Seq(Frame)
  BY <1>1, HeadTyped
<1> QED BY <1>1, <1>2 DEF Rest, NextFrame

LEMMA Kinds ==
  ASSUME NEW f \in Frame
  PROVE /\ f.type \in {"SF", "FF"} => f.msg \in Msg
        /\ f.type = "FF" => ~FitsSingle(f.msg)
        /\ f.type = "CF" => /\ f.msg \in Msg /\ f.len \in 0..(FrameLen - 1)
                            /\ f.off \in Nat /\ f.sn \in 0..(SeqMod - 1)
        /\ f.type = "FC" => f.status \in Statuses /\ f.bs \in 0..255
BY DEF Frame, SingleFrame, FirstFrame, ConsecutiveFrame, FlowControlFrame, BadFrame


LEMMA SendDataTyped ==
  ASSUME IInv, status' = status, NEW n \in Node, NEW f \in Frame, NEW next,
         TxGood(next, Running(n)), SendData(n, f, next)
  PROVE  /\ txChan' \in [Node -> Seq(Frame)]
         /\ tx' \in [Node -> TxMachine] /\ \A k \in Node : TxGood(tx'[k], Running(k)')
<1>1. CASE Queue(n, f) /\ tx' = [tx EXCEPT ![n] = next]
  BY <1>1, QueueTyped, RestHolds, TxUpdate
<1>2. CASE tx' = [tx EXCEPT ![n] = TxIdle] /\ txChan' = txChan
  <2>1. TxGood(TxIdle, Running(n))
    BY IdleTx
  <2> QED BY <1>2, <2>1, TxUpdate DEF IInv, TypeOK
<1> QED BY <1>1, <1>2 DEF SendData

LEMMA SendFlowControlTyped ==
  ASSUME IInv, status' = status, NEW n \in Node, NEW next,
         RxGood(next, Running(n), MaxPayloadSize[n]), SendFlowControl(n, next)
  PROVE  /\ txChan' \in [Node -> Seq(Frame)]
         /\ rx' \in [Node -> RxMachine]
         /\ \A k \in Node : RxGood(rx'[k], Running(k)', MaxPayloadSize[k])
<1> DEFINE fc == [type |-> "FC", id |-> "base", status |-> "CTS", bs |-> BlockSize[n]]
<1>1. CASE rx' = [rx EXCEPT ![n] = next] /\ txChan' = txChan
  BY <1>1, RxUpdate DEF IInv, TypeOK
<1>2. CASE Queue(n, fc) /\ rx' = [rx EXCEPT ![n] = next]
  <2>1. fc \in Frame
    BY ConfigAssumption DEF Frame, FlowControlFrame, IDs, Statuses
  <2> HIDE DEF fc
  <2> QED BY <1>2, <2>1, RxUpdate, QueueTyped, RestHolds
<1>3. CASE rx' = [rx EXCEPT ![n] = RxIdle] /\ txChan' = txChan
  <2>1. RxGood(RxIdle, Running(n), MaxPayloadSize[n])
    BY IdleRx, ConfigAssumption
  <2> QED BY <1>3, <2>1, RxUpdate DEF IInv, TypeOK
<1> QED BY <1>1, <1>2, <1>3 DEF SendFlowControl

\* stopSending and stopReceiving leave good machines.
LEMMA StopSending ==
  ASSUME IInv, status' = status, NEW n \in Node, tx' = [tx EXCEPT ![n] = TxIdle]
  PROVE  tx' \in [Node -> TxMachine] /\ \A k \in Node : TxGood(tx'[k], Running(k)')
<1>1. TxGood(TxIdle, Running(n))
  BY IdleTx
<1> QED BY <1>1, TxUpdate

LEMMA StopReceiving ==
  ASSUME IInv, status' = status, NEW n \in Node, rx' = [rx EXCEPT ![n] = RxIdle]
  PROVE  /\ rx' \in [Node -> RxMachine]
         /\ \A k \in Node : RxGood(rx'[k], Running(k)', MaxPayloadSize[k])
<1>1. RxGood(RxIdle, Running(n), MaxPayloadSize[n])
  BY IdleRx, ConfigAssumption
<1> QED BY <1>1, RxUpdate

LEMMA InitIInv == ASSUME Init PROVE IInv
<1>1. ASSUME NEW n \in Node
      PROVE TxGood(TxIdle, TRUE) /\ RxGood(RxIdle, TRUE, MaxPayloadSize[n])
  BY IdleTx, IdleRx, ConfigAssumption
<1>2. TypeOK
  BY <1>1, Caps DEF Init, TypeOK, IDs, TxGood, RxGood
<1>3. \A n \in Node : Running(n)
  BY DEF Init
<1> QED BY <1>1, <1>2, <1>3 DEF Init, IInv

\* The application's actions.
LEMMA AppStep == ASSUME IInv, NEW n \in Node, App(n) PROVE IInv'
<1>1. ASSUME NEW m \in Msg, SendContext(n, m) PROVE IInv'
  <2>1. Rest'
    <3>1. Rest
      BY RestHolds
    <3>2. txDataChan' \in [Node -> Seq(Msg)] /\ sent' \in [Node -> Seq(Msg)]
      BY <1>1, <3>1 DEF SendContext, Rest
    <3>3. UNCHANGED <<txVars, rxVars, errVars, envVars, txAddress, status, txChan, inbox>>
      BY <1>1 DEF SendContext
    <3> QED BY <3>1, <3>2, <3>3 DEF Rest, txVars, rxVars, errVars, envVars
  <2> QED BY <1>1, <2>1, SameMachines, Parts DEF SendContext, txVars, rxVars
<1>2. ASSUME NEW id \in TxIDs, SetTxAddress(n, id) PROVE IInv'
  <2>1. Rest'
    BY <1>2, RestHolds, EnvAssumption DEF SetTxAddress, txVars, rxVars, errVars, envVars, Rest
  <2> QED BY <1>2, <2>1, SameMachines, Parts DEF SetTxAddress, txVars, rxVars
<1>3. ASSUME Receive(n) PROVE IInv'
  <2>a. unread' \in [Node -> 0..RxDataCap]
    <3>1. unread[n] - 1 \in 0..RxDataCap
      BY <1>3, RestHolds, Caps DEF Receive, Rest
    <3> QED BY <1>3, <3>1, RestHolds DEF Receive, Rest
  <2>1. Rest'
    BY <1>3, <2>a, RestHolds DEF Receive, txVars, appVars, errVars, envVars, Rest
  <2> QED BY <1>3, <2>1, SameMachines, Parts DEF Receive, txVars, appVars
<1>4. ASSUME ReadError(n) PROVE IInv'
  <2>a. errorChan' \in [Node -> 0..ErrorCap]
    <3>1. errorChan[n] - 1 \in 0..ErrorCap
      BY <1>4, RestHolds, Caps DEF ReadError, Rest
    <3> QED BY <1>4, <3>1, RestHolds DEF ReadError, Rest
  <2>1. Rest'
    BY <1>4, <2>a, RestHolds DEF ReadError, txVars, rxVars, appVars, envVars, Rest
  <2> QED BY <1>4, <2>1, SameMachines, Parts DEF ReadError, txVars, rxVars, appVars
<1>5. ASSUME Close(n) PROVE IInv'
  <2>1. Rest'
    BY <1>5, RestHolds DEF Close, txVars, rxVars, errVars, envVars, Rest
  <2>2. \A k \in Node : Running(k)' <=> Running(k)
    BY <1>5, RestHolds DEF Close, Rest
  <2>3. tx' = tx /\ rx' = rx
    BY <1>5 DEF Close, txVars, rxVars
  <2>4. \A k \in Node : TxGood(tx'[k], Running(k)')
    BY <2>2, <2>3 DEF IInv, TxGood
  <2>5. \A k \in Node : RxGood(rx'[k], Running(k)', MaxPayloadSize[k])
    BY <2>2, <2>3 DEF IInv, RxGood
  <2> QED BY <2>1, <2>3, <2>4, <2>5, Parts DEF IInv, TypeOK
<1> QED BY <1>1, <1>2, <1>3, <1>4, <1>5 DEF App

\* Close returns: the timers are stopped.
LEMMA FinishCloseStep == ASSUME IInv, NEW n \in Node, FinishClose(n) PROVE IInv'
<1>1. Rest'
  <2>1. txChan' \in [Node -> Seq(Frame)] /\ inbox' \in [Node -> Seq(Frame)]
    BY RestHolds DEF FinishClose, Rest
  <2>2. status' \in [Node -> {"open", "closing", "closed"}]
    BY RestHolds DEF FinishClose, Rest
  <2> QED BY <2>1, <2>2, RestHolds DEF FinishClose, errVars, envVars, Rest
<1>2. tx' \in [Node -> TxMachine] /\ rx' \in [Node -> RxMachine]
  <2>1. tx[n] \in TxMachine /\ rx[n] \in RxMachine
    BY DEF IInv, TypeOK
  <2>2. [tx[n] EXCEPT !.timerFC = FALSE, !.timerST = FALSE] \in TxMachine
    BY <2>1 DEF TxMachine
  <2>3. [rx[n] EXCEPT !.timerCF = FALSE] \in RxMachine
    BY <2>1 DEF RxMachine
  <2> QED BY <2>2, <2>3 DEF FinishClose, IInv, TypeOK
<1>3. \A k \in Node : TxGood(tx'[k], Running(k)')
  <2> TAKE k \in Node
  <2>1. tx[k] \in TxMachine /\ status \in [Node -> {"open", "closing", "closed"}]
    BY DEF IInv, TypeOK
  <2>4. TxGood(tx[k], Running(k))
    BY DEF IInv
  <2>5. tx \in [Node -> TxMachine]
    BY DEF IInv, TypeOK
  <2>2. CASE k = n
    <3>1. tx'[k] = [tx[k] EXCEPT !.timerFC = FALSE, !.timerST = FALSE]
      BY <2>2, <2>5 DEF FinishClose
    <3>2. status'[k] = "closed"
      BY <2>1, <2>2 DEF FinishClose
    <3>3. tx'[k] \in TxMachine /\ ~tx'[k].timerFC /\ ~tx'[k].timerST
      BY <2>1, <3>1 DEF TxMachine
    <3>4. tx'[k].state = tx[k].state /\ tx'[k].msg = tx[k].msg /\ tx'[k].off = tx[k].off
      BY <2>1, <3>1 DEF TxMachine
    <3> QED BY <2>4, <3>2, <3>3, <3>4 DEF TxGood
  <2>3. CASE k # n
    <3>1. tx'[k] = tx[k] /\ status'[k] = status[k]
      BY <2>1, <2>3, <2>5 DEF FinishClose
    <3> QED BY <2>4, <3>1 DEF TxGood
  <2> QED BY <2>2, <2>3
<1>4. \A k \in Node : RxGood(rx'[k], Running(k)', MaxPayloadSize[k])
  <2> TAKE k \in Node
  <2>1. rx[k] \in RxMachine /\ status \in [Node -> {"open", "closing", "closed"}]
    BY DEF IInv, TypeOK
  <2>4. RxGood(rx[k], Running(k), MaxPayloadSize[k])
    BY DEF IInv
  <2>5. rx \in [Node -> RxMachine]
    BY DEF IInv, TypeOK
  <2>2. CASE k = n
    <3>1. rx'[k] = [rx[k] EXCEPT !.timerCF = FALSE]
      BY <2>2, <2>5 DEF FinishClose
    <3>2. status'[k] = "closed"
      BY <2>1, <2>2 DEF FinishClose
    <3>3. rx'[k] \in RxMachine /\ ~rx'[k].timerCF
      BY <2>1, <3>1 DEF RxMachine
    <3>4. rx'[k].state = rx[k].state /\ rx'[k].len = rx[k].len /\ rx'[k].frameLen = rx[k].frameLen
      BY <2>1, <3>1 DEF RxMachine
    <3> QED BY <2>4, <3>2, <3>3, <3>4 DEF RxGood
  <2>3. CASE k # n
    <3>1. rx'[k] = rx[k] /\ status'[k] = status[k]
      BY <2>1, <2>3, <2>5 DEF FinishClose
    <3> QED BY <2>4, <3>1 DEF RxGood
  <2> QED BY <2>2, <2>3
<1> QED BY <1>1, <1>2, <1>3, <1>4, Parts


\* Starting a transfer: a single frame leaves the machine idle, a first frame
\* leaves it waiting with its timer armed and bytes left to send.
LEMMA InitiateTxStep == ASSUME IInv, NEW n \in Node, InitiateTx(n) PROVE IInv'
<1> DEFINE m == Head(txDataChan[n])
<1>0. status' = status /\ UNCHANGED rxVars /\ txDataChan[n] # <<>> /\ Running(n)
      /\ UNCHANGED <<remoteBlockSize, errVars, envVars, sent, txAddress, inbox>>
      /\ txDataChan' = [txDataChan EXCEPT ![n] = Tail(@)]
  BY DEF InitiateTx, SendSingleFrame, SendFirstFrame
<1>1. m \in Msg /\ txDataChan' \in [Node -> Seq(Msg)] /\ txAddress[n] \in IDs
  BY <1>0, RestHolds DEF Rest
<1>2. /\ txChan' \in [Node -> Seq(Frame)]
      /\ tx' \in [Node -> TxMachine] /\ \A k \in Node : TxGood(tx'[k], Running(k)')
  <2>1. CASE SendSingleFrame(n)
    <3> DEFINE f == [type |-> "SF", id |-> txAddress[n], msg |-> m]
    <3>1. f \in Frame
      BY <1>1 DEF Frame, SingleFrame
    <3>2. SendData(n, f, TxIdle)
      BY <2>1 DEF SendSingleFrame
    <3>3. TxGood(TxIdle, Running(n))
      BY IdleTx
    <3> HIDE DEF f
    <3> QED BY <1>0, <3>1, <3>2, <3>3, SendDataTyped
  <2>2. CASE SendFirstFrame(n)
    <3> DEFINE f == [type |-> "FF", id |-> txAddress[n], msg |-> m]
               next == [tx[n] EXCEPT !.state = "WaitFC", !.msg = m, !.off = FirstChunk(m),
                                     !.seq = 1, !.timerFC = TRUE]
    <3>2. SendData(n, f, next) /\ ~FitsSingle(m) /\ tx[n].state = "Idle"
      BY <2>2 DEF SendFirstFrame
    <3>1. f \in Frame
      BY <1>1, <3>2 DEF Frame, FirstFrame
    <3>3. TxGood(next, Running(n))
      <4>1. tx[n] \in TxMachine /\ TxGood(tx[n], Running(n))
        BY DEF IInv, TypeOK
      <4>2. FirstChunk(m) \in Nat /\ FirstChunk(m) < Size[m]
        BY <1>1, <3>2, FirstChunkNat, FirstChunkShort
      <4>3. 1 \in 0..(SeqMod - 1)
        BY FrameAssumption
      <4>4. next \in TxMachine
        BY <1>1, <4>1, <4>2, <4>3 DEF TxMachine
      <4>5. /\ next.state = "WaitFC" /\ next.msg = m /\ next.off = FirstChunk(m)
            /\ next.timerFC /\ ~next.timerST
        BY <3>2, <4>1 DEF TxGood, TxMachine
      <4> HIDE DEF next
      <4> QED BY <1>0, <1>1, <4>2, <4>4, <4>5 DEF TxGood
    <3> HIDE DEF f, next
    <3> QED BY <1>0, <3>1, <3>2, <3>3, SendDataTyped
  <2> QED BY <2>1, <2>2 DEF InitiateTx
<1>3. Rest'
  BY <1>0, <1>1, <1>2, RestHolds DEF Rest, rxVars, errVars, envVars
<1> QED BY <1>0, <1>2, <1>3, SameMachines, Parts DEF rxVars

\* The machine after a consecutive frame.
LEMMA AfterFrame ==
  ASSUME IInv, NEW n \in Node, Running(n), tx[n].state = "Transmit",
         NEW end \in Nat, end <= Size[tx[n].msg]
  PROVE  TxGood(AfterConsecutiveFrame(n, end), Running(n))
<1>1. tx[n] \in TxMachine /\ TxGood(tx[n], Running(n)) /\ tx[n].msg \in Msg
  BY DEF IInv, TypeOK, TxGood
<1> DEFINE next == [tx[n] EXCEPT !.off = end, !.seq = (@ + 1) % SeqMod, !.block = @ + 1,
                                 !.timerST = FALSE]
<1>2. next \in TxMachine
  <2>1. (tx[n].seq + 1) % SeqMod \in 0..(SeqMod - 1)
    BY <1>1, NextSeq, FrameAssumption DEF TxMachine
  <2>2. tx[n].block + 1 \in Nat
    BY <1>1 DEF TxMachine
  <2>3. \A s \in 0..(SeqMod - 1), b \in Nat :
          [tx[n] EXCEPT !.off = end, !.seq = s, !.block = b, !.timerST = FALSE] \in TxMachine
    BY <1>1 DEF TxMachine
  <2> QED BY <2>1, <2>2, <2>3
<1>3. next.msg = tx[n].msg /\ next.off = end /\ ~next.timerFC /\ ~next.timerST
      /\ next.state = "Transmit"
  BY <1>1 DEF TxMachine, TxGood
<1>4. CASE end = Size[tx[n].msg]
  BY <1>4, IdleTx DEF AfterConsecutiveFrame
<1>5. CASE end # Size[tx[n].msg]
  <2>1. end < Size[tx[n].msg]
    BY <1>1, <1>5, MsgAssumption
  <2> HIDE DEF next
  <2>2. TxGood(AwaitFlowControl(next), Running(n))
    BY <1>1, <1>2, <1>3, <2>1 DEF TxGood, TxMachine, AwaitFlowControl
  <2>3. TxGood([next EXCEPT !.timerST = TRUE], Running(n))
    BY <1>1, <1>2, <1>3, <2>1 DEF TxGood, TxMachine
  <2> QED BY <1>5, <2>2, <2>3 DEF AfterConsecutiveFrame, next
<1> QED BY <1>4, <1>5

\* handleTxTransmit.
LEMMA STminStep == ASSUME IInv, NEW n \in Node, STminFires(n) PROVE IInv'
<1> DEFINE m == tx[n].msg
           off == tx[n].off
           len == Min2(FrameLen - 1, Size[m] - off)
           f == [type |-> "CF", id |-> txAddress[n], msg |-> m,
                 sn |-> tx[n].seq, off |-> off, len |-> len]
<1>0. status' = status /\ UNCHANGED rxVars /\ Running(n)
      /\ UNCHANGED <<remoteBlockSize, errVars, envVars, appVars, inbox>>
  BY DEF STminFires, appVars
<1>1. tx[n] \in TxMachine /\ TxGood(tx[n], Running(n)) /\ tx[n].timerST
  BY DEF STminFires, IInv, TypeOK
<1>2. tx[n].state = "Transmit" /\ m \in Msg /\ off < Size[m]
  BY <1>0, <1>1 DEF TxGood
<1>3. off \in Nat /\ Size[m] \in Nat
  BY <1>1, <1>2, MsgAssumption DEF TxMachine
<1>4. len \in 0..(FrameLen - 1) /\ off + len \in Nat /\ off + len <= Size[m]
  BY <1>2, <1>3, FrameAssumption DEF Min2
<1>5. f \in Frame
  BY <1>1, <1>2, <1>3, <1>4, RestHolds DEF Frame, ConsecutiveFrame, TxMachine, Rest
<1>6. SendData(n, f, AfterConsecutiveFrame(n, off + len))
  BY <1>2, <1>3 DEF STminFires
<1>7. TxGood(AfterConsecutiveFrame(n, off + len), Running(n))
  BY <1>0, <1>2, <1>4, AfterFrame
<1> HIDE DEF f, len
<1>8. /\ txChan' \in [Node -> Seq(Frame)]
      /\ tx' \in [Node -> TxMachine] /\ \A k \in Node : TxGood(tx'[k], Running(k)')
  BY <1>0, <1>5, <1>6, <1>7, SendDataTyped
<1>9. Rest'
  BY <1>0, <1>8, RestHolds DEF Rest, rxVars, errVars, envVars, appVars
<1> QED BY <1>0, <1>8, <1>9, SameMachines, Parts DEF rxVars


\* A step that only consumes a frame or raises errors keeps the rest.
LEMMA ErrorRest ==
  ASSUME Rest, UNCHANGED <<remoteBlockSize, delivered, unread, envVars, appVars>>,
         txChan' \in [Node -> Seq(Frame)], inbox' \in [Node -> Seq(Frame)],
         errorChan' \in [Node -> 0..ErrorCap], blamed' \subseteq Msg
  PROVE  Rest'
BY DEF Rest, envVars, appVars

LEMMA InterruptedNat == ASSUME NEW n \in Node PROVE Interrupted(n) \in Nat
BY DEF Interrupted

LEMMA DeliverTyped ==
  ASSUME Rest, NEW n \in Node, NEW d \in Payload, NEW k \in Nat, NEW ms, Deliver(n, d, k, ms)
  PROVE  /\ delivered' \in [Node -> Seq(Payload)]
         /\ unread' \in [Node -> 0..RxDataCap]
         /\ errorChan' \in [Node -> 0..ErrorCap] /\ blamed' \subseteq Msg
<1>1. CASE unread[n] < RxDataCap
  <2>1. /\ FireErrors(n, k, ms)
        /\ unread' = [unread EXCEPT ![n] = unread[n] + 1]
        /\ delivered' = [delivered EXCEPT ![n] = Append(delivered[n], d)]
    BY <1>1 DEF Deliver
  <2>2. unread[n] + 1 \in 0..RxDataCap
    BY <1>1, Caps DEF Rest
  <2>3. unread' \in [Node -> 0..RxDataCap]
    BY <2>1, <2>2 DEF Rest
  <2>4. delivered' \in [Node -> Seq(Payload)]
    BY <2>1 DEF Rest
  <2> QED BY <2>1, <2>3, <2>4, ErrorsTyped
<1>2. CASE ~(unread[n] < RxDataCap)
  <2>1. FireErrors(n, k + 1, ms \cup {d.msg}) /\ UNCHANGED <<delivered, unread>>
    BY <1>2 DEF Deliver
  <2>2. k + 1 \in Nat
    OBVIOUS
  <2> QED BY <2>1, <2>2, ErrorsTyped DEF Rest
<1> QED BY <1>1, <1>2

\* Flow control reaching the transmit machine.
LEMMA RxFlowControlStep ==
  ASSUME IInv, NEW n \in Node,
         RxLateFlowControl(n) \/ RxContinueToSend(n) \/ RxWait(n) \/ RxOverflow(n)
  PROVE  IInv'
<1> DEFINE f == Head(inbox[n])
<1>0. /\ NextFrame(n, "FC") /\ status' = status
      /\ UNCHANGED <<rxVars, envVars, appVars, txChan>>
  BY DEF RxLateFlowControl, RxContinueToSend, RxWait, RxOverflow, FlowControl, appVars
<1>1. inbox' \in [Node -> Seq(Frame)] /\ f \in Frame /\ f.type = "FC" /\ Running(n)
  BY <1>0, RestHolds, FrameTyped
<1>2. f.bs \in 0..255
  BY <1>1, Kinds
<1>3. tx[n] \in TxMachine /\ TxGood(tx[n], Running(n))
  BY DEF IInv, TypeOK
<1>4. txChan' \in [Node -> Seq(Frame)]
  BY <1>0, RestHolds DEF Rest
<1>5. CASE UNCHANGED <<txVars, errVars>>
  <2>1. Rest'
    BY <1>0, <1>1, <1>4, <1>5, RestHolds, ErrorRest DEF Rest, rxVars, txVars, errVars
  <2> QED BY <1>0, <1>5, <2>1, SameMachines, Parts DEF rxVars, txVars
<1>6. CASE /\ FireErrors(n, 1, {tx[n].msg}) /\ tx' = [tx EXCEPT ![n] = TxIdle]
           /\ remoteBlockSize' = remoteBlockSize
  <2>1. errorChan' \in [Node -> 0..ErrorCap] /\ blamed' \subseteq Msg
    BY <1>6, RestHolds, ErrorsTyped
  <2>2. Rest'
    BY <1>0, <1>1, <1>4, <1>6, <2>1, RestHolds, ErrorRest DEF rxVars
  <2> QED BY <1>0, <1>6, <2>2, StopSending, SameMachines, Parts DEF rxVars
<1>7. CASE RxContinueToSend(n)
  <2> DEFINE t == [tx[n] EXCEPT !.state = "Transmit", !.block = 0, !.wait = 0,
                                !.timerFC = FALSE, !.timerST = TRUE]
  <2>1. tx[n].state = "WaitFC" /\ tx' = [tx EXCEPT ![n] = t] /\ UNCHANGED errVars
        /\ remoteBlockSize' = [remoteBlockSize EXCEPT ![n] = f.bs]
    BY <1>7 DEF RxContinueToSend
  <2>2. t \in TxMachine
    BY <1>3 DEF TxMachine
  <2>3. /\ t.state = "Transmit" /\ t.msg = tx[n].msg /\ t.off = tx[n].off
        /\ ~t.timerFC /\ t.timerST
    BY <1>3 DEF TxMachine
  <2>4. Rest'
    BY <1>0, <1>1, <1>2, <1>4, <2>1, RestHolds DEF Rest, rxVars, errVars, envVars, appVars
  <2> HIDE DEF t
  <2>5. TxGood(t, Running(n))
    BY <1>1, <1>3, <2>1, <2>2, <2>3 DEF TxGood
  <2> QED BY <1>0, <2>1, <2>4, <2>5, TxUpdate, SameMachines, Parts DEF rxVars
<1>8. CASE /\ tx[n].state = "WaitFC" /\ UNCHANGED <<errVars, remoteBlockSize>>
           /\ tx' = [tx EXCEPT ![n] = [tx[n] EXCEPT !.wait = @ + 1, !.timerFC = TRUE]]
  <2> DEFINE t == [tx[n] EXCEPT !.wait = @ + 1, !.timerFC = TRUE]
  <2>1. tx' = [tx EXCEPT ![n] = t]
    BY <1>8
  <2>2. t \in TxMachine
    <3>1. \A w \in Nat : [tx[n] EXCEPT !.wait = w, !.timerFC = TRUE] \in TxMachine
      BY <1>3 DEF TxMachine
    <3>2. tx[n].wait + 1 \in Nat
      BY <1>3 DEF TxMachine
    <3> QED BY <3>1, <3>2
  <2>3. /\ t.state = "WaitFC" /\ t.msg = tx[n].msg /\ t.off = tx[n].off
        /\ t.timerFC /\ ~t.timerST
    BY <1>3, <1>8 DEF TxMachine, TxGood
  <2>4. Rest'
    BY <1>0, <1>1, <1>4, <1>8, RestHolds DEF Rest, rxVars, errVars, envVars, appVars
  <2> HIDE DEF t
  <2>5. TxGood(t, Running(n))
    BY <1>1, <1>3, <1>8, <2>2, <2>3 DEF TxGood
  <2> QED BY <1>0, <2>1, <2>4, <2>5, TxUpdate, SameMachines, Parts DEF rxVars
<1>9. RxWait(n) => \/ /\ FireErrors(n, 1, {tx[n].msg}) /\ tx' = [tx EXCEPT ![n] = TxIdle]
                      /\ remoteBlockSize' = remoteBlockSize
                   \/ /\ tx[n].state = "WaitFC" /\ UNCHANGED <<errVars, remoteBlockSize>>
                      /\ tx' = [tx EXCEPT ![n] = [tx[n] EXCEPT !.wait = @ + 1, !.timerFC = TRUE]]
  BY DEF RxWait
<1> QED BY <1>5, <1>6, <1>7, <1>8, <1>9 DEF RxLateFlowControl, RxOverflow


\* Frames of a foreign ID, unparseable frames and stray consecutive frames.
LEMMA RxIgnoredStep ==
  ASSUME IInv, NEW n \in Node, RxForeign(n) \/ RxBad(n) \/ RxStrayConsecutiveFrame(n)
  PROVE  IInv'
<1>0. status' = status /\ UNCHANGED <<txVars, rxVars, envVars, appVars, txChan>>
  BY DEF RxForeign, RxBad, RxStrayConsecutiveFrame, appVars
<1>1. inbox' \in [Node -> Seq(Frame)]
  <2>1. inbox[n] # <<>> /\ inbox' = [inbox EXCEPT ![n] = Tail(@)]
    BY DEF RxForeign, RxBad, RxStrayConsecutiveFrame, NextFrame
  <2> QED BY <2>1, HeadTyped, RestHolds DEF Rest
<1>2. errorChan' \in [Node -> 0..ErrorCap] /\ blamed' \subseteq Msg
  <2>1. FireErrors(n, 1, {}) \/ UNCHANGED errVars
    BY DEF RxForeign, RxBad, RxStrayConsecutiveFrame
  <2> QED BY <2>1, RestHolds, ErrorsTyped DEF Rest, errVars
<1>3. Rest'
  BY <1>0, <1>1, <1>2, RestHolds, ErrorRest DEF Rest, txVars, rxVars
<1> QED BY <1>0, <1>3, SameMachines, Parts DEF txVars, rxVars

LEMMA RxSingleStep == ASSUME IInv, NEW n \in Node, RxSingleFrame(n) PROVE IInv'
<1> DEFINE m == Head(inbox[n]).msg
           d == [msg |-> m, len |-> Size[m]]
<1>0. /\ NextFrame(n, "SF") /\ status' = status /\ rx' = [rx EXCEPT ![n] = RxIdle]
      /\ Deliver(n, d, Interrupted(n), {rx[n].msg})
      /\ UNCHANGED <<txVars, envVars, appVars, txChan>>
  BY DEF RxSingleFrame, appVars
<1>1. inbox' \in [Node -> Seq(Frame)] /\ m \in Msg
  BY <1>0, RestHolds, FrameTyped, Kinds
<1>2. d \in Payload
  BY <1>1, MsgAssumption DEF Payload
<1> HIDE DEF d
<1>3. /\ delivered' \in [Node -> Seq(Payload)] /\ unread' \in [Node -> 0..RxDataCap]
      /\ errorChan' \in [Node -> 0..ErrorCap] /\ blamed' \subseteq Msg
  BY <1>0, <1>2, RestHolds, DeliverTyped, InterruptedNat
<1>4. Rest'
  BY <1>0, <1>1, <1>3, RestHolds DEF Rest, txVars, envVars, appVars
<1> QED BY <1>0, <1>4, StopReceiving, SameMachines, Parts DEF txVars

\* A reception given up with errors: a refused first frame, a wrong sequence
\* number, the N_Cr timeout.
LEMMA RxAbandonStep ==
  ASSUME IInv, NEW n \in Node,
         RxFirstFrameTooLarge(n) \/ RxWrongSequence(n) \/ ConsecutiveFrameTimeout(n)
  PROVE  IInv'
<1>0. /\ status' = status /\ rx' = [rx EXCEPT ![n] = RxIdle]
      /\ UNCHANGED <<txVars, delivered, unread, envVars, appVars, txChan>>
  BY DEF RxFirstFrameTooLarge, RxWrongSequence, ConsecutiveFrameTimeout, appVars
<1>1. inbox' \in [Node -> Seq(Frame)]
  BY RestHolds, FrameTyped DEF RxFirstFrameTooLarge, RxWrongSequence, ConsecutiveFrameTimeout, Rest
<1>2. errorChan' \in [Node -> 0..ErrorCap] /\ blamed' \subseteq Msg
  <2>1. \E k \in Nat : \E ms : FireErrors(n, k, ms)
    <3>1. Interrupted(n) + 1 \in Nat
      BY InterruptedNat
    <3> QED BY <3>1 DEF RxFirstFrameTooLarge, RxWrongSequence, ConsecutiveFrameTimeout
  <2> QED BY <2>1, RestHolds, ErrorsTyped
<1>3. Rest'
  BY <1>0, <1>1, <1>2, RestHolds, ErrorRest DEF Rest, txVars
<1> QED BY <1>0, <1>3, StopReceiving, SameMachines, Parts DEF txVars

LEMMA RxFirstStep == ASSUME IInv, NEW n \in Node, RxFirstFrame(n) PROVE IInv'
<1> DEFINE m == Head(inbox[n]).msg
<1>0. /\ NextFrame(n, "FF") /\ status' = status /\ AcceptsSize(n, m)
      /\ FireErrors(n, Interrupted(n), {rx[n].msg})
      /\ SendFlowControl(n, Reception(n, m))
      /\ UNCHANGED <<txVars, delivered, unread, envVars, appVars>>
  BY DEF RxFirstFrame, appVars
<1>1. inbox' \in [Node -> Seq(Frame)] /\ Head(inbox[n]) \in Frame /\ m \in Msg /\ Running(n)
      /\ ~FitsSingle(m)
  BY <1>0, RestHolds, FrameTyped, Kinds
<1>2. RxGood(Reception(n, m), Running(n), MaxPayloadSize[n])
  <2>1. FirstChunk(m) \in Nat /\ Size[m] \in Nat /\ 1 \in 0..(SeqMod - 1)
    BY <1>1, FirstChunkNat, MsgAssumption, FrameAssumption
  <2>2. Reception(n, m) \in RxMachine
    BY <1>1, <2>1 DEF Reception, RxIdle, RxMachine
  <2>3. /\ Reception(n, m).state = "WaitCF" /\ Reception(n, m).len = FirstChunk(m)
        /\ Reception(n, m).frameLen = Size[m] /\ Reception(n, m).timerCF
    BY DEF Reception, RxIdle
  <2>4. FirstChunk(m) < Size[m] /\ Size[m] <= MaxPayloadSize[n]
    BY <1>0, <1>1, FirstChunkShort DEF AcceptsSize
  <2> QED BY <1>1, <2>2, <2>3, <2>4 DEF RxGood
<1>3. /\ txChan' \in [Node -> Seq(Frame)] /\ rx' \in [Node -> RxMachine]
      /\ \A k \in Node : RxGood(rx'[k], Running(k)', MaxPayloadSize[k])
  BY <1>0, <1>2, SendFlowControlTyped
<1>4. errorChan' \in [Node -> 0..ErrorCap] /\ blamed' \subseteq Msg
  BY <1>0, RestHolds, ErrorsTyped, InterruptedNat
<1>5. Rest'
  BY <1>0, <1>1, <1>3, <1>4, RestHolds, ErrorRest DEF txVars
<1> QED BY <1>0, <1>3, <1>5, SameMachines, Parts DEF txVars

\* What a consecutive frame leaves in the buffer is typed and not too long.
LEMMA AppendedTyped ==
  ASSUME IInv, NEW n \in Node, Running(n), rx[n].state = "WaitCF",
         NEW f \in Frame, f.type = "CF"
  PROVE  /\ Appended(n, f) \in RxMachine
         /\ Appended(n, f).state = "WaitCF" /\ Appended(n, f).timerCF
         /\ Appended(n, f).frameLen = rx[n].frameLen
         /\ Appended(n, f).msg \in Msg \cup {Mixed}
<1>1. rx[n] \in RxMachine /\ RxGood(rx[n], Running(n), MaxPayloadSize[n])
  BY DEF IInv, TypeOK
<1> DEFINE r == rx[n]
           whole == f.msg = r.msg /\ f.off = r.len /\ Taken(n, f) <= f.len
           msg == IF whole THEN r.msg ELSE Mixed
<1>2. f.msg \in Msg /\ f.len \in 0..(FrameLen - 1)
  BY Kinds
<1>3. msg \in Msg \cup {Mixed}
  BY <1>2
<1>4. r.len + Taken(n, f) \in Nat
  <2>1. f.len + 1 \in 1..FrameLen
    BY <1>2, FrameAssumption
  <2>2. WireLength(f.len + 1) \in Nat /\ WireLength(f.len + 1) >= 1
    BY <2>1, WireLengthNat
  <2>3. r.len \in Nat /\ r.frameLen \in Nat /\ r.len < r.frameLen
    BY <1>1 DEF RxGood, RxMachine
  <2> QED BY <2>2, <2>3 DEF Taken, Min2
<1>5. (r.seq + 1) % SeqMod \in 0..(SeqMod - 1)
  BY <1>1, NextSeq, FrameAssumption DEF RxMachine
<1> DEFINE A(l, q) == [r EXCEPT !.msg = msg, !.len = l, !.seq = q, !.timerCF = TRUE]
<1>6. Appended(n, f) = A(r.len + Taken(n, f), (r.seq + 1) % SeqMod)
  BY DEF Appended
<1> HIDE DEF msg
<1>7. \A l \in Nat, q \in 0..(SeqMod - 1) :
        /\ A(l, q) \in RxMachine /\ A(l, q).state = "WaitCF" /\ A(l, q).timerCF
        /\ A(l, q).frameLen = r.frameLen /\ A(l, q).msg = msg
  BY <1>1, <1>3 DEF RxMachine
<1> HIDE DEF A
<1> QED BY <1>3, <1>4, <1>5, <1>6, <1>7

LEMMA RxConsecutiveStep ==
  ASSUME IInv, NEW n \in Node, RxLastConsecutiveFrame(n) \/ RxConsecutiveFrame(n)
  PROVE  IInv'
<1> DEFINE f == Head(inbox[n])
           r == Appended(n, f)
<1>0. NextFrame(n, "CF") /\ status' = status /\ rx[n].state = "WaitCF"
      /\ UNCHANGED <<txVars, envVars, appVars>>
  BY DEF RxLastConsecutiveFrame, RxConsecutiveFrame, InSequence, appVars
<1>1. inbox' \in [Node -> Seq(Frame)] /\ f \in Frame /\ f.type = "CF" /\ Running(n)
  BY <1>0, RestHolds, FrameTyped
<1>2. /\ r \in RxMachine /\ r.state = "WaitCF" /\ r.timerCF
      /\ r.frameLen = rx[n].frameLen /\ r.msg \in Msg \cup {Mixed}
  BY <1>0, <1>1, AppendedTyped
<1>3. rx[n].frameLen <= MaxPayloadSize[n]
  BY <1>0 DEF IInv, RxGood
<1>4. CASE RxLastConsecutiveFrame(n)
  <2> DEFINE d == [msg |-> r.msg, len |-> r.len]
  <2>1. /\ Deliver(n, d, 0, {}) /\ rx' = [rx EXCEPT ![n] = RxIdle]
        /\ txChan' = txChan
    BY <1>4 DEF RxLastConsecutiveFrame
  <2>2. d \in Payload
    BY <1>2 DEF Payload, RxMachine
  <2> HIDE DEF d
  <2>3. /\ delivered' \in [Node -> Seq(Payload)] /\ unread' \in [Node -> 0..RxDataCap]
        /\ errorChan' \in [Node -> 0..ErrorCap] /\ blamed' \subseteq Msg
    BY <2>1, <2>2, RestHolds, DeliverTyped
  <2>4. Rest'
    BY <1>0, <1>1, <2>1, <2>3, RestHolds DEF Rest, txVars, envVars, appVars
  <2> QED BY <1>0, <2>1, <2>4, StopReceiving, SameMachines, Parts DEF txVars
<1>5. CASE RxConsecutiveFrame(n)
  <2>1. r.len < r.frameLen /\ UNCHANGED <<delivered, unread, errVars>>
    BY <1>5 DEF RxConsecutiveFrame
  <2> HIDE DEF r
  <2>2. \A b \in Nat : RxGood([r EXCEPT !.block = b], Running(n), MaxPayloadSize[n])
    <3> TAKE b \in Nat
    <3> DEFINE a == [r EXCEPT !.block = b]
    <3>1. a \in RxMachine
      BY <1>2 DEF RxMachine
    <3>2. a.state = "WaitCF" /\ a.timerCF /\ a.len = r.len /\ a.frameLen = r.frameLen
      BY <1>2 DEF RxMachine
    <3> HIDE DEF a
    <3>3. RxGood(a, Running(n), MaxPayloadSize[n])
      BY <1>1, <1>2, <1>3, <2>1, <3>1, <3>2 DEF RxGood
    <3> QED BY <3>3 DEF a
  <2>3. r.block + 1 \in Nat
    BY <1>2 DEF RxMachine
  <2>4. \/ SendFlowControl(n, [r EXCEPT !.block = 0])
        \/ rx' = [rx EXCEPT ![n] = [r EXCEPT !.block = r.block + 1]] /\ txChan' = txChan
    BY <1>5 DEF RxConsecutiveFrame, r
  <2>5. /\ txChan' \in [Node -> Seq(Frame)] /\ rx' \in [Node -> RxMachine]
        /\ \A k \in Node : RxGood(rx'[k], Running(k)', MaxPayloadSize[k])
    <3>1. CASE SendFlowControl(n, [r EXCEPT !.block = 0])
      BY <1>0, <2>2, <3>1, SendFlowControlTyped
    <3>2. CASE rx' = [rx EXCEPT ![n] = [r EXCEPT !.block = r.block + 1]] /\ txChan' = txChan
      BY <1>0, <2>2, <2>3, <3>2, RxUpdate, RestHolds DEF Rest
    <3> QED BY <2>4, <3>1, <3>2
  <2>6. Rest'
    BY <1>0, <1>1, <2>1, <2>5, RestHolds DEF Rest, errVars, envVars, appVars, txVars
  <2> QED BY <1>0, <2>5, <2>6, SameMachines, Parts DEF txVars
<1> QED BY <1>4, <1>5

\* The N_Bs timeout.
LEMMA FlowControlTimeoutStep == ASSUME IInv, NEW n \in Node, FlowControlTimeout(n) PROVE IInv'
<1>0. /\ status' = status /\ FireErrors(n, 1, {tx[n].msg})
      /\ tx' = [tx EXCEPT ![n] = TxIdle]
      /\ UNCHANGED <<remoteBlockSize, rxVars, envVars, appVars, txChan, inbox>>
  BY DEF FlowControlTimeout, appVars
<1>1. errorChan' \in [Node -> 0..ErrorCap] /\ blamed' \subseteq Msg
  BY <1>0, RestHolds, ErrorsTyped
<1>2. Rest'
  BY <1>0, <1>1, RestHolds, ErrorRest DEF Rest, rxVars
<1> QED BY <1>0, <1>2, StopSending, SameMachines, Parts DEF rxVars

\* The bus moves, loses or adds frames.
LEMMA BusStep == ASSUME IInv, NEW n \in Node, Bus(n) PROVE IInv'
<1>0. status' = status /\ UNCHANGED <<txVars, rxVars, appVars>>
  BY DEF Bus, Transfer, DropAtSubscriber, Lose, SendFails, Inject, appVars
<1>1. ASSUME TakeFrame(n) PROVE Head(txChan[n]) \in Frame /\ txChan' \in [Node -> Seq(Frame)]
  BY <1>1, RestHolds DEF TakeFrame, Rest
<1>2. txChan' \in [Node -> Seq(Frame)] /\ inbox' \in [Node -> Seq(Frame)]
  <2>1. CASE Transfer(n)
    <3>1. TakeFrame(n)
      BY <2>1 DEF Transfer
    <3>2. Peer[n] \in Node
      BY NodeAssumption
    <3>3. /\ Head(txChan[n]) \in Frame /\ txChan' \in [Node -> Seq(Frame)]
          /\ inbox \in [Node -> Seq(Frame)]
      BY <1>1, <3>1, RestHolds DEF Rest
    <3>4. CASE inbox' = inbox
      BY <3>3, <3>4
    <3>5. CASE inbox' = [inbox EXCEPT ![Peer[n]] = Append(inbox[Peer[n]], Head(txChan[n]))]
      <4>1. Append(inbox[Peer[n]], Head(txChan[n])) \in Seq(Frame)
        BY <3>2, <3>3
      <4> QED BY <3>2, <3>3, <3>5, <4>1
    <3> QED BY <2>1, <3>4, <3>5 DEF Transfer
  <2>2. CASE DropAtSubscriber(n) \/ Lose(n) \/ SendFails(n)
    BY <1>1, <2>2, RestHolds DEF DropAtSubscriber, Lose, SendFails, Rest
  <2>3. CASE \E f \in InjectFrames : Inject(n, f)
    <3> PICK f \in InjectFrames : Inject(n, f)
      BY <2>3
    <3>1. f \in Frame
      BY InjectAssumption DEF Frame
    <3>2. inbox' = [inbox EXCEPT ![n] = Append(@, f)] /\ txChan' = txChan
      BY DEF Inject
    <3> QED BY <3>1, <3>2, RestHolds DEF Rest
  <2> QED BY <2>1, <2>2, <2>3 DEF Bus
<1>3. errorChan' \in [Node -> 0..ErrorCap] /\ blamed' \subseteq Msg
  <2>1. UNCHANGED errVars \/ FireErrors(n, 1, {})
    BY DEF Bus, Transfer, DropAtSubscriber, Lose, SendFails, Inject
  <2>2. Rest
    BY RestHolds
  <2>3. CASE UNCHANGED errVars
    BY <2>2, <2>3 DEF Rest, errVars
  <2>4. CASE FireErrors(n, 1, {})
    BY <2>2, <2>4, ErrorsTyped
  <2> QED BY <2>1, <2>3, <2>4
<1>4. lost' \in Nat /\ injected' \in Nat
  BY RestHolds DEF Rest, Bus, Transfer, DropAtSubscriber, Lose, SendFails, Inject, envVars
<1>5. Rest'
  BY <1>0, <1>2, <1>3, <1>4, RestHolds DEF Rest, txVars, rxVars, appVars
<1> QED BY <1>0, <1>5, SameMachines, Parts DEF txVars, rxVars

\* Every step preserves the inductive invariant.
THEOREM Inductive == IInv /\ [Next]_vars => IInv'
<1> SUFFICES ASSUME IInv, [Next]_vars PROVE IInv'
  OBVIOUS
<1>1. CASE UNCHANGED vars
  <2>1. Rest'
    BY <1>1, RestHolds DEF vars, txVars, rxVars, errVars, envVars, appVars, Rest
  <2> QED BY <1>1, <2>1, SameMachines, Parts DEF vars, txVars, rxVars, appVars
<1>2. CASE Next
  <2> PICK n \in Node : App(n) \/ Run(n) \/ FinishClose(n) \/ Bus(n)
    BY <1>2 DEF Next
  <2>1. CASE App(n)
    BY <2>1, AppStep
  <2>2. CASE Run(n)
    BY <2>2, InitiateTxStep, STminStep, RxFlowControlStep, RxIgnoredStep, RxSingleStep,
       RxAbandonStep, RxFirstStep, RxConsecutiveStep, FlowControlTimeoutStep
       DEF Run, ProcessRx, Timeouts
  <2>3. CASE FinishClose(n)
    BY <2>3, FinishCloseStep
  <2>4. CASE Bus(n)
    BY <2>4, BusStep
  <2> QED BY <2>1, <2>2, <2>3, <2>4
<1> QED BY <1>1, <1>2

\* IInv is an invariant of the specification.
THEOREM IInvHolds == Spec => []IInv
<1>1. Init => IInv
  BY InitIInv
<1> QED BY <1>1, Inductive, PTL DEF Spec

\* The types of all variables, and the bounds of the non-blocking queues.
THEOREM TypeCorrect == Spec => []TypeOK
<1>1. IInv => TypeOK
  BY DEF IInv
<1> QED BY <1>1, IInvHolds, PTL

\* In every state of a session exactly the timer of that state is armed: no
\* machine waits without a timeout and no stale timer can fire.
THEOREM TimersFollowStates == Spec => []TimerDiscipline
<1>1. IInv => TimerDiscipline
  BY DEF IInv, TimerDiscipline, TxGood, RxGood
<1> QED BY <1>1, IInvHolds, PTL

\* No reassembly exceeds MaxPayloadSize or outlives its last byte.
THEOREM ReassemblyIsBounded == Spec => []ReassemblyBounded
<1>1. IInv => ReassemblyBounded
  BY DEF IInv, ReassemblyBounded, RxGood
<1> QED BY <1>1, IInvHolds, PTL

-----------------------------------------------------------------------------
\* Where a transfer is: the payload, and how many of its bytes are accounted for.
Position == [msg : Msg \cup {NoMsg}, off : Nat]

DataTypes == {"SF", "FF", "CF"}

\* How much of payload m the consecutive frame at `off` carries.
ChunkAt(m, off) == Min2(FrameLen - 1, Size[m] - off)

\* Frame f of sender n continues the stream of frames that stands at x ...
Continues(x, f, n) ==
  /\ f.type \in DataTypes => f.id = "base" /\ Source[f.msg] = n
  /\ f.type = "CF" => /\ x = [msg |-> f.msg, off |-> f.off]
                      /\ f.off < Size[f.msg] /\ f.len = ChunkAt(f.msg, f.off)

\* ... and moves it to this position.
After(x, f) == IF f.type = "FF" THEN [msg |-> f.msg, off |-> FirstChunk(f.msg)]
               ELSE IF f.type = "CF" THEN [msg |-> f.msg, off |-> f.off + f.len]
               ELSE x

\* The positions e before, between and after the frames of queue q, a part of
\* the stream of sender n.
InTurn(e, q, n) ==
  /\ e \in Seq(Position) /\ Len(e) = Len(q) + 1
  /\ \A i \in 1..Len(q) : Continues(e[i], q[i], n) /\ e[i + 1] = After(e[i], q[i])

\* An active transmit machine t of n stands behind the last frame it queued ...
Behind(n, t, q, e) == /\ InTurn(e, q, n)
                      /\ t.state # "Idle" => e[Len(e)] = [msg |-> t.msg, off |-> t.off]

\* ... and an active receive machine r of n before the first frame of its inbox.
Before(n, r, q, e) == /\ InTurn(e, q, Peer[n])
                      /\ r.state = "WaitCF" => e[1] = [msg |-> r.msg, off |-> r.len]

\* The stream from n to its peer, with its positions e in the inbox and g in the
\* queue, as far as both ends still take part in it.
Streaming(n, e, g) ==
  /\ Running(Peer[n]) => Before(Peer[n], rx[Peer[n]], inbox[Peer[n]], e)
  /\ status[n] = "open" /\ status[Peer[n]] = "open" =>
       Behind(n, tx[n], txChan[n], g) /\ g[1] = e[Len(e)]

Stream(n) == \E e, g \in Seq(Position) : Streaming(n, e, g)

\* Every payload in hand belongs to the end it should come from.
Sources == \A n \in Node :
  /\ \A i \in 1..Len(txDataChan[n]) : Source[txDataChan[n][i]] = n
  /\ tx[n].state # "Idle" => Source[tx[n].msg] = n
  /\ rx[n].state = "WaitCF" => /\ rx[n].msg \in Msg /\ Source[rx[n].msg] = Peer[n]
                               /\ rx[n].frameLen = Size[rx[n].msg]
  /\ txAddress[n] = "base"

\* The inductive invariant of a transfer over a bus that loses nothing.
Transfers == Sources /\ (\A n \in Node : Stream(n)) /\ IntactDelivery

-----------------------------------------------------------------------------
\* What a step of one session does to its transmit side: it queues no data frame ...
Holds(t, u) ==
  t.state # "Idle" => u.state # "Idle" /\ t.msg = u.msg /\ t.off = u.off /\ t.seq = u.seq

Keeps(n) ==
  /\ Holds(tx'[n], tx[n])
  /\ \/ txChan'[n] = txChan[n]
     \/ \E f \in Frame : f.type = "FC" /\ txChan'[n] = Append(txChan[n], f)

\* ... or the first or only frame of the next payload ...
Begins(n) ==
  /\ tx[n].state = "Idle" /\ txDataChan[n] # <<>>
  /\ \E f \in Frame :
       /\ f.id = txAddress[n] /\ f.msg = Head(txDataChan[n])
       /\ txChan'[n] = Append(txChan[n], f)
       /\ \/ f.type = "SF" /\ tx'[n].state = "Idle"
          \/ /\ f.type = "FF" /\ tx'[n].msg = f.msg
             /\ tx'[n].off = FirstChunk(f.msg) /\ tx'[n].seq = 1

\* ... or the next consecutive frame.
Advances(n) ==
  /\ tx[n].state # "Idle" /\ tx[n].off < Size[tx[n].msg]
  /\ \E f \in Frame :
       /\ f.type = "CF" /\ f.id = txAddress[n] /\ f.msg = tx[n].msg
       /\ f.off = tx[n].off /\ f.len = ChunkAt(f.msg, f.off)
       /\ txChan'[n] = Append(txChan[n], f)
       /\ tx'[n].state # "Idle" =>
            /\ tx'[n].msg = tx[n].msg /\ tx'[n].off = f.off + f.len
            /\ tx'[n].off < Size[tx[n].msg] /\ tx'[n].seq = (tx[n].seq + 1) % SeqMod

OthersSend(n) == \A k \in Node \ {n} : tx'[k] = tx[k] /\ txChan'[k] = txChan[k]

Sends(n) == (Keeps(n) \/ Begins(n) \/ Advances(n)) /\ OthersSend(n)

LEMMA Machines ==
  ASSUME IInv, NEW n \in Node
  PROVE  /\ tx[n] \in TxMachine /\ TxGood(tx[n], Running(n))
         /\ rx[n] \in RxMachine /\ RxGood(rx[n], Running(n), MaxPayloadSize[n])
         /\ txChan[n] \in Seq(Frame) /\ inbox[n] \in Seq(Frame)
         /\ txDataChan[n] \in Seq(Msg) /\ delivered[n] \in Seq(Payload)
BY DEF IInv, TypeOK

\* The variables are functions on Node: an EXCEPT shows at n, and only there.
LEMMA TxAt ==
  ASSUME IInv, NEW n \in Node, NEW v, tx' = [tx EXCEPT ![n] = v]
  PROVE  tx'[n] = v /\ \A k \in Node \ {n} : tx'[k] = tx[k]
BY DEF IInv, TypeOK

LEMMA TxChanAt ==
  ASSUME IInv, NEW n \in Node, NEW v, txChan' = [txChan EXCEPT ![n] = v]
  PROVE  txChan'[n] = v /\ \A k \in Node \ {n} : txChan'[k] = txChan[k]
BY DEF IInv, TypeOK

LEMMA RxAt ==
  ASSUME IInv, NEW n \in Node, NEW v, rx' = [rx EXCEPT ![n] = v]
  PROVE  rx'[n] = v /\ \A k \in Node \ {n} : rx'[k] = rx[k]
BY DEF IInv, TypeOK

LEMMA InboxAt ==
  ASSUME IInv, NEW n \in Node, NEW v, inbox' = [inbox EXCEPT ![n] = v]
  PROVE  inbox'[n] = v /\ \A k \in Node \ {n} : inbox'[k] = inbox[k]
BY DEF IInv, TypeOK

LEMMA DeliveredAt ==
  ASSUME IInv, NEW n \in Node, NEW v, delivered' = [delivered EXCEPT ![n] = v]
  PROVE  delivered'[n] = v /\ \A k \in Node \ {n} : delivered'[k] = delivered[k]
BY DEF IInv, TypeOK

LEMMA TxDataAt ==
  ASSUME IInv, NEW n \in Node, NEW v, txDataChan' = [txDataChan EXCEPT ![n] = v]
  PROVE  txDataChan'[n] = v /\ \A k \in Node \ {n} : txDataChan'[k] = txDataChan[k]
BY DEF IInv, TypeOK

LEMMA SendDataShape ==
  ASSUME IInv, NEW n \in Node, NEW f, NEW next, SendData(n, f, next)
  PROVE  /\ OthersSend(n)
         /\ \/ tx'[n] = next /\ txChan'[n] = Append(txChan[n], f)
            \/ tx'[n] = TxIdle /\ txChan'[n] = txChan[n]
<1>1. CASE Queue(n, f) /\ tx' = [tx EXCEPT ![n] = next]
  <2>1. txChan' = [txChan EXCEPT ![n] = Append(txChan[n], f)]
    BY <1>1 DEF Queue
  <2>2. txChan'[n] = Append(txChan[n], f) /\ \A k \in Node \ {n} : txChan'[k] = txChan[k]
    BY <2>1, TxChanAt
  <2>3. tx'[n] = next /\ \A k \in Node \ {n} : tx'[k] = tx[k]
    BY <1>1, TxAt
  <2> QED BY <2>2, <2>3 DEF OthersSend
<1>2. CASE tx' = [tx EXCEPT ![n] = TxIdle] /\ txChan' = txChan
  BY <1>2, TxAt DEF OthersSend
<1> QED BY <1>1, <1>2 DEF SendData

\* No data frame and the same place in the payload.
LEMMA KeepsStep ==
  ASSUME IInv, NEW n \in Node, NEW t, Holds(t, tx[n]),
         \/ tx' = tx
         \/ tx' = [tx EXCEPT ![n] = t],
         \/ txChan' = txChan
         \/ \E f \in Frame : f.type = "FC" /\ Queue(n, f)
  PROVE  Sends(n)
<1>1. Holds(tx'[n], tx[n]) /\ \A k \in Node \ {n} : tx'[k] = tx[k]
  <2>1. CASE tx' = tx
    BY <2>1 DEF Holds
  <2>2. CASE tx' = [tx EXCEPT ![n] = t]
    BY <2>2, TxAt
  <2> QED BY <2>1, <2>2
<1>2. CASE txChan' = txChan
  BY <1>1, <1>2 DEF Sends, Keeps, OthersSend
<1>3. CASE \E f \in Frame : f.type = "FC" /\ Queue(n, f)
  <2> PICK f \in Frame : f.type = "FC" /\ Queue(n, f)
    BY <1>3
  <2>1. txChan'[n] = Append(txChan[n], f) /\ \A k \in Node \ {n} : txChan'[k] = txChan[k]
    BY TxChanAt DEF Queue
  <2> QED BY <1>1, <2>1 DEF Sends, Keeps, OthersSend
<1> QED BY <1>2, <1>3

LEMMA Idling == ASSUME NEW u PROVE Holds(TxIdle, u)
BY DEF Holds, TxIdle

LEMMA InitiateSends == ASSUME IInv, NEW n \in Node, InitiateTx(n) PROVE Sends(n)
<1> DEFINE m == Head(txDataChan[n])
<1>1. tx[n].state = "Idle" /\ txDataChan[n] # <<>> /\ m \in Msg /\ txAddress[n] \in IDs
  <2>1. tx[n].state = "Idle" /\ txDataChan[n] # <<>>
    BY DEF InitiateTx, SendSingleFrame, SendFirstFrame
  <2> QED BY <2>1 DEF IInv, TypeOK
<1>2. CASE SendSingleFrame(n)
  <2> DEFINE f == [type |-> "SF", id |-> txAddress[n], msg |-> m]
  <2>1. SendData(n, f, TxIdle)
    BY <1>2 DEF SendSingleFrame
  <2>0. OthersSend(n)
    BY <2>1, SendDataShape
  <2>2. f \in Frame /\ f.type = "SF" /\ f.id = txAddress[n] /\ f.msg = m
    BY <1>1 DEF Frame, SingleFrame
  <2> HIDE DEF f
  <2>3. TxIdle.state = "Idle" /\ Holds(TxIdle, tx[n])
    BY DEF TxIdle, Holds
  <2>4. CASE tx'[n] = TxIdle /\ txChan'[n] = Append(txChan[n], f)
    BY <1>1, <2>0, <2>2, <2>3, <2>4 DEF Begins, Sends
  <2>5. CASE tx'[n] = TxIdle /\ txChan'[n] = txChan[n]
    BY <2>0, <2>3, <2>5 DEF Keeps, Sends
  <2> QED BY <2>1, <2>4, <2>5, SendDataShape
<1>3. CASE SendFirstFrame(n)
  <2> DEFINE f == [type |-> "FF", id |-> txAddress[n], msg |-> m]
             next == [tx[n] EXCEPT !.state = "WaitFC", !.msg = m, !.off = FirstChunk(m),
                                   !.seq = 1, !.timerFC = TRUE]
  <2>1. SendData(n, f, next) /\ ~FitsSingle(m)
    BY <1>3 DEF SendFirstFrame
  <2>0. OthersSend(n)
    BY <2>1, SendDataShape
  <2>2. f \in Frame /\ f.type = "FF" /\ f.id = txAddress[n] /\ f.msg = m
    BY <1>1, <2>1 DEF Frame, FirstFrame
  <2>3. next.msg = m /\ next.off = FirstChunk(m) /\ next.seq = 1
    BY Machines DEF TxMachine
  <2> HIDE DEF f, next
  <2>4. CASE tx'[n] = next /\ txChan'[n] = Append(txChan[n], f)
    BY <1>1, <2>0, <2>2, <2>3, <2>4 DEF Begins, Sends
  <2>5. CASE tx'[n] = TxIdle /\ txChan'[n] = txChan[n]
    BY <2>0, <2>5, Idling DEF Keeps, Sends
  <2> QED BY <2>1, <2>4, <2>5, SendDataShape
<1> QED BY <1>2, <1>3 DEF InitiateTx

LEMMA STminSends == ASSUME IInv, NEW n \in Node, STminFires(n) PROVE Sends(n)
<1> DEFINE m == tx[n].msg
           off == tx[n].off
           len == Min2(FrameLen - 1, Size[m] - off)
           f == [type |-> "CF", id |-> txAddress[n], msg |-> m,
                 sn |-> tx[n].seq, off |-> off, len |-> len]
           next == AfterConsecutiveFrame(n, off + len)
<1>1. tx[n] \in TxMachine /\ tx[n].state = "Transmit" /\ m \in Msg /\ off < Size[m]
  BY Machines DEF STminFires, TxGood
<1>2. off \in Nat /\ Size[m] \in Nat /\ txAddress[n] \in IDs
  BY <1>1, MsgAssumption DEF TxMachine, IInv, TypeOK
<1>3. len \in 0..(FrameLen - 1) /\ off + len \in Nat /\ off + len <= Size[m]
  BY <1>1, <1>2, FrameAssumption DEF Min2
<1>4. f \in Frame
  BY <1>1, <1>2, <1>3 DEF Frame, ConsecutiveFrame, TxMachine
<1>5. f.type = "CF" /\ f.id = txAddress[n] /\ f.msg = m /\ f.off = off /\ f.len = ChunkAt(m, off)
      /\ f.len = len
  BY DEF ChunkAt
<1>6. SendData(n, f, next)
  BY <1>1, <1>2 DEF STminFires
<1>0. OthersSend(n)
  BY <1>6, SendDataShape
<1>7. next.state # "Idle" =>
        /\ next.msg = m /\ next.off = off + len /\ next.off < Size[m]
        /\ next.seq = (tx[n].seq + 1) % SeqMod
  <2> DEFINE e == [tx[n] EXCEPT !.off = off + len, !.seq = (@ + 1) % SeqMod, !.block = @ + 1,
                                !.timerST = FALSE]
             Like(t) == t.msg = m /\ t.off = off + len /\ t.seq = (tx[n].seq + 1) % SeqMod
  <2>0. Like(AwaitFlowControl(e)) /\ Like([e EXCEPT !.timerST = TRUE])
    BY <1>1 DEF TxMachine, AwaitFlowControl
  <2>1. CASE off + len = Size[m]
    BY <2>1 DEF AfterConsecutiveFrame, TxIdle
  <2>2. CASE off + len # Size[m]
    <3>1. off + len < Size[m]
      BY <1>2, <1>3, <2>2
    <3>2. next = AwaitFlowControl(e) \/ next = [e EXCEPT !.timerST = TRUE]
      BY <2>2 DEF AfterConsecutiveFrame
    <3> HIDE DEF e, next
    <3>3. Like(next)
      BY <2>0, <3>2
    <3> QED BY <3>1, <3>3
  <2> QED BY <2>1, <2>2
<1> HIDE DEF f, next, len
<1>8. CASE tx'[n] = next /\ txChan'[n] = Append(txChan[n], f)
  BY <1>0, <1>1, <1>4, <1>5, <1>7, <1>8 DEF Advances, Sends
<1>9. CASE tx'[n] = TxIdle /\ txChan'[n] = txChan[n]
  BY <1>0, <1>9, Idling DEF Keeps, Sends
<1> QED BY <1>6, <1>8, <1>9, SendDataShape

\* Flow control moves the machine between its states and may end a transfer.
LEMMA FlowControlSends ==
  ASSUME IInv, NEW n \in Node,
         \/ RxLateFlowControl(n) \/ RxContinueToSend(n) \/ RxWait(n) \/ RxOverflow(n)
         \/ FlowControlTimeout(n)
  PROVE  Sends(n)
<1>1. txChan' = txChan
  BY DEF RxLateFlowControl, RxContinueToSend, RxWait, RxOverflow, FlowControlTimeout
<1>2. CASE RxLateFlowControl(n)
  BY <1>1, <1>2, KeepsStep DEF RxLateFlowControl, txVars, Holds
<1>3. CASE tx' = [tx EXCEPT ![n] = TxIdle]
  BY <1>1, <1>3, KeepsStep, Idling
<1>4. CASE RxContinueToSend(n)
  <2> DEFINE t == [tx[n] EXCEPT !.state = "Transmit", !.block = 0, !.wait = 0,
                                !.timerFC = FALSE, !.timerST = TRUE]
  <2>1. tx' = [tx EXCEPT ![n] = t] /\ tx[n].state = "WaitFC"
    BY <1>4 DEF RxContinueToSend
  <2>2. t.msg = tx[n].msg /\ t.off = tx[n].off /\ t.seq = tx[n].seq
    BY Machines DEF TxMachine
  <2> HIDE DEF t
  <2> QED BY <1>1, <2>1, <2>2, KeepsStep DEF Holds
<1>5. CASE RxWait(n) /\ tx' = [tx EXCEPT ![n] = [tx[n] EXCEPT !.wait = @ + 1, !.timerFC = TRUE]]
  <2> DEFINE t == [tx[n] EXCEPT !.wait = @ + 1, !.timerFC = TRUE]
  <2>1. tx' = [tx EXCEPT ![n] = t] /\ tx[n].state = "WaitFC"
    BY <1>5 DEF RxWait
  <2>2. t.msg = tx[n].msg /\ t.off = tx[n].off /\ t.seq = tx[n].seq
    BY Machines DEF TxMachine
  <2> HIDE DEF t
  <2> QED BY <1>1, <2>1, <2>2, KeepsStep DEF Holds
<1> QED BY <1>2, <1>3, <1>4, <1>5 DEF RxWait, RxOverflow, FlowControlTimeout

\* sendFlowControl queues a flow control frame, or nothing.
LEMMA FlowControlQueued ==
  ASSUME IInv, NEW n \in Node, NEW next, SendFlowControl(n, next)
  PROVE  txChan' = txChan \/ \E f \in Frame : f.type = "FC" /\ Queue(n, f)
<1> DEFINE fc == [type |-> "FC", id |-> "base", status |-> "CTS", bs |-> BlockSize[n]]
<1>1. fc \in Frame /\ fc.type = "FC"
  BY ConfigAssumption DEF Frame, FlowControlFrame, IDs, Statuses
<1> QED BY <1>1 DEF SendFlowControl

LEMMA SessionSends == ASSUME IInv, NEW n \in Node, App(n) \/ Run(n) PROVE Sends(n)
<1>0. Holds(tx[n], tx[n])
  BY DEF Holds
<1>1. CASE App(n)
  <2>1. tx' = tx /\ txChan' = txChan
    BY <1>1 DEF App, SendContext, SetTxAddress, Receive, ReadError, Close, txVars
  <2> QED BY <1>0, <2>1, KeepsStep
<1>2. CASE InitiateTx(n)
  BY <1>2, InitiateSends
<1>3. CASE STminFires(n)
  BY <1>3, STminSends
<1>4. CASE RxForeign(n) \/ RxBad(n) \/ RxSingleFrame(n) \/ RxFirstFrameTooLarge(n)
           \/ RxStrayConsecutiveFrame(n) \/ RxWrongSequence(n) \/ RxLastConsecutiveFrame(n)
           \/ ConsecutiveFrameTimeout(n)
  <2>1. tx' = tx /\ txChan' = txChan
    BY <1>4 DEF RxForeign, RxBad, RxSingleFrame, RxFirstFrameTooLarge, RxStrayConsecutiveFrame,
                RxWrongSequence, RxLastConsecutiveFrame, ConsecutiveFrameTimeout, txVars
  <2> QED BY <1>0, <2>1, KeepsStep
<1>5. CASE RxFirstFrame(n) \/ RxConsecutiveFrame(n)
  <2>1. tx' = tx
    BY <1>5 DEF RxFirstFrame, RxConsecutiveFrame, txVars
  <2>2. txChan' = txChan \/ \E next : SendFlowControl(n, next)
    BY <1>5 DEF RxFirstFrame, RxConsecutiveFrame
  <2>3. txChan' = txChan \/ \E f \in Frame : f.type = "FC" /\ Queue(n, f)
    BY <2>2, FlowControlQueued
  <2> QED BY <1>0, <2>1, <2>3, KeepsStep
<1>6. CASE \/ RxLateFlowControl(n) \/ RxContinueToSend(n) \/ RxWait(n) \/ RxOverflow(n)
           \/ FlowControlTimeout(n)
  BY <1>6, FlowControlSends
<1> QED BY <1>1, <1>2, <1>3, <1>4, <1>5, <1>6 DEF Run, ProcessRx, Timeouts

-----------------------------------------------------------------------------
\* The sequence number counts the consecutive frames, modulo SeqMod.

\* Modulo is what is left after taking out a multiple.
LEMMA Remainder ==
  ASSUME NEW m \in Nat \ {0}, NEW q \in Nat, NEW r \in 0..(m - 1)
  PROVE  (m * q + r) % m = r
<1> DEFINE a == m * q + r
           d == a \div m
           s == a % m
<1>1. a \in Nat
  OBVIOUS
<1>2. d \in Nat /\ s \in 0..(m - 1) /\ a = m * d + s
  BY <1>1
<1> HIDE DEF d, s
<1>3. ~(d < q)
  <2> SUFFICES ASSUME d < q PROVE FALSE
    OBVIOUS
  <2>1. PICK c \in Nat : q = d + 1 + c
    <3>1. q - d - 1 \in Nat /\ q = d + 1 + (q - d - 1)
      BY <1>2
    <3> QED BY <3>1
  <2>2. m * q = m * d + m + m * c /\ m * c \in Nat
    BY <1>2, <2>1
  <2> QED BY <1>2, <2>2
<1>4. ~(q < d)
  <2> SUFFICES ASSUME q < d PROVE FALSE
    OBVIOUS
  <2>1. PICK c \in Nat : d = q + 1 + c
    <3>1. d - q - 1 \in Nat /\ d = q + 1 + (d - q - 1)
      BY <1>2
    <3> QED BY <3>1
  <2>2. m * d = m * q + m + m * c /\ m * c \in Nat
    BY <1>2, <2>1
  <2> QED BY <1>2, <2>2
<1>5. d = q
  BY <1>2, <1>3, <1>4
<1>6. s = r
  BY <1>2, <1>5
<1> QED BY <1>6 DEF s

LEMMA NextModulo ==
  ASSUME NEW a \in Nat PROVE ((a % SeqMod) + 1) % SeqMod = (a + 1) % SeqMod
<1> DEFINE q == a \div SeqMod
           r == a % SeqMod
<1>1. q \in Nat /\ r \in 0..(SeqMod - 1) /\ a = SeqMod * q + r /\ SeqMod \in Nat \ {0}
  BY FrameAssumption
<1> HIDE DEF q, r
<1>2. CASE r + 1 < SeqMod
  <2>1. r + 1 \in 0..(SeqMod - 1) /\ a + 1 = SeqMod * q + (r + 1)
    BY <1>1, <1>2
  <2>2. (a + 1) % SeqMod = r + 1
    BY <1>1, <2>1, Remainder
  <2>3. (SeqMod * 0 + (r + 1)) % SeqMod = r + 1
    BY <1>1, <2>1, Remainder
  <2>4. SeqMod * 0 + (r + 1) = r + 1
    BY <1>1
  <2> QED BY <2>2, <2>3, <2>4 DEF r
<1>3. CASE ~(r + 1 < SeqMod)
  <2>1. r + 1 = SeqMod
    BY <1>1, <1>3
  <2>2. a + 1 = SeqMod * (q + 1) + 0 /\ r + 1 = SeqMod * 1 + 0 /\ 0 \in 0..(SeqMod - 1)
    BY <1>1, <2>1
  <2>3. (SeqMod * (q + 1) + 0) % SeqMod = 0
    BY <1>1, <2>2, Remainder
  <2>4. (SeqMod * 1 + 0) % SeqMod = 0
    BY <1>1, <2>2, Remainder
  <2> QED BY <2>2, <2>3, <2>4 DEF r
<1> QED BY <1>2, <1>3

\* Where transmit machine t is in its payload, with the sequence number it is due.
InProgress(t) ==
  t.state # "Idle" =>
    \E k \in 0..Size[t.msg] :
      t.off = FirstChunk(t.msg) + k * (FrameLen - 1) /\ t.seq = (k + 1) % SeqMod

LEMMA ProgressStep ==
  ASSUME IInv, IInv', NEW n \in Node, Sends(n), InProgress(tx[n])
  PROVE  InProgress(tx'[n])
<1> SUFFICES ASSUME tx'[n].state # "Idle" PROVE InProgress(tx'[n])
  BY DEF InProgress
<1>1. CASE Keeps(n)
  BY <1>1 DEF InProgress, Keeps, Holds
<1>2. CASE Begins(n)
  <2>1. /\ tx'[n].msg \in Msg /\ tx'[n].off = FirstChunk(tx'[n].msg) /\ tx'[n].seq = 1
    <3>1. Head(txDataChan[n]) \in Msg
      BY <1>2, Machines DEF Begins
    <3> QED BY <1>2, <3>1 DEF Begins
  <2>2. Size[tx'[n].msg] \in Nat /\ FirstChunk(tx'[n].msg) \in Nat
    BY <2>1, MsgAssumption, FirstChunkNat
  <2>3. tx'[n].off = FirstChunk(tx'[n].msg) + 0 * (FrameLen - 1)
    BY <2>1, <2>2, FrameAssumption
  <2>4. 1 = (0 + 1) % SeqMod
    BY FrameAssumption
  <2> QED BY <2>1, <2>2, <2>3, <2>4 DEF InProgress
<1>3. CASE Advances(n)
  <2> DEFINE m == tx[n].msg
  <2>1. m \in Msg /\ tx[n].off \in Nat /\ Size[m] \in Nat /\ FirstChunk(m) \in Nat
        /\ tx[n].state # "Idle" /\ tx[n].off < Size[m]
    BY <1>3, Machines, MsgAssumption, FirstChunkNat DEF Advances, TxGood, TxMachine
  <2>2. /\ tx'[n].msg = m /\ tx'[n].off = tx[n].off + ChunkAt(m, tx[n].off)
        /\ tx'[n].off < Size[m] /\ tx'[n].seq = (tx[n].seq + 1) % SeqMod
    BY <1>3 DEF Advances
  <2>3. tx'[n].off = tx[n].off + (FrameLen - 1)
    BY <2>1, <2>2, FrameAssumption DEF ChunkAt, Min2
  <2>4. PICK k \in 0..Size[m] :
          tx[n].off = FirstChunk(m) + k * (FrameLen - 1) /\ tx[n].seq = (k + 1) % SeqMod
    BY <2>1 DEF InProgress
  <2>5. tx'[n].off = FirstChunk(m) + (k + 1) * (FrameLen - 1)
    BY <2>1, <2>3, <2>4, FrameAssumption
  <2>6. k + 1 \in 0..Size[m]
    BY <2>1, <2>2, <2>4, <2>5, FrameAssumption
  <2>7. tx'[n].seq = ((k + 1) + 1) % SeqMod
    BY <2>2, <2>4, NextModulo
  <2> QED BY <2>2, <2>5, <2>6, <2>7 DEF InProgress
<1> QED BY <1>1, <1>2, <1>3 DEF Sends

\* A transfer in progress has bytes left to send, at a frame boundary, and its
\* sequence number is the number of frames sent so far, whatever the bus loses.
THEOREM SenderIsInStep == Spec => []SenderProgress
<1> DEFINE PInv == IInv /\ \A n \in Node : InProgress(tx[n])
<1>1. Init => PInv
  <2> SUFFICES ASSUME Init PROVE PInv
    OBVIOUS
  <2> QED BY InitIInv DEF Init, InProgress, TxIdle
<1>2. PInv /\ [Next]_vars => PInv'
  <2> SUFFICES ASSUME PInv, [Next]_vars PROVE PInv'
    OBVIOUS
  <2>1. IInv'
    BY Inductive
  <2> SUFFICES ASSUME NEW k \in Node PROVE InProgress(tx'[k])
    BY <2>1
  <2>2. CASE UNCHANGED vars
    BY <2>2 DEF vars, txVars
  <2>3. ASSUME NEW n \in Node, App(n) \/ Run(n) PROVE InProgress(tx'[k])
    <3>1. Sends(n)
      BY <2>3, SessionSends
    <3>2. CASE k = n
      BY <2>1, <3>1, <3>2, ProgressStep
    <3>3. CASE k # n
      BY <3>1, <3>3 DEF Sends, OthersSend
    <3> QED BY <3>2, <3>3
  <2>4. ASSUME NEW n \in Node, FinishClose(n) PROVE InProgress(tx'[k])
    <3> DEFINE t == [tx[n] EXCEPT !.timerFC = FALSE, !.timerST = FALSE]
    <3>1. tx' = [tx EXCEPT ![n] = t]
      BY <2>4 DEF FinishClose
    <3>2. t.state = tx[n].state /\ t.msg = tx[n].msg /\ t.off = tx[n].off /\ t.seq = tx[n].seq
      BY Machines DEF TxMachine
    <3> HIDE DEF t
    <3>3. InProgress(t)
      BY <3>2 DEF InProgress
    <3> QED BY <3>1, <3>3, TxAt
  <2>5. ASSUME NEW n \in Node, Bus(n) PROVE InProgress(tx'[k])
    BY <2>5 DEF Bus, Transfer, DropAtSubscriber, Lose, SendFails, Inject, txVars
  <2> QED BY <2>2, <2>3, <2>4, <2>5 DEF Next
<1>3. PInv => SenderProgress
  <2> SUFFICES ASSUME PInv, NEW n \in Node, tx[n].state # "Idle"
               PROVE  /\ tx[n].msg \in Msg /\ tx[n].off < Size[tx[n].msg]
                      /\ \E k \in 0..Size[tx[n].msg] :
                           /\ tx[n].off = FirstChunk(tx[n].msg) + k * (FrameLen - 1)
                           /\ tx[n].seq = (k + 1) % SeqMod
    BY DEF SenderProgress
  <2>1. tx[n].msg \in Msg /\ tx[n].off < Size[tx[n].msg]
    BY Machines DEF TxGood
  <2> QED BY <2>1 DEF InProgress
<1> QED BY <1>1, <1>2, <1>3, PTL DEF Spec

-----------------------------------------------------------------------------
\* Queues of frames and the positions around them.

LEMMA AfterTyped ==
  ASSUME NEW x \in Position, NEW f \in Frame PROVE After(x, f) \in Position
<1>1. CASE f.type = "FF"
  <2>1. f.msg \in Msg
    BY <1>1, Kinds
  <2> QED BY <1>1, <2>1, FirstChunkNat DEF After, Position
<1>2. CASE f.type = "CF"
  <2>1. f.msg \in Msg /\ f.off + f.len \in Nat
    BY <1>2, Kinds, FrameAssumption
  <2> QED BY <1>2, <2>1 DEF After, Position
<1> QED BY <1>1, <1>2 DEF After

LEMMA TurnAppend ==
  ASSUME NEW n, NEW q \in Seq(Frame), NEW e, InTurn(e, q, n),
         NEW f \in Frame, Continues(e[Len(e)], f, n)
  PROVE  LET h == Append(e, After(e[Len(e)], f))
         IN InTurn(h, Append(q, f), n) /\ h[1] = e[1] /\ h[Len(h)] = After(e[Len(e)], f)
<1> DEFINE x == After(e[Len(e)], f)
           h == Append(e, x)
           r == Append(q, f)
<1>1. e \in Seq(Position) /\ Len(e) = Len(q) + 1 /\ Len(q) \in Nat
  BY DEF InTurn
<1>2. x \in Position
  BY <1>1, AfterTyped
<1> HIDE DEF x
<1>3. /\ h \in Seq(Position) /\ Len(h) = Len(e) + 1 /\ h[Len(h)] = x
      /\ \A i \in 1..Len(e) : h[i] = e[i]
  BY <1>1, <1>2
<1>4. r \in Seq(Frame) /\ Len(r) = Len(q) + 1 /\ r[Len(r)] = f /\ \A i \in 1..Len(q) : r[i] = q[i]
  OBVIOUS
<1> HIDE DEF h, r
<1>5. ASSUME NEW i \in 1..Len(r) PROVE Continues(h[i], r[i], n) /\ h[i + 1] = After(h[i], r[i])
  <2>1. CASE i = Len(r)
    <3>1. h[i] = e[Len(e)] /\ r[i] = f /\ h[i + 1] = x
      BY <1>1, <1>3, <1>4, <2>1
    <3> QED BY <3>1 DEF x
  <2>2. CASE i # Len(r)
    <3>1. i \in 1..Len(q) /\ i \in 1..Len(e) /\ i + 1 \in 1..Len(e)
      BY <1>1, <1>4, <2>2
    <3>2. h[i] = e[i] /\ h[i + 1] = e[i + 1] /\ r[i] = q[i]
      BY <1>3, <1>4, <3>1
    <3> QED BY <3>1, <3>2 DEF InTurn
  <2> QED BY <2>1, <2>2
<1>6. InTurn(h, r, n) /\ h[1] = e[1]
  BY <1>1, <1>3, <1>4, <1>5 DEF InTurn
<1> QED BY <1>3, <1>6 DEF h, r, x

LEMMA TurnTail ==
  ASSUME NEW n, NEW q \in Seq(Frame), q # <<>>, NEW e, InTurn(e, q, n)
  PROVE  /\ InTurn(Tail(e), Tail(q), n)
         /\ Tail(e)[1] = After(e[1], Head(q)) /\ Continues(e[1], Head(q), n)
         /\ Tail(e)[Len(Tail(e))] = e[Len(e)]
<1> DEFINE h == Tail(e)
           r == Tail(q)
<1>1. e \in Seq(Position) /\ Len(e) = Len(q) + 1 /\ Len(q) \in Nat /\ Len(q) >= 1
  BY DEF InTurn
<1>2. h \in Seq(Position) /\ Len(h) = Len(e) - 1 /\ \A i \in 1..Len(h) : h[i] = e[i + 1]
  BY <1>1
<1>3. r \in Seq(Frame) /\ Len(r) = Len(q) - 1 /\ (\A i \in 1..Len(r) : r[i] = q[i + 1])
      /\ Head(q) = q[1]
  BY <1>1
<1> HIDE DEF h, r
<1>4. ASSUME NEW i \in 1..Len(r) PROVE Continues(h[i], r[i], n) /\ h[i + 1] = After(h[i], r[i])
  <2>1. i + 1 \in 1..Len(q) /\ i \in 1..Len(h) /\ i + 1 \in 1..Len(h)
    BY <1>1, <1>2, <1>3
  <2>2. h[i] = e[i + 1] /\ h[i + 1] = e[(i + 1) + 1] /\ r[i] = q[i + 1]
    BY <1>2, <1>3, <2>1
  <2>3. Continues(e[i + 1], q[i + 1], n) /\ e[(i + 1) + 1] = After(e[i + 1], q[i + 1])
    BY <2>1 DEF InTurn
  <2> QED BY <2>2, <2>3
<1>5. InTurn(h, r, n)
  BY <1>1, <1>2, <1>3, <1>4 DEF InTurn
<1>6. h[1] = After(e[1], Head(q)) /\ Continues(e[1], Head(q), n)
  <2>1. 1 \in 1..Len(q) /\ 1 \in 1..Len(h)
    BY <1>1, <1>2
  <2>2. h[1] = e[1 + 1]
    BY <1>2, <2>1
  <2> QED BY <1>3, <2>1, <2>2 DEF InTurn
<1>7. h[Len(h)] = e[Len(e)]
  BY <1>1, <1>2
<1> QED BY <1>5, <1>6, <1>7 DEF h, r

\* A frame that carries no data changes no position.
LEMMA TurnSame ==
  ASSUME NEW n, NEW q \in Seq(Frame), NEW e, InTurn(e, q, n),
         NEW f \in Frame, f.type \notin DataTypes
  PROVE  \E h : /\ InTurn(h, Append(q, f), n)
                /\ h[1] = e[1] /\ h[Len(h)] = e[Len(e)]
<1>1. Continues(e[Len(e)], f, n) /\ After(e[Len(e)], f) = e[Len(e)]
  BY DEF Continues, After, DataTypes
<1> DEFINE h == Append(e, After(e[Len(e)], f))
<1>2. InTurn(h, Append(q, f), n) /\ h[1] = e[1] /\ h[Len(h)] = After(e[Len(e)], f)
  BY <1>1, TurnAppend
<1> HIDE DEF h
<1> QED BY <1>1, <1>2

\* The stream after a step of its sender ...
LEMMA SentAhead ==
  ASSUME IInv, IInv', Sources, NEW n \in Node, Sends(n),
         NEW e, Behind(n, tx[n], txChan[n], e)
  PROVE  \E h : Behind(n, tx'[n], txChan'[n], h) /\ h[1] = e[1]
<1> DEFINE x == e[Len(e)]
           t == tx'[n]
<1>1. InTurn(e, txChan[n], n) /\ txChan[n] \in Seq(Frame)
  BY Machines DEF Behind
<1>2. ASSUME NEW f \in Frame, txChan'[n] = Append(txChan[n], f), Continues(x, f, n),
             t.state # "Idle" => After(x, f) = [msg |-> t.msg, off |-> t.off]
      PROVE  \E h : Behind(n, tx'[n], txChan'[n], h) /\ h[1] = e[1]
  <2> DEFINE h == Append(e, After(x, f))
  <2>1. InTurn(h, Append(txChan[n], f), n) /\ h[1] = e[1] /\ h[Len(h)] = After(x, f)
    BY <1>1, <1>2, TurnAppend
  <2> HIDE DEF h, x
  <2> QED BY <1>2, <2>1 DEF Behind
<1>3. CASE Keeps(n)
  <2>1. t.state # "Idle" => x = [msg |-> t.msg, off |-> t.off]
    BY <1>3 DEF Keeps, Holds, Behind
  <2>2. CASE txChan'[n] = txChan[n]
    BY <1>1, <2>1, <2>2 DEF Behind
  <2>3. CASE \E f \in Frame : f.type = "FC" /\ txChan'[n] = Append(txChan[n], f)
    <3> PICK f \in Frame : f.type = "FC" /\ txChan'[n] = Append(txChan[n], f)
      BY <2>3
    <3>1. Continues(x, f, n) /\ After(x, f) = x
      BY DEF Continues, After, DataTypes
    <3> HIDE DEF x, t
    <3> QED BY <1>2, <2>1, <3>1 DEF t
  <2> QED BY <1>3, <2>2, <2>3 DEF Keeps
<1>4. CASE Begins(n)
  <2> PICK f \in Frame :
         /\ f.id = txAddress[n] /\ f.msg = Head(txDataChan[n])
         /\ txChan'[n] = Append(txChan[n], f)
         /\ \/ f.type = "SF" /\ tx'[n].state = "Idle"
            \/ /\ f.type = "FF" /\ tx'[n].msg = f.msg
               /\ tx'[n].off = FirstChunk(f.msg) /\ tx'[n].seq = 1
    BY <1>4 DEF Begins
  <2>1. f.id = "base" /\ Source[f.msg] = n
    <3>1. txDataChan[n] # <<>> /\ txDataChan[n] \in Seq(Msg)
      BY <1>4, Machines DEF Begins
    <3>2. 1 \in 1..Len(txDataChan[n]) /\ Head(txDataChan[n]) = txDataChan[n][1]
      BY <3>1
    <3> QED BY <3>2 DEF Sources
  <2>2. Continues(x, f, n)
    BY <2>1 DEF Continues
  <2>3. t.state # "Idle" => After(x, f) = [msg |-> t.msg, off |-> t.off]
    BY DEF After
  <2> HIDE DEF x, t
  <2> QED BY <1>2, <2>2, <2>3
<1>5. CASE Advances(n)
  <2> PICK f \in Frame :
       /\ f.type = "CF" /\ f.id = txAddress[n] /\ f.msg = tx[n].msg
       /\ f.off = tx[n].off /\ f.len = ChunkAt(f.msg, f.off)
       /\ txChan'[n] = Append(txChan[n], f)
       /\ tx'[n].state # "Idle" =>
            /\ tx'[n].msg = tx[n].msg /\ tx'[n].off = f.off + f.len
            /\ tx'[n].off < Size[tx[n].msg] /\ tx'[n].seq = (tx[n].seq + 1) % SeqMod
    BY <1>5 DEF Advances
  <2>1. tx[n].state # "Idle" /\ tx[n].off < Size[tx[n].msg]
    BY <1>5 DEF Advances
  <2>2. f.id = "base" /\ Source[f.msg] = n /\ x = [msg |-> f.msg, off |-> f.off]
    BY <2>1 DEF Sources, Behind
  <2>3. Continues(x, f, n)
    BY <2>1, <2>2 DEF Continues
  <2>4. t.state # "Idle" => After(x, f) = [msg |-> t.msg, off |-> t.off]
    BY DEF After
  <2> HIDE DEF x, t
  <2> QED BY <1>2, <2>3, <2>4
<1> QED BY <1>3, <1>4, <1>5 DEF Sends

\* What a step of one session does to its receive side: it leaves the inbox alone ...
Stays(n) == /\ inbox'[n] = inbox[n] /\ delivered'[n] = delivered[n]
            /\ rx'[n].state = "Idle" \/ rx'[n] = rx[n]

\* ... or takes frame f: it is no data for the session, ends the reception,
\* starts one, is a payload of its own, or a part of one, perhaps the last.
Starts(r, m) == /\ r.state = "WaitCF" /\ r.msg = m
                /\ r.len = FirstChunk(m) /\ r.frameLen = Size[m]

Extends(n, f) == LET a == Appended(n, f) IN
  /\ a.len < rx[n].frameLen
  /\ rx'[n].state = "WaitCF" /\ rx'[n].msg = a.msg
  /\ rx'[n].len = a.len /\ rx'[n].frameLen = rx[n].frameLen

Takes(n, f) ==
  /\ inbox[n] # <<>> /\ f = Head(inbox[n]) /\ inbox'[n] = Tail(inbox[n])
  /\ \/ rx'[n].state = "Idle" /\ delivered'[n] = delivered[n]
     \/ /\ f.type \notin DataTypes \/ f.id # "base"
        /\ rx'[n] = rx[n] /\ delivered'[n] = delivered[n]
     \/ f.type = "FF" /\ Starts(rx'[n], f.msg) /\ delivered'[n] = delivered[n]
     \/ /\ f.type = "SF" /\ rx'[n].state = "Idle"
        /\ delivered'[n] = Append(delivered[n], [msg |-> f.msg, len |-> Size[f.msg]])
     \/ /\ f.type = "CF" /\ rx[n].state = "WaitCF"
        /\ Extends(n, f) /\ delivered'[n] = delivered[n]
     \/ /\ f.type = "CF" /\ rx[n].state = "WaitCF" /\ rx'[n].state = "Idle"
        /\ Appended(n, f).len >= rx[n].frameLen
        /\ delivered'[n] = Append(delivered[n],
                                  [msg |-> Appended(n, f).msg, len |-> Appended(n, f).len])

OthersReceive(n) == \A k \in Node \ {n} :
  rx'[k] = rx[k] /\ inbox'[k] = inbox[k] /\ delivered'[k] = delivered[k]

Receives(n) == (Stays(n) \/ Takes(n, Head(inbox[n]))) /\ OthersReceive(n)

LEMMA NextFrameShape ==
  ASSUME IInv, NEW n \in Node, NEW type, NextFrame(n, type)
  PROVE  /\ inbox[n] # <<>> /\ inbox'[n] = Tail(inbox[n])
         /\ Head(inbox[n]).type = type /\ Head(inbox[n]).id = "base"
         /\ \A k \in Node \ {n} : inbox'[k] = inbox[k]
BY InboxAt DEF NextFrame

LEMMA DeliverShape ==
  ASSUME IInv, NEW n \in Node, NEW d, NEW k, NEW ms, Deliver(n, d, k, ms)
  PROVE  /\ delivered'[n] = delivered[n] \/ delivered'[n] = Append(delivered[n], d)
         /\ \A j \in Node \ {n} : delivered'[j] = delivered[j]
<1>1. delivered' = delivered \/ delivered' = [delivered EXCEPT ![n] = Append(delivered[n], d)]
  BY DEF Deliver
<1>2. CASE delivered' = delivered
  BY <1>2
<1>3. CASE delivered' = [delivered EXCEPT ![n] = Append(delivered[n], d)]
  BY <1>3, DeliveredAt
<1> QED BY <1>1, <1>2, <1>3

LEMMA IdleState == RxIdle.state = "Idle"
BY DEF RxIdle

LEMMA StopShape ==
  ASSUME IInv, NEW n \in Node, rx' = [rx EXCEPT ![n] = RxIdle]
  PROVE  rx'[n].state = "Idle" /\ \A k \in Node \ {n} : rx'[k] = rx[k]
<1>1. rx'[n] = RxIdle /\ \A k \in Node \ {n} : rx'[k] = rx[k]
  BY RxAt
<1> QED BY <1>1, IdleState

\* The receive machine stops: it ends Idle, whatever it took.
LEMMA StopsStep ==
  ASSUME IInv, NEW n \in Node, rx' = [rx EXCEPT ![n] = RxIdle], delivered' = delivered,
         \/ inbox' = inbox
         \/ \E type : NextFrame(n, type)
  PROVE  Receives(n)
<1>1. rx'[n].state = "Idle" /\ \A k \in Node \ {n} : rx'[k] = rx[k]
  BY StopShape
<1>2. CASE inbox' = inbox
  BY <1>1, <1>2 DEF Receives, Stays, OthersReceive
<1>3. CASE \E type : NextFrame(n, type)
  <2>1. /\ inbox[n] # <<>> /\ inbox'[n] = Tail(inbox[n])
        /\ \A k \in Node \ {n} : inbox'[k] = inbox[k]
    BY <1>3, NextFrameShape
  <2> QED BY <1>1, <2>1 DEF Receives, Takes, OthersReceive
<1> QED BY <1>2, <1>3

\* The frame is ignored.
LEMMA IgnoresStep ==
  ASSUME IInv, NEW n \in Node, rx' = rx, delivered' = delivered,
         inbox[n] # <<>>, inbox' = [inbox EXCEPT ![n] = Tail(inbox[n])],
         \/ Head(inbox[n]).type \notin DataTypes
         \/ Head(inbox[n]).id # "base"
         \/ rx[n].state = "Idle"
  PROVE  Receives(n)
<1>1. inbox'[n] = Tail(inbox[n]) /\ \A k \in Node \ {n} : inbox'[k] = inbox[k]
  BY InboxAt
<1> QED BY <1>1 DEF Receives, Takes, OthersReceive

LEMMA FlowControlShape ==
  ASSUME IInv, NEW n \in Node, NEW next, SendFlowControl(n, next)
  PROVE  /\ rx'[n] = next \/ rx'[n].state = "Idle"
         /\ \A k \in Node \ {n} : rx'[k] = rx[k]
<1>1. rx' = [rx EXCEPT ![n] = next] \/ rx' = [rx EXCEPT ![n] = RxIdle]
  BY DEF SendFlowControl
<1>2. CASE rx' = [rx EXCEPT ![n] = next]
  BY <1>2, RxAt
<1>3. CASE rx' = [rx EXCEPT ![n] = RxIdle]
  BY <1>3, StopShape
<1> QED BY <1>1, <1>2, <1>3

LEMMA FirstReceives == ASSUME IInv, NEW n \in Node, RxFirstFrame(n) PROVE Receives(n)
<1> DEFINE f == Head(inbox[n])
<1>1. /\ NextFrame(n, "FF") /\ SendFlowControl(n, Reception(n, f.msg))
      /\ delivered' = delivered
  BY DEF RxFirstFrame
<1>2. Starts(Reception(n, f.msg), f.msg)
  BY DEF Reception, RxIdle, Starts
<1>3. /\ inbox[n] # <<>> /\ inbox'[n] = Tail(inbox[n]) /\ f.type = "FF"
      /\ \A k \in Node \ {n} : inbox'[k] = inbox[k]
  BY <1>1, NextFrameShape
<1>4. /\ Starts(rx'[n], f.msg) \/ rx'[n].state = "Idle"
      /\ \A k \in Node \ {n} : rx'[k] = rx[k]
  BY <1>1, <1>2, FlowControlShape
<1> QED BY <1>1, <1>3, <1>4 DEF Receives, Takes, OthersReceive

LEMMA SingleReceives == ASSUME IInv, NEW n \in Node, RxSingleFrame(n) PROVE Receives(n)
<1> DEFINE f == Head(inbox[n])
           d == [msg |-> f.msg, len |-> Size[f.msg]]
<1>1. /\ NextFrame(n, "SF") /\ rx' = [rx EXCEPT ![n] = RxIdle]
      /\ Deliver(n, d, Interrupted(n), {rx[n].msg})
  BY DEF RxSingleFrame
<1>2. /\ inbox[n] # <<>> /\ inbox'[n] = Tail(inbox[n]) /\ f.type = "SF"
      /\ \A k \in Node \ {n} : inbox'[k] = inbox[k]
  BY <1>1, NextFrameShape
<1>3. rx'[n].state = "Idle" /\ \A k \in Node \ {n} : rx'[k] = rx[k]
  BY <1>1, StopShape
<1>4. /\ delivered'[n] = delivered[n] \/ delivered'[n] = Append(delivered[n], d)
      /\ \A k \in Node \ {n} : delivered'[k] = delivered[k]
  BY <1>1, DeliverShape
<1> QED BY <1>2, <1>3, <1>4 DEF Receives, Takes, OthersReceive

LEMMA LastReceives == ASSUME IInv, NEW n \in Node, RxLastConsecutiveFrame(n) PROVE Receives(n)
<1> DEFINE f == Head(inbox[n])
           r == Appended(n, f)
           d == [msg |-> r.msg, len |-> r.len]
<1>1. /\ NextFrame(n, "CF") /\ rx' = [rx EXCEPT ![n] = RxIdle] /\ rx[n].state = "WaitCF"
      /\ Deliver(n, d, 0, {}) /\ r.len >= r.frameLen
  BY DEF RxLastConsecutiveFrame, InSequence
<1>2. /\ inbox[n] # <<>> /\ inbox'[n] = Tail(inbox[n]) /\ f.type = "CF"
      /\ \A k \in Node \ {n} : inbox'[k] = inbox[k]
  BY <1>1, NextFrameShape
<1>3. rx'[n].state = "Idle" /\ \A k \in Node \ {n} : rx'[k] = rx[k]
  BY <1>1, StopShape
<1>4. /\ delivered'[n] = delivered[n] \/ delivered'[n] = Append(delivered[n], d)
      /\ \A k \in Node \ {n} : delivered'[k] = delivered[k]
  BY <1>1, DeliverShape
<1>5. r.frameLen = rx[n].frameLen
  BY Machines DEF Appended, RxMachine
<1> HIDE DEF r
<1> QED BY <1>1, <1>2, <1>3, <1>4, <1>5 DEF Receives, Takes, OthersReceive, r

LEMMA PartReceives == ASSUME IInv, NEW n \in Node, RxConsecutiveFrame(n) PROVE Receives(n)
<1> DEFINE f == Head(inbox[n])
           r == Appended(n, f)
           Like(s) == /\ s.state = "WaitCF" /\ s.msg = r.msg /\ s.len = r.len
                      /\ s.frameLen = rx[n].frameLen
<1>1. /\ NextFrame(n, "CF") /\ rx[n].state = "WaitCF" /\ r.len < r.frameLen
      /\ delivered' = delivered /\ inbox[n] # <<>> /\ Running(n)
  BY DEF RxConsecutiveFrame, InSequence, NextFrame
<1>2. /\ inbox'[n] = Tail(inbox[n]) /\ f.type = "CF"
      /\ \A k \in Node \ {n} : inbox'[k] = inbox[k]
  BY <1>1, NextFrameShape
<1>3. r \in RxMachine /\ r.state = "WaitCF" /\ r.frameLen = rx[n].frameLen
  <2>1. f \in Frame
    BY <1>1, RestHolds, HeadTyped
  <2> QED BY <1>1, <1>2, <2>1, AppendedTyped
<1>4. /\ SendFlowControl(n, [r EXCEPT !.block = 0])
         \/ rx' = [rx EXCEPT ![n] = [r EXCEPT !.block = r.block + 1]]
  BY DEF RxConsecutiveFrame
<1> HIDE DEF r
<1>5. \A b : Like([r EXCEPT !.block = b])
  BY <1>3 DEF RxMachine
<1> HIDE DEF Like
<1>6. /\ Like(rx'[n]) \/ rx'[n].state = "Idle"
      /\ \A k \in Node \ {n} : rx'[k] = rx[k]
  <2>1. CASE SendFlowControl(n, [r EXCEPT !.block = 0])
    <3>1. Like([r EXCEPT !.block = 0])
      BY <1>5
    <3> QED BY <2>1, <3>1, FlowControlShape
  <2>2. CASE rx' = [rx EXCEPT ![n] = [r EXCEPT !.block = r.block + 1]]
    <3> DEFINE s == [r EXCEPT !.block = r.block + 1]
    <3>1. Like(s) /\ rx' = [rx EXCEPT ![n] = s]
      BY <1>5, <2>2
    <3> HIDE DEF s
    <3>2. rx'[n] = s /\ \A k \in Node \ {n} : rx'[k] = rx[k]
      BY <3>1, RxAt
    <3> QED BY <3>1, <3>2
  <2> QED BY <1>4, <2>1, <2>2
<1>7. Like(rx'[n]) => Extends(n, f)
  BY <1>1, <1>3 DEF Like, Extends, r
<1> QED BY <1>1, <1>2, <1>6, <1>7 DEF Receives, Takes, OthersReceive

LEMMA SessionReceives == ASSUME IInv, NEW n \in Node, App(n) \/ Run(n) PROVE Receives(n)
<1>1. CASE App(n) \/ InitiateTx(n) \/ STminFires(n) \/ FlowControlTimeout(n)
  <2>1. UNCHANGED <<rx, inbox, delivered>>
    <3>1. CASE App(n)
      BY <3>1 DEF App, SendContext, SetTxAddress, Receive, ReadError, Close, rxVars
    <3>2. CASE InitiateTx(n) \/ STminFires(n) \/ FlowControlTimeout(n)
      BY <3>2 DEF InitiateTx, SendSingleFrame, SendFirstFrame, STminFires, FlowControlTimeout,
           rxVars
    <3> QED BY <1>1, <3>1, <3>2
  <2> QED BY <2>1 DEF Receives, Stays, OthersReceive
<1>2. CASE RxForeign(n)
  BY <1>2, IgnoresStep DEF RxForeign, rxVars
<1>3. CASE RxBad(n) \/ RxLateFlowControl(n) \/ RxContinueToSend(n) \/ RxWait(n) \/ RxOverflow(n)
  <2>1. \/ NextFrame(n, "BAD") \/ NextFrame(n, "FC")
    BY <1>3 DEF RxBad, RxLateFlowControl, RxContinueToSend, RxWait, RxOverflow, FlowControl
  <2>2. rx' = rx /\ delivered' = delivered
    BY <1>3 DEF RxBad, RxLateFlowControl, RxContinueToSend, RxWait, RxOverflow, rxVars
  <2>3. /\ inbox[n] # <<>> /\ inbox' = [inbox EXCEPT ![n] = Tail(inbox[n])]
        /\ Head(inbox[n]).type \notin DataTypes
    BY <2>1 DEF NextFrame, DataTypes
  <2> QED BY <2>2, <2>3, IgnoresStep
<1>4. CASE RxStrayConsecutiveFrame(n)
  <2>1. rx[n].state = "Idle"
    BY <1>4, Machines DEF RxStrayConsecutiveFrame, RxMachine
  <2>2. /\ inbox[n] # <<>> /\ inbox' = [inbox EXCEPT ![n] = Tail(inbox[n])]
        /\ rx' = rx /\ delivered' = delivered
    BY <1>4 DEF RxStrayConsecutiveFrame, NextFrame, rxVars
  <2> QED BY <2>1, <2>2, IgnoresStep
<1>5. CASE RxFirstFrameTooLarge(n) \/ RxWrongSequence(n)
  BY <1>5, StopsStep DEF RxFirstFrameTooLarge, RxWrongSequence
<1>6. CASE ConsecutiveFrameTimeout(n)
  BY <1>6, StopsStep DEF ConsecutiveFrameTimeout
<1> QED BY <1>1, <1>2, <1>3, <1>4, <1>5, <1>6, SingleReceives, FirstReceives, LastReceives,
          PartReceives DEF Run, ProcessRx, Timeouts

\* Of the bytes of a frame that is due, all are taken and none of its padding.
LEMMA WholeChunk ==
  ASSUME IInv, NEW n \in Node, NEW f \in Frame, f.type = "CF",
         rx[n].state = "WaitCF", rx[n].msg \in Msg, rx[n].frameLen = Size[rx[n].msg],
         f.msg = rx[n].msg, f.off = rx[n].len, f.len = ChunkAt(f.msg, f.off)
  PROVE  /\ Appended(n, f).msg = f.msg /\ Appended(n, f).len = f.off + f.len
         /\ f.off + f.len <= Size[f.msg]
<1>1. /\ f.off \in Nat /\ Size[f.msg] \in Nat /\ f.off < Size[f.msg]
      /\ f.msg \in Msg /\ rx[n] \in RxMachine
  BY Machines, MsgAssumption DEF RxGood, RxMachine
<1>2. FrameLen \in {8, 64}
  BY FrameAssumption
<1>3. f.len \in 1..(FrameLen - 1) /\ f.len <= Size[f.msg] - f.off
      /\ (f.len = FrameLen - 1 \/ f.len = Size[f.msg] - f.off)
  BY <1>1, <1>2 DEF ChunkAt, Min2
<1> DEFINE w == WireLength(f.len + 1)
<1>4. w \in Nat /\ w >= f.len + 1 /\ (f.len = FrameLen - 1 => w = FrameLen)
  <2> DEFINE l == f.len + 1
  <2>1. l \in Nat /\ l >= 2 /\ l <= FrameLen
    BY <1>2, <1>3
  <2>2. \E s \in FDSizes : s >= l /\ \A t \in FDSizes : t >= l => s <= t
    BY <1>2, <2>1 DEF FDSizes
  <2>3. /\ nextFDTargetLength(l) \in FDSizes /\ nextFDTargetLength(l) >= l
        /\ \A t \in FDSizes : t >= l => nextFDTargetLength(l) <= t
    BY <2>2 DEF nextFDTargetLength
  <2>4. nextFDTargetLength(l) \in Nat /\ (l = FrameLen => nextFDTargetLength(l) = FrameLen)
    BY <1>2, <2>1, <2>3 DEF FDSizes
  <2> HIDE DEF l
  <2>5. WireLength(l) \in Nat /\ WireLength(l) >= l /\ (l = FrameLen => WireLength(l) = FrameLen)
    BY <1>2, <2>1, <2>3, <2>4 DEF WireLength
  <2> QED BY <1>2, <1>3, <2>5 DEF l
<1> HIDE DEF w
<1>5. Taken(n, f) = f.len
  <2>1. Taken(n, f) = Min2(w - 1, Size[f.msg] - f.off)
    BY DEF Taken, w
  <2> QED BY <1>1, <1>2, <1>3, <1>4, <2>1 DEF Min2
<1>6. Appended(n, f).msg = rx[n].msg /\ Appended(n, f).len = rx[n].len + f.len
  BY <1>1, <1>3, <1>5 DEF Appended, RxMachine
<1> QED BY <1>1, <1>3, <1>6

\* A payload as IntactDelivery wants it.
Intact(n, d) == d.msg \in Msg /\ Source[d.msg] = Peer[n] /\ d.len = Size[d.msg]

\* The receive machine of n has a payload of its peer in hand.
Holding(n, r) == r.state = "WaitCF" => /\ r.msg \in Msg /\ Source[r.msg] = Peer[n]
                                       /\ r.frameLen = Size[r.msg]

\* ... and after a step of its receiver.
LEMMA ReceivedAhead ==
  ASSUME IInv, IInv', Sources, NEW n \in Node, Receives(n),
         NEW e, Before(n, rx[n], inbox[n], e)
  PROVE  /\ \E h : Before(n, rx'[n], inbox'[n], h) /\ h[Len(h)] = e[Len(e)]
         /\ Holding(n, rx'[n])
         /\ \/ delivered'[n] = delivered[n]
            \/ \E d : Intact(n, d) /\ delivered'[n] = Append(delivered[n], d)
<1>1. InTurn(e, inbox[n], Peer[n]) /\ inbox[n] \in Seq(Frame) /\ Holding(n, rx[n])
  BY Machines DEF Before, Sources, Holding
<1>2. CASE Stays(n)
  <2>1. Before(n, rx'[n], inbox'[n], e) /\ Holding(n, rx'[n])
    BY <1>1, <1>2 DEF Stays, Before, Holding
  <2> QED BY <1>2, <2>1 DEF Stays
<1> DEFINE f == Head(inbox[n])
           h == Tail(e)
<1>3. CASE Takes(n, f)
  <2>1. inbox[n] # <<>> /\ inbox'[n] = Tail(inbox[n]) /\ f \in Frame
    BY <1>1, <1>3 DEF Takes
  <2>2. /\ InTurn(h, inbox'[n], Peer[n]) /\ h[1] = After(e[1], f)
        /\ Continues(e[1], f, Peer[n]) /\ h[Len(h)] = e[Len(e)]
    <3>1. inbox[n] # <<>> /\ inbox[n] \in Seq(Frame) /\ InTurn(e, inbox[n], Peer[n])
      BY <1>1, <2>1
    <3>2. /\ InTurn(h, Tail(inbox[n]), Peer[n]) /\ h[1] = After(e[1], f)
          /\ Continues(e[1], f, Peer[n]) /\ h[Len(h)] = e[Len(e)]
      BY <3>1, TurnTail
    <3> HIDE DEF f, h
    <3> QED BY <2>1, <3>2
  <2> HIDE DEF f, h
  <2>3. ASSUME rx'[n].state = "WaitCF" => h[1] = [msg |-> rx'[n].msg, off |-> rx'[n].len]
        PROVE  \E g : Before(n, rx'[n], inbox'[n], g) /\ g[Len(g)] = e[Len(e)]
    BY <2>2, <2>3 DEF Before
  <2>4. CASE rx'[n].state = "Idle" /\ delivered'[n] = delivered[n]
    BY <2>3, <2>4 DEF Holding
  <2>5. CASE /\ f.type \notin DataTypes \/ f.id # "base"
             /\ rx'[n] = rx[n] /\ delivered'[n] = delivered[n]
    <3>1. f.type \notin DataTypes
      BY <2>2, <2>5 DEF Continues
    <3>2. h[1] = e[1]
      BY <2>2, <3>1 DEF After, DataTypes
    <3> QED BY <1>1, <2>3, <2>5, <3>2 DEF Before
  <2>6. CASE f.type = "FF" /\ Starts(rx'[n], f.msg) /\ delivered'[n] = delivered[n]
    <3>1. Source[f.msg] = Peer[n] /\ f.msg \in Msg
      BY <2>1, <2>2, <2>6, Kinds DEF Continues, DataTypes
    <3>2. h[1] = [msg |-> rx'[n].msg, off |-> rx'[n].len]
      BY <2>2, <2>6 DEF After, Starts
    <3>3. Holding(n, rx'[n])
      BY <2>6, <3>1 DEF Holding, Starts
    <3> QED BY <2>3, <2>6, <3>2, <3>3
  <2>7. CASE /\ f.type = "SF" /\ rx'[n].state = "Idle"
             /\ delivered'[n] = Append(delivered[n], [msg |-> f.msg, len |-> Size[f.msg]])
    <3> DEFINE d == [msg |-> f.msg, len |-> Size[f.msg]]
    <3>1. Source[f.msg] = Peer[n] /\ f.msg \in Msg
      BY <2>1, <2>2, <2>7, Kinds DEF Continues, DataTypes
    <3>2. Intact(n, d)
      BY <3>1 DEF Intact
    <3>3. Holding(n, rx'[n])
      BY <2>7 DEF Holding
    <3>4. delivered'[n] = Append(delivered[n], d)
      BY <2>7
    <3> HIDE DEF d
    <3> QED BY <2>3, <2>7, <3>2, <3>3, <3>4
  <2>8. ASSUME f.type = "CF", rx[n].state = "WaitCF"
        PROVE  /\ f.msg = rx[n].msg /\ f.msg \in Msg /\ Source[f.msg] = Peer[n]
               /\ rx[n].frameLen = Size[f.msg]
               /\ Appended(n, f).msg = f.msg /\ Appended(n, f).len = f.off + f.len
               /\ f.off \in Nat /\ f.len \in Nat /\ f.off + f.len <= Size[f.msg]
    <3>1. /\ f.msg = rx[n].msg /\ f.off = rx[n].len /\ f.len = ChunkAt(f.msg, f.off)
      BY <2>2, <2>8 DEF Continues, Before
    <3>2. /\ rx[n].msg \in Msg /\ Source[rx[n].msg] = Peer[n]
          /\ rx[n].frameLen = Size[rx[n].msg]
      BY <1>1, <2>8 DEF Holding
    <3>3. f.off \in Nat /\ f.len \in Nat
      BY <2>1, <2>8, Kinds, FrameAssumption
    <3> QED BY <2>1, <2>8, <3>1, <3>2, <3>3, WholeChunk
  <2>9. CASE /\ f.type = "CF" /\ rx[n].state = "WaitCF"
             /\ Extends(n, f) /\ delivered'[n] = delivered[n]
    <3>1. h[1] = [msg |-> rx'[n].msg, off |-> rx'[n].len]
      BY <2>2, <2>8, <2>9 DEF After, Extends
    <3>2. Holding(n, rx'[n])
      BY <2>8, <2>9 DEF Holding, Extends
    <3> QED BY <2>3, <2>9, <3>1, <3>2
  <2>10. CASE /\ f.type = "CF" /\ rx[n].state = "WaitCF" /\ rx'[n].state = "Idle"
              /\ Appended(n, f).len >= rx[n].frameLen
              /\ delivered'[n] = Append(delivered[n],
                                  [msg |-> Appended(n, f).msg, len |-> Appended(n, f).len])
    <3> DEFINE d == [msg |-> f.msg, len |-> f.off + f.len]
    <3>1. f.off + f.len = Size[f.msg]
      <4>1. f.off + f.len >= Size[f.msg] /\ Size[f.msg] \in Nat
        BY <2>8, <2>10, MsgAssumption
      <4> QED BY <2>8, <2>10, <4>1
    <3>2. Intact(n, d)
      BY <2>8, <2>10, <3>1 DEF Intact
    <3>3. delivered'[n] = Append(delivered[n], d)
      BY <2>8, <2>10
    <3>4. Holding(n, rx'[n])
      BY <2>10 DEF Holding
    <3> HIDE DEF d
    <3> QED BY <2>3, <2>10, <3>2, <3>3, <3>4
  <2> QED BY <1>3, <2>4, <2>5, <2>6, <2>7, <2>9, <2>10 DEF Takes
<1> QED BY <1>2, <1>3 DEF Receives

-----------------------------------------------------------------------------
LEMMA Peers == ASSUME NEW n \in Node PROVE Peer[n] \in Node /\ Peer[Peer[n]] = n
BY NodeAssumption

\* Only a session that is not closed works on frames.
LEMMA RunRuns == ASSUME NEW n \in Node, Run(n) PROVE Running(n)
<1>1. CASE InitiateTx(n) \/ STminFires(n) \/ Timeouts(n)
  BY <1>1 DEF InitiateTx, SendSingleFrame, SendFirstFrame, STminFires, Timeouts,
              FlowControlTimeout, ConsecutiveFrameTimeout
<1>2. CASE ProcessRx(n)
  BY <1>2 DEF ProcessRx, RxForeign, RxBad, RxLateFlowControl, RxContinueToSend, RxWait,
     RxOverflow, FlowControl, NextFrame, RxSingleFrame, RxFirstFrameTooLarge, RxFirstFrame,
     RxStrayConsecutiveFrame, RxWrongSequence, RxLastConsecutiveFrame, InSequence,
     RxConsecutiveFrame
<1> QED BY <1>1, <1>2 DEF Run

\* A session step keeps the payloads in hand where they belong.
LEMMA SourcesStep ==
  ASSUME IInv, IInv', Lossless, Transfers, NEW n \in Node, App(n) \/ Run(n)
  PROVE  Sources' /\ IntactDelivery'
<1> DEFINE Queued(k, q) == \A i \in 1..Len(q) : Source[q[i]] = k
<1>1. Sends(n) /\ Receives(n)
  BY SessionSends, SessionReceives
<1>2. Sources
  BY DEF Transfers
<1>3. ASSUME NEW k \in Node PROVE Queued(k, txDataChan'[k])
  <2>0. Queued(k, txDataChan[k]) /\ txDataChan[n] \in Seq(Msg)
    BY <1>2, Machines DEF Sources
  <2>1. CASE txDataChan' = txDataChan
    BY <2>0, <2>1
  <2>2. CASE txDataChan' = [txDataChan EXCEPT ![n] = Tail(txDataChan[n])] /\ txDataChan[n] # <<>>
    <3>1. CASE k = n
      <4>1. txDataChan'[n] = Tail(txDataChan[n])
        BY <2>2, TxDataAt
      <4>2. \A i \in 1..Len(Tail(txDataChan[n])) :
              i + 1 \in 1..Len(txDataChan[n]) /\ Tail(txDataChan[n])[i] = txDataChan[n][i + 1]
        BY <2>0, <2>2
      <4> QED BY <2>0, <3>1, <4>1, <4>2
    <3>2. CASE k # n
      BY <2>0, <2>2, <3>2, TxDataAt
    <3> QED BY <3>1, <3>2
  <2>3. CASE \E m \in Msg : /\ Source[m] = n
                            /\ txDataChan' = [txDataChan EXCEPT ![n] = Append(txDataChan[n], m)]
    <3> PICK m \in Msg : /\ Source[m] = n
                         /\ txDataChan' = [txDataChan EXCEPT ![n] = Append(txDataChan[n], m)]
      BY <2>3
    <3>1. CASE k = n
      <4>1. txDataChan'[n] = Append(txDataChan[n], m)
        BY TxDataAt
      <4>2. \A i \in 1..Len(Append(txDataChan[n], m)) :
              \/ i \in 1..Len(txDataChan[n]) /\ Append(txDataChan[n], m)[i] = txDataChan[n][i]
              \/ Append(txDataChan[n], m)[i] = m
        BY <2>0
      <4> QED BY <2>0, <3>1, <4>1, <4>2
    <3>2. CASE k # n
      BY <2>0, <3>2, TxDataAt
    <3> QED BY <3>1, <3>2
  <2>4. CASE App(n)
    <3>1. CASE \E m \in Msg : SendContext(n, m)
      BY <2>3, <3>1 DEF SendContext
    <3>2. CASE ~\E m \in Msg : SendContext(n, m)
      BY <2>1, <2>4, <3>2 DEF App, SetTxAddress, Receive, ReadError, Close, appVars
    <3> QED BY <3>1, <3>2
  <2>5. CASE InitiateTx(n)
    BY <2>2, <2>5 DEF InitiateTx, SendSingleFrame, SendFirstFrame
  <2>6. CASE Run(n) /\ ~InitiateTx(n)
    <3>1. txDataChan' = txDataChan
      <4>1. CASE STminFires(n) \/ Timeouts(n)
        BY <4>1 DEF STminFires, Timeouts, FlowControlTimeout, ConsecutiveFrameTimeout, appVars
      <4>2. CASE ProcessRx(n)
        BY <4>2 DEF ProcessRx, RxForeign, RxBad, RxLateFlowControl, RxContinueToSend, RxWait,
           RxOverflow, RxSingleFrame, RxFirstFrameTooLarge, RxFirstFrame,
           RxStrayConsecutiveFrame, RxWrongSequence, RxLastConsecutiveFrame,
           RxConsecutiveFrame, appVars
      <4> QED BY <2>6, <4>1, <4>2 DEF Run
    <3> QED BY <2>1, <3>1
  <2> QED BY <2>4, <2>5, <2>6
<1>4. txAddress' = txAddress
  <2>1. CASE App(n)
    BY <2>1 DEF Lossless, App, SendContext, SetTxAddress, Receive, ReadError, Close, appVars
  <2>2. CASE InitiateTx(n) \/ STminFires(n) \/ Timeouts(n)
    BY <2>2 DEF InitiateTx, SendSingleFrame, SendFirstFrame, STminFires, Timeouts,
                FlowControlTimeout, ConsecutiveFrameTimeout, appVars
  <2>3. CASE ProcessRx(n)
    BY <2>3 DEF ProcessRx, RxForeign, RxBad, RxLateFlowControl, RxContinueToSend, RxWait,
       RxOverflow, RxSingleFrame, RxFirstFrameTooLarge, RxFirstFrame,
       RxStrayConsecutiveFrame, RxWrongSequence, RxLastConsecutiveFrame,
       RxConsecutiveFrame, appVars
  <2> QED BY <2>1, <2>2, <2>3 DEF Run
<1>5. ASSUME NEW k \in Node PROVE tx'[k].state # "Idle" => Source[tx'[k].msg] = k
  <2>0. tx[k].state # "Idle" => Source[tx[k].msg] = k
    BY <1>2 DEF Sources
  <2>1. CASE k # n
    BY <1>1, <2>0, <2>1 DEF Sends, OthersSend
  <2>2. CASE k = n /\ (Keeps(n) \/ Advances(n))
    BY <2>0, <2>2 DEF Keeps, Holds, Advances
  <2>3. CASE k = n /\ Begins(n)
    <3>1. txDataChan[n] # <<>> /\ txDataChan[n] \in Seq(Msg)
      BY <2>3, Machines DEF Begins
    <3>2. 1 \in 1..Len(txDataChan[n]) /\ Head(txDataChan[n]) = txDataChan[n][1]
      BY <3>1
    <3>3. Source[Head(txDataChan[n])] = n
      BY <1>2, <3>2 DEF Sources
    <3> QED BY <2>3, <3>3 DEF Begins
  <2> QED BY <1>1, <2>1, <2>2, <2>3 DEF Sends
<1>6. /\ Holding(n, rx'[n])
      /\ \/ delivered'[n] = delivered[n]
         \/ \E d : Intact(n, d) /\ delivered'[n] = Append(delivered[n], d)
  <2>1. CASE App(n)
    <3>1. rx' = rx /\ delivered' = delivered
      BY <2>1 DEF App, SendContext, SetTxAddress, Receive, ReadError, Close, rxVars
    <3> QED BY <1>2, <3>1 DEF Sources, Holding
  <2>2. CASE Run(n)
    <3>1. Running(n)
      BY <2>2, RunRuns
    <3>2. Stream(Peer[n]) /\ Peer[Peer[n]] = n
      BY Peers DEF Transfers
    <3>3. PICK e : Before(n, rx[n], inbox[n], e)
      BY <3>1, <3>2 DEF Stream, Streaming
    <3> QED BY <1>1, <1>2, <3>3, ReceivedAhead
  <2> QED BY <2>1, <2>2
<1>8. ASSUME NEW k \in Node PROVE Holding(k, rx'[k])
  BY <1>1, <1>2, <1>6 DEF Receives, OthersReceive, Sources, Holding
<1>9. Sources'
  BY <1>2, <1>3, <1>4, <1>5, <1>8 DEF Sources, Holding
<1>10. ASSUME NEW k \in Node, NEW i \in DOMAIN delivered'[k] PROVE Intact(k, delivered'[k][i])
  <2>0. \A j \in DOMAIN delivered[k] : Intact(k, delivered[k][j])
    BY DEF Transfers, IntactDelivery, Intact
  <2>1. CASE delivered'[k] = delivered[k]
    BY <1>10, <2>0, <2>1
  <2>2. CASE k = n /\ \E d : Intact(n, d) /\ delivered'[n] = Append(delivered[n], d)
    <3> PICK d : Intact(n, d) /\ delivered'[n] = Append(delivered[n], d)
      BY <2>2
    <3>1. delivered[n] \in Seq(Payload)
      BY Machines
    <3>2. i \in 1..(Len(delivered[n]) + 1) /\ Len(delivered[n]) \in Nat
      BY <1>10, <2>2, <3>1
    <3>3. \/ i \in DOMAIN delivered[n] /\ Append(delivered[n], d)[i] = delivered[n][i]
          \/ Append(delivered[n], d)[i] = d
      BY <3>1, <3>2
    <3> QED BY <2>0, <2>2, <3>3
  <2> QED BY <1>1, <1>6, <2>1, <2>2 DEF Receives, OthersReceive
<1> QED BY <1>9, <1>10 DEF IntactDelivery, Intact

\* Only Close and FinishClose change a status, and never back.
LEMMA StatusStep ==
  ASSUME IInv, NEW n \in Node, App(n) \/ Run(n) \/ Bus(n), NEW k \in Node
  PROVE  /\ status'[k] = "open" => status[k] = "open"
         /\ status'[k] # "closed" => status[k] # "closed"
<1>1. status' = status \/ Close(n)
  <2>1. CASE App(n)
    BY <2>1 DEF App, SendContext, SetTxAddress, Receive, ReadError, appVars
  <2>2. CASE InitiateTx(n) \/ STminFires(n) \/ Timeouts(n)
    BY <2>2 DEF InitiateTx, SendSingleFrame, SendFirstFrame, STminFires, Timeouts,
                FlowControlTimeout, ConsecutiveFrameTimeout, appVars
  <2>3. CASE ProcessRx(n)
    BY <2>3 DEF ProcessRx, RxForeign, RxBad, RxLateFlowControl, RxContinueToSend, RxWait,
       RxOverflow, RxSingleFrame, RxFirstFrameTooLarge, RxFirstFrame,
       RxStrayConsecutiveFrame, RxWrongSequence, RxLastConsecutiveFrame,
       RxConsecutiveFrame, appVars
  <2>4. CASE Bus(n)
    BY <2>4 DEF Bus, Transfer, DropAtSubscriber, Lose, SendFails, Inject, appVars
  <2> QED BY <2>1, <2>2, <2>3, <2>4 DEF Run
<1>2. CASE Close(n)
  <2>1. status \in [Node -> {"open", "closing", "closed"}]
    BY DEF IInv, TypeOK
  <2> QED BY <1>2, <2>1 DEF Close
<1> QED BY <1>1, <1>2

LEMMA SessionStep ==
  ASSUME IInv, IInv', Lossless, Transfers, NEW n \in Node, App(n) \/ Run(n)
  PROVE  Transfers'
<1>1. Sends(n) /\ Receives(n) /\ Sources
  BY SessionSends, SessionReceives DEF Transfers
<1>2. ASSUME NEW k \in Node PROVE Stream(k)'
  <2> DEFINE p == Peer[k]
  <2>1. p \in Node
    BY Peers
  <2>2. PICK e, g \in Seq(Position) : Streaming(k, e, g)
    BY DEF Transfers, Stream
  <2>3. PICK h \in Seq(Position) :
          /\ Running(p)' => Before(p, rx'[p], inbox'[p], h)
          /\ (Running(p)' => h[Len(h)] = e[Len(e)]) /\ (~Running(p)' => h = e)
    <3>1. CASE Running(p)'
      <4>1. Before(p, rx[p], inbox[p], e)
        BY <2>1, <2>2, <3>1, StatusStep DEF Streaming
      <4>2. CASE p = n
        <5>1. \E h : Before(p, rx'[p], inbox'[p], h) /\ h[Len(h)] = e[Len(e)]
          BY <1>1, <4>1, <4>2, ReceivedAhead
        <5> QED BY <3>1, <5>1 DEF Before, InTurn
      <4>3. CASE p # n
        BY <1>1, <2>1, <3>1, <4>1, <4>3 DEF Receives, OthersReceive
      <4> QED BY <4>2, <4>3
    <3>2. CASE ~Running(p)'
      BY <3>2
    <3> QED BY <3>1, <3>2
  <2>4. CASE status'[k] = "open" /\ status'[p] = "open"
    <3>1. Behind(k, tx[k], txChan[k], g) /\ g[1] = e[Len(e)]
      BY <2>1, <2>2, <2>4, StatusStep DEF Streaming
    <3>2. \E j : Behind(k, tx'[k], txChan'[k], j) /\ j[1] = g[1]
      <4>1. CASE k = n
        BY <1>1, <3>1, <4>1, SentAhead
      <4>2. CASE k # n
        BY <1>1, <3>1, <4>2 DEF Sends, OthersSend
      <4> QED BY <4>1, <4>2
    <3>3. PICK j \in Seq(Position) : Behind(k, tx'[k], txChan'[k], j) /\ j[1] = g[1]
      BY <3>2 DEF Behind, InTurn
    <3>4. h[Len(h)] = e[Len(e)]
      BY <2>3
    <3>5. Streaming(k, h, j)'
      BY <2>3, <3>1, <3>3, <3>4 DEF Streaming
    <3> QED BY <3>5 DEF Stream
  <2>5. CASE ~(status'[k] = "open" /\ status'[p] = "open")
    <3>1. Streaming(k, h, g)'
      BY <2>3, <2>5 DEF Streaming
    <3> QED BY <3>1 DEF Stream
  <2> QED BY <2>4, <2>5
<1> QED BY <1>2, SourcesStep DEF Transfers

\* A session that has closed takes part in no stream any more.
LEMMA CloseStep ==
  ASSUME IInv, Transfers, NEW n \in Node, FinishClose(n)
  PROVE  Transfers'
<1>1. /\ status'[n] = "closed" /\ \A k \in Node \ {n} : status'[k] = status[k]
      /\ \A k \in Node \ {n} : /\ tx'[k] = tx[k] /\ rx'[k] = rx[k]
                               /\ txChan'[k] = txChan[k] /\ inbox'[k] = inbox[k]
      /\ tx'[n] = [tx[n] EXCEPT !.timerFC = FALSE, !.timerST = FALSE]
      /\ rx'[n] = [rx[n] EXCEPT !.timerCF = FALSE]
      /\ UNCHANGED <<delivered, txDataChan, txAddress>>
  BY DEF FinishClose, IInv, TypeOK
<1>2. /\ tx'[n].state = tx[n].state /\ tx'[n].msg = tx[n].msg
      /\ rx'[n].state = rx[n].state /\ rx'[n].msg = rx[n].msg
      /\ rx'[n].frameLen = rx[n].frameLen
  BY <1>1, Machines DEF TxMachine, RxMachine
<1>3. ASSUME NEW k \in Node
      PROVE  /\ tx'[k].state = tx[k].state /\ tx'[k].msg = tx[k].msg
             /\ rx'[k].state = rx[k].state /\ rx'[k].msg = rx[k].msg
             /\ rx'[k].frameLen = rx[k].frameLen
  BY <1>1, <1>2
<1>4. Sources'
  BY <1>1, <1>3 DEF Transfers, Sources
<1>5. ASSUME NEW k \in Node PROVE Stream(k)'
  <2>1. PICK e, g \in Seq(Position) : Streaming(k, e, g)
    BY DEF Transfers, Stream
  <2>2. Peer[k] \in Node
    BY Peers
  <2>3. Streaming(k, e, g)'
    <3>1. CASE Peer[k] = n
      BY <1>1, <3>1 DEF Streaming
    <3>2. CASE Peer[k] # n /\ k = n
      BY <1>1, <2>1, <2>2, <3>2 DEF Streaming
    <3>3. CASE Peer[k] # n /\ k # n
      BY <1>1, <2>1, <2>2, <3>3 DEF Streaming
    <3> QED BY <3>1, <3>2, <3>3
  <2> QED BY <2>3 DEF Stream
<1> QED BY <1>1, <1>4, <1>5 DEF Transfers, IntactDelivery

\* The bus moves the first frame of a queue behind the last one of an inbox.
LEMMA TransferStep ==
  ASSUME IInv, Transfers, NEW n \in Node, Transfer(n)
  PROVE  Transfers'
<1> DEFINE p == Peer[n]
           f == Head(txChan[n])
<1>1. /\ UNCHANGED <<tx, rx, delivered, txDataChan, txAddress, status>>
      /\ status[n] = "open" /\ txChan[n] # <<>>
      /\ txChan' = [txChan EXCEPT ![n] = Tail(txChan[n])]
      /\ inbox' = IF status[p] = "open"
                  THEN [inbox EXCEPT ![p] = Append(inbox[p], f)] ELSE inbox
  BY DEF Transfer, TakeFrame, txVars, rxVars, appVars
<1>2. p \in Node /\ Peer[p] = n /\ \A k \in Node : Peer[k] = p => k = n
  BY Peers
<1>3. txChan'[n] = Tail(txChan[n]) /\ \A k \in Node \ {n} : txChan'[k] = txChan[k]
  BY <1>1, TxChanAt
<1>4. Sources' /\ IntactDelivery'
  BY <1>1 DEF Transfers, Sources, IntactDelivery
<1>5. ASSUME NEW k \in Node PROVE Stream(k)'
  <2>1. PICK e, g \in Seq(Position) : Streaming(k, e, g)
    BY DEF Transfers, Stream
  <2>2. CASE k # n
    <3>1. Peer[k] \in Node /\ Peer[k] # p
      BY <1>2, <2>2, Peers
    <3>2. inbox'[Peer[k]] = inbox[Peer[k]]
      BY <1>1, <1>2, <3>1, InboxAt
    <3>3. Streaming(k, e, g)'
      BY <1>1, <1>3, <2>1, <2>2, <3>2 DEF Streaming
    <3> QED BY <3>3 DEF Stream
  <2>3. CASE k = n /\ status[p] # "open"
    <3>1. Streaming(k, e, g)'
      BY <1>1, <2>1, <2>3 DEF Streaming
    <3> QED BY <3>1 DEF Stream
  <2>4. CASE k = n /\ status[p] = "open"
    <3>1. /\ Before(p, rx[p], inbox[p], e) /\ Behind(n, tx[n], txChan[n], g)
          /\ g[1] = e[Len(e)]
      BY <1>1, <2>1, <2>4 DEF Streaming
    <3>2. /\ InTurn(e, inbox[p], n) /\ InTurn(g, txChan[n], n)
          /\ inbox[p] \in Seq(Frame) /\ txChan[n] \in Seq(Frame) /\ f \in Frame
      BY <1>1, <1>2, <3>1, Machines DEF Before, Behind
    <3> HIDE DEF f
    <3>3. PICK j : /\ InTurn(j, Tail(txChan[n]), n) /\ j[1] = After(g[1], f)
                   /\ Continues(g[1], f, n) /\ j[Len(j)] = g[Len(g)]
      BY <1>1, <3>2, TurnTail DEF f
    <3>4. PICK h : /\ InTurn(h, Append(inbox[p], f), n) /\ h[1] = e[1]
                   /\ h[Len(h)] = After(e[Len(e)], f)
      BY <3>1, <3>2, <3>3, TurnAppend
    <3>5. inbox'[p] = Append(inbox[p], f)
      BY <1>1, <1>2, <2>4, InboxAt
    <3>6. Before(p, rx'[p], inbox'[p], h) /\ Behind(n, tx'[n], txChan'[n], j)
      BY <1>1, <1>2, <1>3, <3>1, <3>3, <3>4, <3>5 DEF Before, Behind
    <3>7. h \in Seq(Position) /\ j \in Seq(Position)
      BY <3>3, <3>4 DEF InTurn
    <3>8. j[1] = h[Len(h)]
      BY <3>1, <3>3, <3>4
    <3>9. Streaming(n, h, j)'
      BY <3>6, <3>8 DEF Streaming
    <3> QED BY <2>4, <3>7, <3>9 DEF Stream
  <2> QED BY <2>2, <2>3, <2>4
<1> QED BY <1>4, <1>5 DEF Transfers

\* Other participants put no data frames on the bus.
LEMMA InjectStep ==
  ASSUME IInv, Transfers, NEW n \in Node, NEW f \in InjectFrames, Inject(n, f)
  PROVE  Transfers'
<1>1. /\ UNCHANGED <<tx, rx, delivered, txDataChan, txAddress, status, txChan>>
      /\ inbox' = [inbox EXCEPT ![n] = Append(inbox[n], f)]
  BY DEF Inject, txVars, rxVars, appVars
<1>2. f \in Frame /\ f.type \notin DataTypes
  BY InjectAssumption DEF Frame, FlowControlFrame, BadFrame, DataTypes
<1>3. inbox'[n] = Append(inbox[n], f) /\ \A k \in Node \ {n} : inbox'[k] = inbox[k]
  BY <1>1, InboxAt
<1>4. Sources' /\ IntactDelivery'
  BY <1>1 DEF Transfers, Sources, IntactDelivery
<1>5. ASSUME NEW k \in Node PROVE Stream(k)'
  <2>1. PICK e, g \in Seq(Position) : Streaming(k, e, g)
    BY DEF Transfers, Stream
  <2>2. CASE Peer[k] = n /\ Running(n)
    <3>1. Before(n, rx[n], inbox[n], e) /\ inbox[n] \in Seq(Frame)
      BY <2>1, <2>2, Machines DEF Streaming
    <3>2. PICK h : /\ InTurn(h, Append(inbox[n], f), Peer[n])
                   /\ h[1] = e[1] /\ h[Len(h)] = e[Len(e)]
      BY <1>2, <3>1, TurnSame DEF Before
    <3>3. Before(n, rx'[n], inbox'[n], h) /\ h \in Seq(Position)
      BY <1>1, <1>3, <3>1, <3>2 DEF Before, InTurn
    <3>4. Streaming(k, h, g)'
      BY <1>1, <2>1, <2>2, <3>2, <3>3 DEF Streaming
    <3> QED BY <3>3, <3>4 DEF Stream
  <2>3. CASE ~(Peer[k] = n /\ Running(n))
    <3>1. Streaming(k, e, g)'
      BY <1>1, <1>3, <2>1, <2>3, Peers DEF Streaming
    <3> QED BY <3>1 DEF Stream
  <2> QED BY <2>2, <2>3
<1> QED BY <1>4, <1>5 DEF Transfers

LEMMA TransfersBegin == ASSUME Init PROVE Transfers
<1>1. Sources
  BY DEF Init, Sources, TxIdle, RxIdle
<1>2. ASSUME NEW n \in Node PROVE Stream(n)
  <2> DEFINE e == <<[msg |-> NoMsg, off |-> 0]>>
  <2>1. e \in Seq(Position) /\ Len(e) = 1
    BY DEF Position
  <2> HIDE DEF e
  <2>2. \A k \in Node : InTurn(e, <<>>, k)
    BY <2>1 DEF InTurn
  <2>3. Before(Peer[n], RxIdle, <<>>, e) /\ Behind(n, TxIdle, <<>>, e)
    BY <2>2, Peers DEF Before, Behind, RxIdle, TxIdle
  <2>4. Streaming(n, e, e)
    BY <2>1, <2>3, Peers DEF Init, Streaming
  <2> QED BY <2>1, <2>4 DEF Stream
<1>3. IntactDelivery
  BY DEF Init, IntactDelivery
<1> QED BY <1>1, <1>2, <1>3 DEF Transfers

LEMMA TransfersStep ==
  ASSUME Lossless, IInv, Transfers, [Next]_vars
  PROVE  IInv' /\ Transfers'
<1>1. IInv'
  BY Inductive
<1>2. CASE UNCHANGED vars
  <2>1. Sources' /\ IntactDelivery'
    BY <1>2 DEF vars, txVars, rxVars, appVars, Transfers, Sources, IntactDelivery
  <2>2. \A n \in Node : Stream(n)'
    BY <1>2 DEF vars, txVars, rxVars, appVars, Transfers, Stream, Streaming
  <2> QED BY <1>1, <2>1, <2>2 DEF Transfers
<1>3. ASSUME NEW n \in Node, App(n) \/ Run(n) PROVE Transfers'
  BY <1>1, <1>3, SessionStep
<1>4. ASSUME NEW n \in Node, FinishClose(n) PROVE Transfers'
  BY <1>1, <1>4, CloseStep
<1>5. ASSUME NEW n \in Node, Bus(n) PROVE Transfers'
  <2>1. ~DropAtSubscriber(n) /\ ~Lose(n) /\ ~SendFails(n)
    BY DEF Lossless, DropAtSubscriber, Lose, SendFails, IInv, TypeOK
  <2> QED BY <1>1, <1>5, <2>1, TransferStep, InjectStep DEF Bus
<1> QED BY <1>1, <1>2, <1>3, <1>4, <1>5 DEF Next

\* Over a bus that loses nothing every payload handed to an application is one
\* its peer sent, whole and unmixed, whatever else is on the bus, whenever timers
\* fire and sessions close, and whatever the sizes of frames, queues and payloads.
THEOREM DeliveryIsIntact == ASSUME Lossless PROVE Spec => []IntactDelivery
<1>1. Init => IInv /\ Transfers
  BY InitIInv, TransfersBegin
<1>2. IInv /\ Transfers /\ [Next]_vars => (IInv /\ Transfers)'
  BY TransfersStep
<1>3. Transfers => IntactDelivery
  BY DEF Transfers
<1> QED BY <1>1, <1>2, <1>3, PTL DEF Spec
=============================================================================

----------------------------- MODULE DriverProofs -----------------------------
(***************************************************************************)
(* Proofs about Driver, for any number of goroutines, subscriptions and    *)
(* frames, any capacity of the queues, and both kinds of bus.              *)
(***************************************************************************)
EXTENDS Driver, FiniteSetTheorems, TLAPS

\* Where a goroutine holds the device's lock: in PCAN.stop.
InStop == {"stopRead", "stopFanout", "stopEnd"}
Stopping == {"stop"} \cup InStop

\* Who holds which lock: opMu is held by a stop; the write lock of mu by an Open, also
\* while it stops a device it could not start; sendMu by a Send and by a Close.
OpMuHeld == \A p \in Proc : pc[p] \in InStop <=> opMu = p
MuHeld == \A p \in Proc :
  /\ mu.writer = p => pc[p] \in {"initialize", "start"} \cup Stopping /\ sendMu # p
  /\ pc[p] \in {"initialize", "start"} => mu.writer = p
SendMuHeld == \A p \in Proc :
  /\ sendMu = p => pc[p] \in {"closing", "sendCheck", "setBRS", "write"} \cup Stopping
  /\ pc[p] \in {"closing", "sendCheck", "setBRS", "write"} => sendMu = p
  /\ pc[p] \in Stopping => mu.writer = p \/ sendMu = p
Locks == OpMuHeld /\ MuHeld /\ SendMuHeld /\ (mu.writer # None => ~open)

\* The device is initialized only on open hardware and while nobody stops it; the
\* read loop is the only one, and gone when stop has waited for it; hardware and
\* fan-out exist only in an initialized device or until its stop ends.
Device ==
  /\ dev.initialized => dev.hw = "open" /\ opMu = None
  /\ readers.select + readers.burst = IF dev.running THEN 1 ELSE 0
  /\ dev.running => dev.hw = "open"
  /\ \A p \in Proc : pc[p] \in {"stopFanout", "stopEnd"} => ~dev.running
  /\ opMu # None => cancelled
  /\ dev.hw = "open" /\ ~dev.initialized => opMu # None /\ dev.stopping
  /\ fan # NoFanout => dev.initialized \/ opMu # None
Owned == dev.initialized => open \/ \E p \in Proc : pc[p] \in {"start", "stop"}

\* The open channels are those subscribed and those closer has yet to close; what is
\* closed takes no more subscribers, and the one who closed it goes through them all.
Channels ==
  /\ \A c \in Chan : sub[c].state = "open" <=> c \in fan.subs \cup fan.dying
  /\ fan.subs \cap fan.dying = {} /\ IsFiniteSet(fan.subs)
  /\ fan.closed => fan.subs = {} /\ fan.closer \in {"loop", "stop"}
  /\ ~fan.closed => fan.dying = {}
  /\ fan.closed /\ fan.closer = "loop" => fan.loop # "on" /\ (fan.loop = "off" => fan.dying = {})
  /\ fan.present /\ fan.loop # "on" => fan.closed
  /\ ~fan.present => fan = NoFanout

\* The device works, and keeps working until a stop begins.
Works == dev.initialized /\ ~cancelled /\ fan.loop = "on" /\ ~fan.closed

\* Unless an Open overtook a Close: an open bus has a working device, and so has an Open
\* that is about to start it; a Close that has yet to stop it finds it initialized
\* and nobody about to start it; an Open that failed finds it not initialized.
Usable == ~overtaken =>
  /\ open => Works /\ dev.running
  /\ \A p \in Proc : pc[p] = "start" => Works
  /\ \A p \in Proc : pc[p] = "stop" /\ sendMu = p =>
       dev.initialized /\ ~open /\ \A q \in Proc : pc[q] # "start"
  /\ \A p \in Proc : pc[p] = "stop" /\ mu.writer = p => ~dev.initialized

\* Between setBRS and write the configuration has the BRS of the frame being sent.
OwnBRS == /\ \A p \in Proc : pc[p] = "write" => dev.brs = (sending[p] = "brs")
          /\ \A p \in Proc : pc[p] \in {"send", "sendCheck", "setBRS", "write"} => sending[p] \in Kinds

\* The frames on their way are in order, between the last one dispatched and the last one
\* read, and the hardware's come after them.
Order ==
  /\ \A i \in 1..Len(rxChan) : dispatched < rxChan[i] /\ rxChan[i] <= published
  /\ \A i, j \in 1..Len(rxChan) : i < j => rxChan[i] < rxChan[j]
  /\ dispatched <= published /\ published + hw <= MaxFrames

\* Frames after k that are not on their way.
Gone(k) == ((k + 1)..published) \ Range(rxChan)

\* What was lost in front of rxChan was counted, and what a subscriber lacks as well.
Counted == ~cancelled =>
  /\ Cardinality(Gone(dispatched)) <= stats.source
  /\ \A c \in fan.subs :
       Cardinality(Gone(sub[c].from) \ sub[c].seen) <= stats.source + stats.subscriber

\* The inductive invariant.
Control == Locks /\ Device /\ Owned /\ Channels /\ Usable /\ OwnBRS
History == NoPanic /\ FrameKeepsBRS /\ Order /\ Counted
IInv == TypeOK /\ Control /\ History

-----------------------------------------------------------------------------
LEMMA Bounds == RxCap \in Nat /\ SubCap \in Nat /\ ErrorCap \in Nat /\ MaxFrames \in Nat
BY BoundAssumption

-----------------------------------------------------------------------------
(* What the steps have in common. *)

\* A part of the invariant holds as long as its variables stay as they are.
LEMMA Kept ==
  /\ CallTypes /\ UNCHANGED <<pc, calls, sending, open, sendMu, mu, opMu>> => CallTypes'
  /\ DeviceTypes /\ UNCHANGED <<dev, cancelled, readers>> => DeviceTypes'
  /\ RxTypes /\ UNCHANGED <<hw, rxChan, published, dispatched>> => RxTypes'
  /\ FanTypes /\ UNCHANGED <<fan, sub>> => FanTypes'
  /\ HistTypes /\ UNCHANGED <<stats, errorChan, panicked, overtaken, wire, refused>> => HistTypes'
  /\ Locks /\ UNCHANGED <<pc, open, sendMu, mu, opMu>> => Locks'
  /\ Device /\ UNCHANGED <<pc, opMu, dev, cancelled, readers, fan>> => Device'
  /\ Owned /\ UNCHANGED <<pc, open, dev>> => Owned'
  /\ Channels /\ UNCHANGED <<fan, sub>> => Channels'
  /\ Usable /\ UNCHANGED <<pc, open, sendMu, mu, dev, cancelled, fan, overtaken>> => Usable'
  /\ OwnBRS /\ UNCHANGED <<pc, sending, dev>> => OwnBRS'
  /\ NoPanic /\ UNCHANGED <<panicked>> => NoPanic'
  /\ FrameKeepsBRS /\ UNCHANGED <<wire>> => FrameKeepsBRS'
  /\ Order /\ UNCHANGED <<hw, rxChan, published, dispatched>> => Order'
  /\ Counted /\ UNCHANGED <<cancelled, rxChan, published, fan, sub, stats, dispatched>> => Counted'
<1>1. CallTypes /\ UNCHANGED <<pc, calls, sending, open, sendMu, mu, opMu>> => CallTypes'
  BY DEF CallTypes
<1>2. DeviceTypes /\ UNCHANGED <<dev, cancelled, readers>> => DeviceTypes'
  BY DEF DeviceTypes
<1>3. RxTypes /\ UNCHANGED <<hw, rxChan, published, dispatched>> => RxTypes'
  BY DEF RxTypes
<1>4. FanTypes /\ UNCHANGED <<fan, sub>> => FanTypes'
  BY DEF FanTypes
<1>5. HistTypes /\ UNCHANGED <<stats, errorChan, panicked, overtaken, wire, refused>> => HistTypes'
  BY DEF HistTypes
<1>6. Locks /\ UNCHANGED <<pc, open, sendMu, mu, opMu>> => Locks'
  BY DEF Locks, OpMuHeld, MuHeld, SendMuHeld, InStop, Stopping
<1>7. Device /\ UNCHANGED <<pc, opMu, dev, cancelled, readers, fan>> => Device'
  BY DEF Device
<1>8. Owned /\ UNCHANGED <<pc, open, dev>> => Owned'
  BY DEF Owned
<1>9. Channels /\ UNCHANGED <<fan, sub>> => Channels'
  BY DEF Channels
<1>10. Usable /\ UNCHANGED <<pc, open, sendMu, mu, dev, cancelled, fan, overtaken>> => Usable'
  BY DEF Usable, Works
<1>11. OwnBRS /\ UNCHANGED <<pc, sending, dev>> => OwnBRS'
  BY DEF OwnBRS
<1>12. NoPanic /\ UNCHANGED <<panicked>> => NoPanic'
  BY DEF NoPanic
<1>13. FrameKeepsBRS /\ UNCHANGED <<wire>> => FrameKeepsBRS'
  BY DEF FrameKeepsBRS
<1>14. Order /\ UNCHANGED <<hw, rxChan, published, dispatched>> => Order'
  BY DEF Order
<1>15. Counted /\ UNCHANGED <<cancelled, rxChan, published, fan, sub, stats, dispatched>> => Counted'
  BY DEF Counted, Gone
<1> QED BY <1>1, <1>2, <1>3, <1>4, <1>5, <1>6, <1>7, <1>8, <1>9, <1>10, <1>11, <1>12, <1>13, <1>14, <1>15

\* A set with at most one element more than another.
LEMMA AtMostOneMore ==
  ASSUME NEW S, NEW T, NEW x, IsFiniteSet(T), S \subseteq T \cup {x}
  PROVE  IsFiniteSet(S) /\ Cardinality(S) \in Nat /\ Cardinality(S) <= Cardinality(T) + 1
<1>1. IsFiniteSet(T \cup {x}) /\ Cardinality(T \cup {x}) <= Cardinality(T) + 1
  <2>1. IsFiniteSet(T \cup {x})
        /\ Cardinality(T \cup {x}) = IF x \in T THEN Cardinality(T) ELSE Cardinality(T) + 1
    BY FS_AddElement
  <2>2. Cardinality(T) \in Nat
    BY FS_CardinalityType
  <2> QED BY <2>1, <2>2
<1>2. IsFiniteSet(S) /\ Cardinality(S) <= Cardinality(T \cup {x})
  BY <1>1, FS_Subset
<1>3. Cardinality(S) \in Nat /\ Cardinality(T) \in Nat /\ Cardinality(T \cup {x}) \in Nat
  BY <1>1, <1>2, FS_CardinalityType
<1> QED BY <1>1, <1>2, <1>3

LEMMA NoMore ==
  ASSUME NEW S, NEW T, IsFiniteSet(T), S \subseteq T
  PROVE  Cardinality(S) \in Nat /\ Cardinality(T) \in Nat /\ Cardinality(S) <= Cardinality(T)
BY FS_Subset, FS_CardinalityType

\* What is gone is finite, with or without the frames a subscriber has.
LEMMA GoneFinite ==
  ASSUME RxTypes, NEW k \in Nat, NEW S
  PROVE  IsFiniteSet(Gone(k)) /\ IsFiniteSet(Gone(k) \ S)
<1>1. IsFiniteSet((k + 1)..published)
  BY FS_Interval DEF RxTypes
<1> QED BY <1>1, FS_Subset DEF Gone

\* A queue that loses its first frame, and one that gains a last.
LEMMA RangeTail ==
  ASSUME NEW S, NEW s \in Seq(S), s # <<>>
  PROVE  Range(s) = Range(Tail(s)) \cup {Head(s)}
<1>1. Len(s) \in Nat /\ Len(s) > 0 /\ DOMAIN s = 1..Len(s) /\ Head(s) = s[1]
      /\ DOMAIN Tail(s) = 1..(Len(s) - 1) /\ \A i \in 1..(Len(s) - 1) : Tail(s)[i] = s[i + 1]
  OBVIOUS
<1>2. \A i \in 1..Len(s) : i = 1 \/ (i - 1 \in 1..(Len(s) - 1) /\ s[i] = Tail(s)[i - 1])
  BY <1>1
<1>3. \A i \in 1..(Len(s) - 1) : i + 1 \in 1..Len(s)
  BY <1>1
<1>4. ASSUME NEW i \in 1..Len(s)
      PROVE  s[i] \in Range(Tail(s)) \cup {Head(s)}
  BY <1>1, <1>2 DEF Range
<1>5. Range(Tail(s)) \cup {Head(s)} \subseteq Range(s)
  <2>1. 1 \in 1..Len(s)
    BY <1>1
  <2>2. Head(s) \in Range(s)
    BY <1>1, <2>1 DEF Range
  <2>3. ASSUME NEW i \in DOMAIN Tail(s)
        PROVE  Tail(s)[i] \in Range(s)
    <3>1. Tail(s)[i] = s[i + 1] /\ i + 1 \in DOMAIN s
      BY <1>1, <1>3
    <3> QED BY <3>1 DEF Range
  <2> QED BY <2>2, <2>3 DEF Range
<1>6. Range(s) \subseteq Range(Tail(s)) \cup {Head(s)}
  <2> SUFFICES ASSUME NEW x \in Range(s)
               PROVE  x \in Range(Tail(s)) \cup {Head(s)}
    OBVIOUS
  <2>1. PICK i \in DOMAIN s : x = s[i]
    BY DEF Range
  <2>2. i \in 1..Len(s)
    BY <1>1
  <2> QED BY <1>4, <2>1, <2>2
<1> QED BY <1>5, <1>6

LEMMA RangeAppend ==
  ASSUME RxTypes, NEW x \in 1..MaxFrames
  PROVE  Range(Append(rxChan, x)) = Range(rxChan) \cup {x}
<1> DEFINE s == rxChan
<1>1. s \in Seq(1..MaxFrames)
  BY DEF RxTypes
<1> HIDE DEF s
<1>2. Len(s) \in Nat /\ DOMAIN s = 1..Len(s) /\ DOMAIN Append(s, x) = 1..(Len(s) + 1)
      /\ Append(s, x)[Len(s) + 1] = x /\ \A i \in 1..Len(s) : Append(s, x)[i] = s[i]
  BY <1>1
<1>3. Range(Append(s, x)) = Range(s) \cup {x}
  BY <1>2 DEF Range
<1> QED BY <1>3 DEF s

\* No count falls and no frame goes missing.
LEMMA CountedKept ==
  ASSUME Counted, RxTypes, FanTypes, HistTypes, HistTypes', ~cancelled' => ~cancelled,
         stats'.source >= stats.source, stats'.subscriber >= stats.subscriber,
         Gone(dispatched)' \subseteq Gone(dispatched),
         \A c \in fan'.subs : c \in fan.subs /\ (Gone(sub[c].from) \ sub[c].seen)'
                                \subseteq Gone(sub[c].from) \ sub[c].seen
  PROVE  Counted'
<1> SUFFICES ASSUME ~cancelled'
             PROVE  (/\ Cardinality(Gone(dispatched)) <= stats.source
                     /\ \A c \in fan.subs : Cardinality(Gone(sub[c].from) \ sub[c].seen)
                                              <= stats.source + stats.subscriber)'
  BY DEF Counted
<1>1. /\ stats.source \in Nat /\ stats.subscriber \in Nat
      /\ stats'.source \in Nat /\ stats'.subscriber \in Nat
  BY DEF HistTypes
<1>2. Cardinality(Gone(dispatched)') <= stats'.source
  <2>0. dispatched \in Nat
    BY DEF RxTypes
  <2>1. IsFiniteSet(Gone(dispatched))
    BY <2>0, GoneFinite
  <2>2. Cardinality(Gone(dispatched)') \in Nat /\ Cardinality(Gone(dispatched)) \in Nat
        /\ Cardinality(Gone(dispatched)') <= Cardinality(Gone(dispatched))
    BY <2>1, NoMore
  <2> QED BY <1>1, <2>2 DEF Counted
<1>3. ASSUME NEW c \in fan'.subs
      PROVE  Cardinality((Gone(sub[c].from) \ sub[c].seen)') <= stats'.source + stats'.subscriber
  <2>1. c \in fan.subs /\ sub[c].from \in Nat
    BY DEF FanTypes
  <2>2. IsFiniteSet(Gone(sub[c].from) \ sub[c].seen)
    BY <2>1, GoneFinite
  <2>3. Cardinality((Gone(sub[c].from) \ sub[c].seen)') \in Nat
        /\ Cardinality(Gone(sub[c].from) \ sub[c].seen) \in Nat
        /\ Cardinality((Gone(sub[c].from) \ sub[c].seen)')
             <= Cardinality(Gone(sub[c].from) \ sub[c].seen)
    BY <2>2, NoMore
  <2> QED BY <1>1, <2>1, <2>3 DEF Counted
<1> QED BY <1>2, <1>3

\* Subscribe leaves everything as it is, or makes one channel.
Made(c) ==
  /\ fan.present
  /\ sub' = [sub EXCEPT ![c] = [@ EXCEPT !.state = IF fan.closed THEN "closed" ELSE "open",
                                         !.from = dispatched]]
  /\ fan' = IF fan.closed THEN fan ELSE [fan EXCEPT !.subs = @ \cup {c}]

LEMMA SubscribeMakes ==
  ASSUME NEW p \in Proc, Subscribe(p)
  PROVE  UNCHANGED <<fan, sub>> \/ \E c \in Unused : Made(c)
<1>1. CASE ~fan.present
  BY <1>1 DEF Subscribe
<1>2. CASE fan.present
  <2> DEFINE ch == CHOOSE x \in Unused : TRUE
  <2>1. ch \in Unused
    BY <1>2 DEF Subscribe
  <2>2. Made(ch)
    BY <1>2 DEF Subscribe, Made
  <2> QED BY <2>1, <2>2
<1> QED BY <1>1, <1>2

\* A reading of a frame leaves rxChan as it is, or puts the frame behind the others.
LEMMA ReadFrameReads ==
  ASSUME ReadFrame
  PROVE  /\ hw > 0 /\ hw' = hw - 1 /\ published' = published + 1
         /\ \/ rxChan' = rxChan
            \/ Len(rxChan) < RxCap /\ rxChan' = Append(rxChan, published + 1)
<1>1. hw > 0 /\ hw' = hw - 1 /\ published' = published + 1
  BY DEF ReadFrame
<1>2. Publish \/ PublishCancelled
  BY DEF ReadFrame
<1> QED BY <1>1, <1>2 DEF Publish, PublishCancelled

LEMMA ReportTypes ==
  ASSUME ErrorCap \in Nat, errorChan \in 0..ErrorCap, NEW k \in Nat, Report(k)
  PROVE  errorChan' \in 0..ErrorCap
BY DEF Report, Min2

LEMMA Naturals ==
  ASSUME RxTypes, HistTypes
  PROVE  /\ published \in Nat /\ dispatched \in Nat /\ hw \in Nat
         /\ Len(rxChan) \in Nat /\ \A i \in 1..Len(rxChan) : rxChan[i] \in 1..MaxFrames
         /\ stats.source \in Nat /\ stats.subscriber \in Nat
BY Bounds DEF RxTypes, HistTypes

LEMMA HeadTail ==
  ASSUME NEW S, NEW s \in Seq(S), s # <<>>
  PROVE  /\ Len(s) \in Nat /\ Len(s) > 0 /\ Head(s) = s[1] /\ Head(s) \in S
         /\ Tail(s) \in Seq(S) /\ Len(Tail(s)) = Len(s) - 1
         /\ \A i \in 1..(Len(s) - 1) : Tail(s)[i] = s[i + 1]
OBVIOUS

\* A dispatch takes the first frame.
LEMMA DispatchTakes ==
  ASSUME RxTypes, Dispatch
  PROVE  /\ Len(rxChan) > 0 /\ dispatched' = Head(rxChan) /\ Head(rxChan) = rxChan[1]
         /\ Head(rxChan) \in 1..MaxFrames /\ 1 \in 1..Len(rxChan)
         /\ rxChan' \in Seq(1..MaxFrames) /\ Len(rxChan') = Len(rxChan) - 1
         /\ \A i \in 1..Len(rxChan') : rxChan'[i] = rxChan[i + 1] /\ i + 1 \in 1..Len(rxChan)
<1>1. rxChan # <<>> /\ rxChan' = Tail(rxChan) /\ dispatched' = Head(rxChan)
  BY DEF Dispatch
<1>2. rxChan \in Seq(1..MaxFrames)
  BY DEF RxTypes
<1>3. /\ Len(rxChan) \in Nat /\ Len(rxChan) > 0 /\ Head(rxChan) = rxChan[1]
      /\ Head(rxChan) \in 1..MaxFrames /\ Tail(rxChan) \in Seq(1..MaxFrames)
      /\ Len(Tail(rxChan)) = Len(rxChan) - 1
      /\ \A i \in 1..(Len(rxChan) - 1) : Tail(rxChan)[i] = rxChan[i + 1]
  BY <1>1, <1>2, HeadTail
<1>4. 1 \in 1..Len(rxChan) /\ \A i \in 1..(Len(rxChan) - 1) : i + 1 \in 1..Len(rxChan)
  BY <1>3
<1> QED BY <1>1, <1>3, <1>4

-----------------------------------------------------------------------------
(* One lemma for each action. *)

\* A goroutine is called: it holds no lock, and what it sends is its own.
LEMMA CallStep ==
  ASSUME IInv, NEW p \in Proc, Call(p)
  PROVE  IInv'
<1> USE DEF busVars, devVars, rxVars, fanVars, histVars
<1>1. /\ CallTypes /\ DeviceTypes /\ RxTypes /\ FanTypes /\ HistTypes /\ Locks /\ Device /\ Owned
      /\ Channels /\ Usable /\ OwnBRS /\ NoPanic /\ FrameKeepsBRS /\ Order /\ Counted
  BY DEF IInv, TypeOK, Control, History
<1>2. DeviceTypes' /\ RxTypes' /\ FanTypes' /\ HistTypes' /\ Channels' /\ NoPanic'
      /\ FrameKeepsBRS' /\ Order' /\ Counted'
  BY <1>1, Kept DEF Call
<1>3. CallTypes'
  BY <1>1 DEF CallTypes, PCs, Call, Goto
<1>4. Locks'
  BY <1>1 DEF Locks, OpMuHeld, MuHeld, SendMuHeld, InStop, Stopping, CallTypes, Call, Goto,
     At
<1>5. Device'
  BY <1>1 DEF Device, CallTypes, Call, Goto
<1>6. Owned'
  BY <1>1 DEF Owned, CallTypes, Call, Goto, At
<1>7. Usable'
  BY <1>1 DEF Usable, Works, CallTypes, Call, Goto
<1>8. OwnBRS'
  BY <1>1 DEF OwnBRS, CallTypes, DeviceTypes, Locks, SendMuHeld, Stopping, InStop, Call,
     Goto, At
<1> QED BY <1>2, <1>3, <1>4, <1>5, <1>6, <1>7, <1>8
  DEF IInv, TypeOK, Control, History

\* Open takes the write lock, or finds the bus open.
LEMMA OpenLockStep ==
  ASSUME IInv, NEW p \in Proc, OpenLock(p)
  PROVE  IInv'
<1> USE DEF busVars, devVars, rxVars, fanVars, histVars
<1>1. /\ CallTypes /\ DeviceTypes /\ RxTypes /\ FanTypes /\ HistTypes /\ Locks /\ Device /\ Owned
      /\ Channels /\ Usable /\ OwnBRS /\ NoPanic /\ FrameKeepsBRS /\ Order /\ Counted
  BY DEF IInv, TypeOK, Control, History
<1>2. DeviceTypes' /\ RxTypes' /\ FanTypes' /\ HistTypes' /\ Channels' /\ NoPanic'
      /\ FrameKeepsBRS' /\ Order' /\ Counted'
  BY <1>1, Kept DEF OpenLock
<1>3. CallTypes'
  BY <1>1 DEF CallTypes, PCs, OpenLock, Goto
<1>4. Locks'
  BY <1>1, ProcAssumption DEF Locks, OpMuHeld, MuHeld, SendMuHeld, InStop, Stopping,
     CallTypes, OpenLock, Goto, At
<1>5. Device'
  BY <1>1 DEF Device, CallTypes, OpenLock, Goto
<1>6. Owned'
  BY <1>1 DEF Owned, CallTypes, OpenLock, Goto, At
<1>7. Usable'
  BY <1>1 DEF Usable, Works, CallTypes, OpenLock, Goto
<1>8. OwnBRS'
  BY <1>1 DEF OwnBRS, CallTypes, DeviceTypes, Locks, SendMuHeld, Stopping, InStop, OpenLock,
     Goto, At
<1> QED BY <1>2, <1>3, <1>4, <1>5, <1>6, <1>7, <1>8
  DEF IInv, TypeOK, Control, History

\* Open finds a device that a Close has yet to stop.
LEMMA InitializeAgainStep ==
  ASSUME IInv, NEW p \in Proc, InitializeAgain(p)
  PROVE  IInv'
<1> USE DEF busVars, devVars, rxVars, fanVars, histVars
<1>1. /\ CallTypes /\ DeviceTypes /\ RxTypes /\ FanTypes /\ HistTypes /\ Locks /\ Device /\ Owned
      /\ Channels /\ Usable /\ OwnBRS /\ NoPanic /\ FrameKeepsBRS /\ Order /\ Counted
  BY DEF IInv, TypeOK, Control, History
<1>2. DeviceTypes' /\ RxTypes' /\ FanTypes' /\ Channels' /\ NoPanic' /\ FrameKeepsBRS'
      /\ Order' /\ Counted'
  BY <1>1, Kept DEF InitializeAgain
<1>3. CallTypes'
  BY <1>1 DEF CallTypes, PCs, InitializeAgain, Goto
<1>4. HistTypes'
  BY <1>1 DEF HistTypes, InitializeAgain
<1>5. Locks'
  BY <1>1 DEF Locks, OpMuHeld, MuHeld, SendMuHeld, InStop, InitializeAgain, Goto, At
<1>6. Device'
  BY <1>1 DEF Device, InitializeAgain, Goto
<1>7. Owned'
  BY <1>1 DEF Owned, InitializeAgain, Goto
<1>8. Usable'
  BY <1>1 DEF Usable, InitializeAgain
<1>9. OwnBRS'
  BY <1>1 DEF OwnBRS, CallTypes, DeviceTypes, Locks, SendMuHeld, Stopping, InStop,
     InitializeAgain, Goto, At
<1> QED BY <1>2, <1>3, <1>4, <1>5, <1>6, <1>7, <1>8, <1>9
  DEF IInv, TypeOK, Control, History

\* Open fails on a device that is not initialized.
LEMMA InitializeFailsStep ==
  ASSUME IInv, NEW p \in Proc, InitializeFails(p)
  PROVE  IInv'
<1> USE DEF busVars, devVars, rxVars, fanVars, histVars
<1>1. /\ CallTypes /\ DeviceTypes /\ RxTypes /\ FanTypes /\ HistTypes /\ Locks /\ Device /\ Owned
      /\ Channels /\ Usable /\ OwnBRS /\ NoPanic /\ FrameKeepsBRS /\ Order /\ Counted
  BY DEF IInv, TypeOK, Control, History
<1>2. RxTypes' /\ FanTypes' /\ Channels' /\ NoPanic' /\ FrameKeepsBRS' /\ Order'
  BY <1>1, Kept DEF InitializeFails
<1>3. CallTypes'
  BY <1>1 DEF CallTypes, PCs, InitializeFails, Goto
<1>4. DeviceTypes'
  BY <1>1 DEF DeviceTypes, InitializeFails
<1>5. HistTypes'
  BY <1>1 DEF HistTypes, InitializeFails, NoDrops
<1>6. Locks'
  BY <1>1 DEF Locks, OpMuHeld, MuHeld, SendMuHeld, InStop, Stopping, InitializeFails, Goto,
     At
<1>7. Device'
  BY <1>1 DEF Device, InitializeFails
<1>8. Owned'
  BY <1>1 DEF Owned, InitializeFails
<1>9. Usable'
  BY <1>1 DEF Usable, Locks, MuHeld, Device, InitializeFails, Goto, At
<1>10. OwnBRS'
  BY <1>1 DEF OwnBRS, InitializeFails, Goto
<1>11. Counted'
  BY <1>1 DEF Counted, Gone, RxTypes, FanTypes, Channels, InitializeFails, ConfigValid,
     NoDrops, At
<1> QED BY <1>2, <1>3, <1>4, <1>5, <1>6, <1>7, <1>8, <1>9, <1>10, <1>11
  DEF IInv, TypeOK, Control, History

\* A session begins: nothing is left of the last one.
LEMMA InitializeStep ==
  ASSUME IInv, NEW p \in Proc, Initialize(p)
  PROVE  IInv'
<1> USE DEF busVars, devVars, rxVars, fanVars, histVars
<1>1. /\ CallTypes /\ DeviceTypes /\ RxTypes /\ FanTypes /\ HistTypes /\ Locks /\ Device /\ Owned
      /\ Channels /\ Usable /\ OwnBRS /\ NoPanic /\ FrameKeepsBRS /\ Order /\ Counted
  BY DEF IInv, TypeOK, Control, History
<1>2. NoPanic' /\ FrameKeepsBRS'
  BY <1>1, Kept DEF Initialize
<1>3. CallTypes'
  BY <1>1 DEF CallTypes, PCs, Initialize, Goto
<1>4. DeviceTypes'
  BY <1>1 DEF DeviceTypes, Initialize
<1>5. RxTypes'
  BY <1>1, Bounds DEF RxTypes, Initialize
<1>6. FanTypes'
  BY <1>1 DEF FanTypes, Initialize, NewFanout, NoFanout
<1>7. HistTypes'
  BY <1>1 DEF HistTypes, Initialize, NoDrops
<1>8. Locks'
  BY <1>1 DEF Locks, OpMuHeld, MuHeld, SendMuHeld, InStop, Initialize, Goto, At
<1>9. Device'
  BY <1>1 DEF Device, Initialize
<1>10. Owned'
  BY <1>1 DEF Owned, CallTypes, Initialize, Goto
<1>11. Channels'
  BY <1>1 DEF Channels, Device, Initialize, NewFanout, NoFanout
<1>12. Usable'
  BY <1>1 DEF Usable, Works, Locks, MuHeld, Initialize, NewFanout, NoFanout, Goto, At
<1>13. OwnBRS'
  BY <1>1 DEF OwnBRS, Initialize, Goto
<1>14. Order'
  BY <1>1 DEF Order, RxTypes, Initialize, NewFanout, NoFanout, NoDrops, At
<1>15. Counted'
  <2>1. Gone(dispatched)' = {}
    BY <1>1 DEF Gone, RxTypes, Initialize
  <2>2. fan'.subs = {} /\ stats'.source = 0
    BY DEF Initialize, NewFanout, NoFanout, NoDrops
  <2> QED BY <2>1, <2>2, FS_EmptySet DEF Counted
<1> QED BY <1>2, <1>3, <1>4, <1>5, <1>6, <1>7, <1>8, <1>9, <1>10, <1>11, <1>12, <1>13,
     <1>14, <1>15
  DEF IInv, TypeOK, Control, History

\* The read loop starts, unless it runs, and the bus is open.
LEMMA StartStep ==
  ASSUME IInv, NEW p \in Proc, Start(p)
  PROVE  IInv'
<1> USE DEF busVars, devVars, rxVars, fanVars, histVars
<1>1. /\ CallTypes /\ DeviceTypes /\ RxTypes /\ FanTypes /\ HistTypes /\ Locks /\ Device /\ Owned
      /\ Channels /\ Usable /\ OwnBRS /\ NoPanic /\ FrameKeepsBRS /\ Order /\ Counted
  BY DEF IInv, TypeOK, Control, History
<1>2. FanTypes' /\ HistTypes' /\ Channels' /\ NoPanic' /\ FrameKeepsBRS' /\ Counted'
  BY <1>1, Kept DEF Start
<1>3. CallTypes'
  BY <1>1 DEF CallTypes, PCs, Start, DrainInitialBuffer, StartReadLoop, Goto, At
<1>4. DeviceTypes'
  <2>1. dev' = [dev EXCEPT !.running = TRUE]
    BY DEF Start, StartReadLoop
  <2>2. readers' \in [select : Nat, burst : Nat]
    BY <1>1 DEF DeviceTypes, Start, StartReadLoop
  <2> QED BY <1>1, <2>1, <2>2 DEF DeviceTypes, Start
<1>5. RxTypes'
  BY <1>1, Bounds DEF RxTypes, Start, DrainInitialBuffer
<1>6. Locks'
  BY <1>1, ProcAssumption DEF Locks, OpMuHeld, MuHeld, SendMuHeld, InStop, Stopping,
     CallTypes, Start, Goto, At
<1>7. Device'
  BY <1>1, ProcAssumption DEF Device, Locks, OpMuHeld, InStop, DeviceTypes, Start,
     StartReadLoop, Goto
<1>8. Owned'
  BY <1>1 DEF Owned, Start
<1>9. Usable'
  BY <1>1 DEF Usable, Works, Locks, SendMuHeld, Stopping, Start, StartReadLoop, Goto, At
<1>10. OwnBRS'
  BY <1>1 DEF OwnBRS, Start, StartReadLoop, Goto
<1>11. Order'
  BY <1>1 DEF Order, RxTypes, Start, DrainInitialBuffer, StartReadLoop, At
<1> QED BY <1>2, <1>3, <1>4, <1>5, <1>6, <1>7, <1>8, <1>9, <1>10, <1>11
  DEF IInv, TypeOK, Control, History

\* The device was stopped between initialize and start.
LEMMA StartFailsStep ==
  ASSUME IInv, NEW p \in Proc, StartFails(p)
  PROVE  IInv'
<1> USE DEF busVars, devVars, rxVars, fanVars, histVars
<1>1. /\ CallTypes /\ DeviceTypes /\ RxTypes /\ FanTypes /\ HistTypes /\ Locks /\ Device /\ Owned
      /\ Channels /\ Usable /\ OwnBRS /\ NoPanic /\ FrameKeepsBRS /\ Order /\ Counted
  BY DEF IInv, TypeOK, Control, History
<1>2. DeviceTypes' /\ RxTypes' /\ FanTypes' /\ HistTypes' /\ Channels' /\ NoPanic'
      /\ FrameKeepsBRS' /\ Order' /\ Counted'
  BY <1>1, Kept DEF StartFails
<1>3. CallTypes'
  BY <1>1 DEF CallTypes, PCs, StartFails, Goto
<1>4. Locks'
  BY <1>1 DEF Locks, OpMuHeld, MuHeld, SendMuHeld, InStop, Stopping, StartFails, Goto, At
<1>5. Device'
  BY <1>1 DEF Device, StartFails
<1>6. Owned'
  BY <1>1 DEF Owned, StartFails
<1>7. Usable'
  BY <1>1 DEF Usable, Locks, MuHeld, Device, CallTypes, StartFails, Goto, At
<1>8. OwnBRS'
  BY <1>1 DEF OwnBRS, CallTypes, DeviceTypes, Locks, SendMuHeld, Stopping, InStop,
     StartFails, Goto, At
<1> QED BY <1>2, <1>3, <1>4, <1>5, <1>6, <1>7, <1>8
  DEF IInv, TypeOK, Control, History

\* Close takes sendMu.
LEMMA CloseLockStep ==
  ASSUME IInv, NEW p \in Proc, CloseLock(p)
  PROVE  IInv'
<1> USE DEF busVars, devVars, rxVars, fanVars, histVars
<1>1. /\ CallTypes /\ DeviceTypes /\ RxTypes /\ FanTypes /\ HistTypes /\ Locks /\ Device /\ Owned
      /\ Channels /\ Usable /\ OwnBRS /\ NoPanic /\ FrameKeepsBRS /\ Order /\ Counted
  BY DEF IInv, TypeOK, Control, History
<1>2. DeviceTypes' /\ RxTypes' /\ FanTypes' /\ HistTypes' /\ Channels' /\ NoPanic'
      /\ FrameKeepsBRS' /\ Order' /\ Counted'
  BY <1>1, Kept DEF CloseLock
<1>3. CallTypes'
  BY <1>1 DEF CallTypes, PCs, CloseLock, Goto
<1>4. Locks'
  BY <1>1, ProcAssumption DEF Locks, OpMuHeld, MuHeld, SendMuHeld, InStop, Stopping,
     CallTypes, CloseLock, Goto, At
<1>5. Device'
  BY <1>1 DEF Device, CloseLock, Goto
<1>6. Owned'
  BY <1>1 DEF Owned, CloseLock, Goto, At
<1>7. Usable'
  BY <1>1 DEF Usable, Works, CloseLock, Goto, At
<1>8. OwnBRS'
  BY <1>1 DEF OwnBRS, CallTypes, DeviceTypes, Locks, SendMuHeld, Stopping, InStop,
     CloseLock, Goto, At
<1> QED BY <1>2, <1>3, <1>4, <1>5, <1>6, <1>7, <1>8
  DEF IInv, TypeOK, Control, History

\* The bus is closed; its device, if it was open, still works.
LEMMA CloseBusStep ==
  ASSUME IInv, NEW p \in Proc, CloseBus(p)
  PROVE  IInv'
<1> USE DEF busVars, devVars, rxVars, fanVars, histVars
<1>1. /\ CallTypes /\ DeviceTypes /\ RxTypes /\ FanTypes /\ HistTypes /\ Locks /\ Device /\ Owned
      /\ Channels /\ Usable /\ OwnBRS /\ NoPanic /\ FrameKeepsBRS /\ Order /\ Counted
  BY DEF IInv, TypeOK, Control, History
<1>2. DeviceTypes' /\ RxTypes' /\ FanTypes' /\ HistTypes' /\ Channels' /\ NoPanic'
      /\ FrameKeepsBRS' /\ Order' /\ Counted'
  BY <1>1, Kept DEF CloseBus
<1>3. CallTypes'
  BY <1>1 DEF CallTypes, PCs, CloseBus, Goto
<1>4. Locks'
  BY <1>1, ProcAssumption DEF Locks, OpMuHeld, MuHeld, SendMuHeld, InStop, Stopping,
     CallTypes, CloseBus, Goto, At
<1>5. Device'
  BY <1>1 DEF Device, CallTypes, CloseBus, Goto
<1>6. Owned'
  BY <1>1 DEF Owned, CallTypes, CloseBus, Goto, At
<1>7. Usable'
  BY <1>1 DEF Usable, Locks, OpMuHeld, MuHeld, SendMuHeld, Stopping, InStop, Device,
     CallTypes, CloseBus, Goto, At
<1>8. OwnBRS'
  BY <1>1 DEF OwnBRS, CallTypes, DeviceTypes, Locks, SendMuHeld, Stopping, InStop, CloseBus,
     Goto, At
<1> QED BY <1>2, <1>3, <1>4, <1>5, <1>6, <1>7, <1>8
  DEF IInv, TypeOK, Control, History

\* A stop takes the device, which is no longer initialized, and cancels its context.
LEMMA StopBeginStep ==
  ASSUME IInv, NEW p \in Proc, StopBegin(p)
  PROVE  IInv'
<1> USE DEF busVars, devVars, rxVars, fanVars, histVars
<1>1. /\ CallTypes /\ DeviceTypes /\ RxTypes /\ FanTypes /\ HistTypes /\ Locks /\ Device /\ Owned
      /\ Channels /\ Usable /\ OwnBRS /\ NoPanic /\ FrameKeepsBRS /\ Order /\ Counted
  BY DEF IInv, TypeOK, Control, History
<1>2. RxTypes' /\ FanTypes' /\ HistTypes' /\ Channels' /\ NoPanic' /\ FrameKeepsBRS'
      /\ Order'
  BY <1>1, Kept DEF StopBegin
<1>3. CallTypes'
  BY <1>1 DEF CallTypes, PCs, StopBegin, Goto
<1>4. DeviceTypes'
  BY <1>1 DEF DeviceTypes, StopBegin
<1>5. Locks'
  BY <1>1, ProcAssumption DEF Locks, OpMuHeld, MuHeld, SendMuHeld, InStop, Stopping,
     CallTypes, StopBegin, Goto, At
<1>6. Device'
  BY <1>1 DEF Device, Locks, OpMuHeld, InStop, StopBegin, Goto, At
<1>7. Owned'
  BY <1>1 DEF Owned, StopBegin
<1>8. Usable'
  BY <1>1 DEF Usable, Locks, MuHeld, SendMuHeld, Stopping, Device, CallTypes, StopBegin,
     Goto, At
<1>9. OwnBRS'
  BY <1>1 DEF OwnBRS, StopBegin, Goto
<1>10. Counted'
  BY <1>1 DEF Counted, Gone, RxTypes, FanTypes, Channels, StopBegin, At
<1> QED BY <1>2, <1>3, <1>4, <1>5, <1>6, <1>7, <1>8, <1>9, <1>10
  DEF IInv, TypeOK, Control, History

\* Nothing of the read loop is left.
LEMMA StopReadStep ==
  ASSUME IInv, NEW p \in Proc, StopRead(p)
  PROVE  IInv'
<1> USE DEF busVars, devVars, rxVars, fanVars, histVars
<1>1. /\ CallTypes /\ DeviceTypes /\ RxTypes /\ FanTypes /\ HistTypes /\ Locks /\ Device /\ Owned
      /\ Channels /\ Usable /\ OwnBRS /\ NoPanic /\ FrameKeepsBRS /\ Order /\ Counted
  BY DEF IInv, TypeOK, Control, History
<1>2. DeviceTypes' /\ RxTypes' /\ FanTypes' /\ HistTypes' /\ Channels' /\ NoPanic'
      /\ FrameKeepsBRS' /\ Order' /\ Counted'
  BY <1>1, Kept DEF StopRead
<1>3. CallTypes'
  BY <1>1 DEF CallTypes, PCs, StopRead, Goto
<1>4. Locks'
  BY <1>1 DEF Locks, OpMuHeld, MuHeld, SendMuHeld, InStop, Stopping, StopRead, Goto, At
<1>5. Device'
  BY <1>1 DEF Device, StopRead, NoReader
<1>6. Owned'
  BY <1>1 DEF Owned, StopRead, Goto, At
<1>7. Usable'
  BY <1>1 DEF Usable, Works, StopRead, Goto
<1>8. OwnBRS'
  BY <1>1 DEF OwnBRS, CallTypes, DeviceTypes, Locks, SendMuHeld, Stopping, InStop, StopRead,
     NoReader, Goto, At
<1> QED BY <1>2, <1>3, <1>4, <1>5, <1>6, <1>7, <1>8
  DEF IInv, TypeOK, Control, History

\* stop closes the fan-out, unless its goroutine did.
LEMMA StopFanoutStep ==
  ASSUME IInv, NEW p \in Proc, StopFanout(p)
  PROVE  IInv'
<1> USE DEF busVars, devVars, rxVars, fanVars, histVars
<1>1. /\ CallTypes /\ DeviceTypes /\ RxTypes /\ FanTypes /\ HistTypes /\ Locks /\ Device /\ Owned
      /\ Channels /\ Usable /\ OwnBRS /\ NoPanic /\ FrameKeepsBRS /\ Order /\ Counted
  BY DEF IInv, TypeOK, Control, History
<1>2. DeviceTypes' /\ RxTypes' /\ HistTypes' /\ NoPanic' /\ FrameKeepsBRS' /\ Order'
  BY <1>1, Kept DEF StopFanout
<1>3. CallTypes'
  BY <1>1 DEF CallTypes, PCs, StopFanout, Goto
<1>4. FanTypes'
  BY <1>1 DEF FanTypes, StopFanout, CloseAll
<1>5. Locks'
  BY <1>1 DEF Locks, OpMuHeld, MuHeld, SendMuHeld, InStop, Stopping, StopFanout, Goto, At
<1>6. Device'
  BY <1>1, ProcAssumption DEF Device, Locks, OpMuHeld, InStop, StopFanout, At
<1>7. Owned'
  BY <1>1 DEF Owned, StopFanout, Goto, At
<1>8. Channels'
  BY <1>1, FS_EmptySet DEF Channels, StopFanout, CloseAll
<1>9. Usable'
  BY <1>1, ProcAssumption DEF Usable, Works, Locks, OpMuHeld, InStop, Device, StopFanout,
     Goto, At
<1>10. OwnBRS'
  BY <1>1 DEF OwnBRS, StopFanout, Goto
<1>11. Counted'
  BY <1>1 DEF Counted, Gone, RxTypes, FanTypes, Channels, StopFanout, CloseAll, At
<1> QED BY <1>2, <1>3, <1>4, <1>5, <1>6, <1>7, <1>8, <1>9, <1>10, <1>11
  DEF IInv, TypeOK, Control, History

\* The fan-out has gone with its subscriptions, and the hardware with it.
LEMMA StopEndStep ==
  ASSUME IInv, NEW p \in Proc, StopEnd(p)
  PROVE  IInv'
<1> USE DEF busVars, devVars, rxVars, fanVars, histVars
<1>1. /\ CallTypes /\ DeviceTypes /\ RxTypes /\ FanTypes /\ HistTypes /\ Locks /\ Device /\ Owned
      /\ Channels /\ Usable /\ OwnBRS /\ NoPanic /\ FrameKeepsBRS /\ Order /\ Counted
  BY DEF IInv, TypeOK, Control, History
<1>2. HistTypes' /\ NoPanic' /\ FrameKeepsBRS'
  BY <1>1, Kept DEF StopEnd
<1>3. CallTypes'
  BY <1>1 DEF CallTypes, PCs, StopEnd, Goto
<1>4. DeviceTypes'
  BY <1>1 DEF DeviceTypes, StopEnd
<1>5. RxTypes'
  BY <1>1, Bounds DEF RxTypes, StopEnd
<1>6. FanTypes'
  BY <1>1 DEF FanTypes, StopEnd, NoFanout
<1>7. Locks'
  BY <1>1, ProcAssumption DEF Locks, OpMuHeld, MuHeld, SendMuHeld, InStop, Stopping,
     CallTypes, StopEnd, Goto, At
<1>8. Device'
  BY <1>1, ProcAssumption DEF Device, Locks, OpMuHeld, InStop, StopEnd, At
<1>9. Owned'
  BY <1>1 DEF Owned, StopEnd, Goto, At
<1>10. Channels'
  BY <1>1 DEF Channels, StopEnd, NoFanout
<1>11. Usable'
  BY <1>1, ProcAssumption DEF Usable, Works, CallTypes, StopEnd, Goto
<1>12. OwnBRS'
  BY <1>1 DEF OwnBRS, StopEnd, Goto
<1>13. Order'
  BY <1>1 DEF Order, RxTypes, StopEnd, NoFanout, At
<1>14. Counted'
  BY <1>1, ProcAssumption DEF Counted, Device, Locks, OpMuHeld, InStop, StopEnd, At
<1> QED BY <1>2, <1>3, <1>4, <1>5, <1>6, <1>7, <1>8, <1>9, <1>10, <1>11, <1>12, <1>13, <1>14
  DEF IInv, TypeOK, Control, History

\* Send takes sendMu.
LEMMA SendLockStep ==
  ASSUME IInv, NEW p \in Proc, SendLock(p)
  PROVE  IInv'
<1> USE DEF busVars, devVars, rxVars, fanVars, histVars
<1>1. /\ CallTypes /\ DeviceTypes /\ RxTypes /\ FanTypes /\ HistTypes /\ Locks /\ Device /\ Owned
      /\ Channels /\ Usable /\ OwnBRS /\ NoPanic /\ FrameKeepsBRS /\ Order /\ Counted
  BY DEF IInv, TypeOK, Control, History
<1>2. DeviceTypes' /\ RxTypes' /\ FanTypes' /\ HistTypes' /\ Channels' /\ NoPanic'
      /\ FrameKeepsBRS' /\ Order' /\ Counted'
  BY <1>1, Kept DEF SendLock
<1>3. CallTypes'
  BY <1>1 DEF CallTypes, PCs, SendLock, Goto
<1>4. Locks'
  BY <1>1, ProcAssumption DEF Locks, OpMuHeld, MuHeld, SendMuHeld, InStop, Stopping,
     CallTypes, SendLock, Goto, At
<1>5. Device'
  BY <1>1 DEF Device, SendLock, Goto
<1>6. Owned'
  BY <1>1 DEF Owned, SendLock, Goto, At
<1>7. Usable'
  BY <1>1 DEF Usable, Works, SendLock, Goto, At
<1>8. OwnBRS'
  BY <1>1 DEF OwnBRS, CallTypes, DeviceTypes, Locks, SendMuHeld, Stopping, InStop, SendLock,
     Goto, At
<1> QED BY <1>2, <1>3, <1>4, <1>5, <1>6, <1>7, <1>8
  DEF IInv, TypeOK, Control, History

\* Send finds the bus open, or gives up.
LEMMA SendCheckStep ==
  ASSUME IInv, NEW p \in Proc, SendCheck(p)
  PROVE  IInv'
<1> USE DEF busVars, devVars, rxVars, fanVars, histVars
<1>1. /\ CallTypes /\ DeviceTypes /\ RxTypes /\ FanTypes /\ HistTypes /\ Locks /\ Device /\ Owned
      /\ Channels /\ Usable /\ OwnBRS /\ NoPanic /\ FrameKeepsBRS /\ Order /\ Counted
  BY DEF IInv, TypeOK, Control, History
<1>2. DeviceTypes' /\ RxTypes' /\ FanTypes' /\ HistTypes' /\ Channels' /\ NoPanic'
      /\ FrameKeepsBRS' /\ Order' /\ Counted'
  BY <1>1, Kept DEF SendCheck
<1>3. CallTypes'
  BY <1>1 DEF CallTypes, PCs, SendCheck, Goto
<1>4. Locks'
  BY <1>1, ProcAssumption DEF Locks, OpMuHeld, MuHeld, SendMuHeld, InStop, Stopping,
     CallTypes, SendCheck, Goto, At
<1>5. Device'
  BY <1>1 DEF Device, CallTypes, SendCheck, Goto
<1>6. Owned'
  BY <1>1 DEF Owned, CallTypes, SendCheck, Goto, At
<1>7. Usable'
  BY <1>1 DEF Usable, Works, Locks, OpMuHeld, SendMuHeld, Stopping, InStop, CallTypes,
     SendCheck, Goto, At
<1>8. OwnBRS'
  BY <1>1 DEF OwnBRS, CallTypes, DeviceTypes, Locks, SendMuHeld, Stopping, InStop,
     SendCheck, Goto, At
<1> QED BY <1>2, <1>3, <1>4, <1>5, <1>6, <1>7, <1>8
  DEF IInv, TypeOK, Control, History

\* Only the holder of sendMu changes the BRS.
LEMMA SetBRSStep ==
  ASSUME IInv, NEW p \in Proc, SetBRS(p)
  PROVE  IInv'
<1> USE DEF busVars, devVars, rxVars, fanVars, histVars
<1>1. /\ CallTypes /\ DeviceTypes /\ RxTypes /\ FanTypes /\ HistTypes /\ Locks /\ Device /\ Owned
      /\ Channels /\ Usable /\ OwnBRS /\ NoPanic /\ FrameKeepsBRS /\ Order /\ Counted
  BY DEF IInv, TypeOK, Control, History
<1>2. RxTypes' /\ FanTypes' /\ HistTypes' /\ Channels' /\ NoPanic' /\ FrameKeepsBRS'
      /\ Order' /\ Counted'
  BY <1>1, Kept DEF SetBRS
<1>3. CallTypes'
  BY <1>1 DEF CallTypes, PCs, SetBRS, Goto
<1>4. DeviceTypes'
  BY <1>1 DEF DeviceTypes, SetBRS
<1>5. Locks'
  BY <1>1 DEF Locks, OpMuHeld, MuHeld, SendMuHeld, InStop, SetBRS, Goto, At
<1>6. Device'
  BY <1>1 DEF Device, SetBRS, Goto
<1>7. Owned'
  BY <1>1 DEF Owned, SetBRS, Goto, At
<1>8. Usable'
  BY <1>1 DEF Usable, Works, SetBRS, Goto
<1>9. OwnBRS'
  BY <1>1 DEF OwnBRS, CallTypes, DeviceTypes, Locks, SendMuHeld, Stopping, InStop, SetBRS,
     Goto, At
<1> QED BY <1>2, <1>3, <1>4, <1>5, <1>6, <1>7, <1>8, <1>9
  DEF IInv, TypeOK, Control, History

\* A frame leaves with the BRS that was set for it.
LEMMA WriteStep ==
  ASSUME IInv, NEW p \in Proc, Write(p)
  PROVE  IInv'
<1> USE DEF busVars, devVars, rxVars, fanVars, histVars
<1>1. /\ CallTypes /\ DeviceTypes /\ RxTypes /\ FanTypes /\ HistTypes /\ Locks /\ Device /\ Owned
      /\ Channels /\ Usable /\ OwnBRS /\ NoPanic /\ FrameKeepsBRS /\ Order /\ Counted
  BY DEF IInv, TypeOK, Control, History
<1>2. DeviceTypes' /\ RxTypes' /\ FanTypes' /\ Channels' /\ NoPanic' /\ Order'
      /\ Counted'
  BY <1>1, Kept DEF Write
<1>3. CallTypes'
  BY <1>1 DEF CallTypes, PCs, Write, Goto
<1>4. HistTypes'
  BY <1>1 DEF HistTypes, DeviceTypes, OwnBRS, Write, At
<1>5. Locks'
  BY <1>1, ProcAssumption DEF Locks, OpMuHeld, MuHeld, SendMuHeld, InStop, Stopping,
     CallTypes, Write, Goto, At
<1>6. Device'
  BY <1>1 DEF Device, Write, Goto
<1>7. Owned'
  BY <1>1 DEF Owned, Write, Goto, At
<1>8. Usable'
  BY <1>1 DEF Usable, Works, Locks, OpMuHeld, InStop, Write, Goto
<1>9. OwnBRS'
  BY <1>1 DEF OwnBRS, Write, Goto
<1>10. FrameKeepsBRS'
  BY <1>1 DEF FrameKeepsBRS, OwnBRS, CallTypes, DeviceTypes, Write, At
<1> QED BY <1>2, <1>3, <1>4, <1>5, <1>6, <1>7, <1>8, <1>9, <1>10
  DEF IInv, TypeOK, Control, History

\* Subscribe takes the read lock, or finds the bus closed.
LEMMA SubscribeLockStep ==
  ASSUME IInv, NEW p \in Proc, SubscribeLock(p)
  PROVE  IInv'
<1> USE DEF busVars, devVars, rxVars, fanVars, histVars
<1>1. /\ CallTypes /\ DeviceTypes /\ RxTypes /\ FanTypes /\ HistTypes /\ Locks /\ Device /\ Owned
      /\ Channels /\ Usable /\ OwnBRS /\ NoPanic /\ FrameKeepsBRS /\ Order /\ Counted
  BY DEF IInv, TypeOK, Control, History
<1>2. DeviceTypes' /\ RxTypes' /\ FanTypes' /\ HistTypes' /\ Channels' /\ NoPanic'
      /\ FrameKeepsBRS' /\ Order' /\ Counted'
  BY <1>1, Kept DEF SubscribeLock
<1>3. CallTypes'
  BY <1>1 DEF CallTypes, PCs, SubscribeLock, Goto
<1>4. Locks'
  BY <1>1 DEF Locks, OpMuHeld, MuHeld, SendMuHeld, InStop, Stopping, CallTypes,
     SubscribeLock, Goto, At
<1>5. Device'
  BY <1>1 DEF Device, CallTypes, SubscribeLock, Goto
<1>6. Owned'
  BY <1>1 DEF Owned, CallTypes, SubscribeLock, Goto, At
<1>7. Usable'
  BY <1>1 DEF Usable, Works, CallTypes, SubscribeLock, Goto
<1>8. OwnBRS'
  BY <1>1 DEF OwnBRS, CallTypes, DeviceTypes, Locks, SendMuHeld, Stopping, InStop,
     SubscribeLock, Goto, At
<1> QED BY <1>2, <1>3, <1>4, <1>5, <1>6, <1>7, <1>8
  DEF IInv, TypeOK, Control, History

\* A new channel is subscribed from the last frame dispatched, or closed at once.
LEMMA SubscribeStep ==
  ASSUME IInv, NEW p \in Proc, Subscribe(p)
  PROVE  IInv'
<1> USE DEF busVars, devVars, rxVars, fanVars, histVars
<1>1. /\ CallTypes /\ DeviceTypes /\ RxTypes /\ FanTypes /\ HistTypes /\ Locks /\ Device /\ Owned
      /\ Channels /\ Usable /\ OwnBRS /\ NoPanic /\ FrameKeepsBRS /\ Order /\ Counted
  BY DEF IInv, TypeOK, Control, History
<1>2. DeviceTypes' /\ RxTypes' /\ HistTypes' /\ NoPanic' /\ FrameKeepsBRS' /\ Order'
  BY <1>1, Kept DEF Subscribe
<1>3. CallTypes'
  BY <1>1 DEF CallTypes, PCs, Subscribe, Unused, Goto, At
<1>4. FanTypes'
  <2>1. CASE UNCHANGED <<fan, sub>>
    BY <1>1, <2>1 DEF FanTypes
  <2>2. ASSUME NEW c \in Unused, Made(c)
        PROVE  FanTypes'
    <3>1. [sub[c] EXCEPT !.state = IF fan.closed THEN "closed" ELSE "open", !.from = dispatched]
            \in [state : {"unused", "open", "closed"}, unread : 0..SubCap,
                 seen : SUBSET (1..MaxFrames), from : 0..MaxFrames]
      BY <1>1 DEF FanTypes, RxTypes, Unused
    <3>2. sub' \in [Chan -> [state : {"unused", "open", "closed"}, unread : 0..SubCap,
                            seen : SUBSET (1..MaxFrames), from : 0..MaxFrames]]
      BY <1>1, <2>2, <3>1 DEF FanTypes, Made, Unused
    <3> QED BY <1>1, <2>2, <3>2 DEF FanTypes, Made, Unused
  <2> QED BY <2>1, <2>2, SubscribeMakes
<1>5. Locks'
  BY <1>1 DEF Locks, OpMuHeld, MuHeld, SendMuHeld, InStop, Stopping, Subscribe, Goto, At
<1>6. Device'
  BY <1>1 DEF Device, NoFanout, Subscribe, Goto
<1>7. Owned'
  BY <1>1 DEF Owned, CallTypes, DeviceTypes, Subscribe, Unused, Goto, At
<1>8. Channels'
  <2>1. CASE UNCHANGED <<fan, sub>>
    BY <1>1, <2>1 DEF Channels
  <2>2. ASSUME NEW c \in Unused, Made(c)
        PROVE  Channels'
    <3>1. \A d \in Chan : sub'[d].state =
            IF d = c THEN IF fan.closed THEN "closed" ELSE "open" ELSE sub[d].state
      BY <1>1, <2>2 DEF FanTypes, Made, Unused
    <3>2. c \in Chan /\ c \notin fan.subs /\ c \notin fan.dying /\ fan.present
      BY <1>1, <2>2 DEF Channels, FanTypes, Made, Unused
    <3>3. CASE fan.closed
      BY <1>1, <2>2, <3>1, <3>2, <3>3 DEF Channels, FanTypes, Made
    <3>4. CASE ~fan.closed
      <4>1. fan' = [fan EXCEPT !.subs = @ \cup {c}]
        BY <2>2, <3>4 DEF Made
      <4>2. IsFiniteSet(fan'.subs)
        BY <1>1, <4>1, FS_AddElement DEF Channels, FanTypes
      <4> QED BY <1>1, <3>1, <3>2, <3>4, <4>1, <4>2 DEF Channels, FanTypes
    <3> QED BY <3>3, <3>4
  <2> QED BY <2>1, <2>2, SubscribeMakes
<1>9. Usable'
  BY <1>1 DEF Usable, Works, FanTypes, Subscribe, Goto
<1>10. OwnBRS'
  BY <1>1 DEF OwnBRS, CallTypes, DeviceTypes, Locks, SendMuHeld, Stopping, InStop,
     Subscribe, Unused, Goto, At
<1>11. Counted'
  <2>1. CASE UNCHANGED <<fan, sub>>
    BY <1>1, <2>1, Kept DEF Subscribe
  <2>2. ASSUME NEW c \in Unused, Made(c)
        PROVE  Counted'
    <3>1. /\ UNCHANGED <<cancelled, rxChan, published, dispatched, stats>>
          /\ fan'.subs \subseteq fan.subs \cup {c}
          /\ sub'[c].from = dispatched
          /\ \A d \in fan.subs : sub'[d] = sub[d]
      BY <1>1, <2>2 DEF Subscribe, FanTypes, Channels, Made, Unused
    <3> SUFFICES ASSUME ~cancelled, NEW d \in fan'.subs
                 PROVE  Cardinality((Gone(sub[d].from) \ sub[d].seen)')
                          <= stats.source + stats.subscriber
      BY <1>1, <3>1 DEF Counted, Gone
    <3>2. CASE d \in fan.subs
      BY <1>1, <3>1, <3>2 DEF Counted, Gone
    <3>3. CASE d = c
      <4>1. dispatched \in Nat /\ stats.source \in Nat /\ stats.subscriber \in Nat
        BY <1>1 DEF RxTypes, HistTypes
      <4>2. (Gone(sub[d].from) \ sub[d].seen)' = Gone(dispatched) \ sub'[d].seen
        BY <3>1, <3>3 DEF Gone
      <4>3. Cardinality(Gone(dispatched) \ sub'[d].seen) \in Nat
            /\ Cardinality(Gone(dispatched)) \in Nat
            /\ Cardinality(Gone(dispatched) \ sub'[d].seen) <= Cardinality(Gone(dispatched))
        BY <1>1, <4>1, GoneFinite, NoMore
      <4>4. Cardinality(Gone(dispatched)) <= stats.source
        BY <1>1 DEF Counted
      <4> DEFINE m == Cardinality(Gone(dispatched) \ sub'[d].seen)
                 n == Cardinality(Gone(dispatched))
      <4>5. m \in Nat /\ n \in Nat /\ m <= n /\ n <= stats.source
        BY <4>3, <4>4
      <4> HIDE DEF m, n
      <4>6. m <= stats.source + stats.subscriber
        BY <4>1, <4>5
      <4> QED BY <4>2, <4>6 DEF m
    <3> QED BY <3>1, <3>2, <3>3
  <2> QED BY <2>1, <2>2, SubscribeMakes
<1> QED BY <1>2, <1>3, <1>4, <1>5, <1>6, <1>7, <1>8, <1>9, <1>10, <1>11
  DEF IInv, TypeOK, Control, History

\* closer closes a channel nobody else has.
LEMMA CloseChannelStep ==
  ASSUME IInv, NEW who \in {"loop", "stop"}, CloseChannel(who)
  PROVE  IInv'
<1> USE DEF busVars, devVars, rxVars, fanVars, histVars
<1>1. /\ CallTypes /\ DeviceTypes /\ RxTypes /\ FanTypes /\ HistTypes /\ Locks /\ Device /\ Owned
      /\ Channels /\ Usable /\ OwnBRS /\ NoPanic /\ FrameKeepsBRS /\ Order /\ Counted
  BY DEF IInv, TypeOK, Control, History
<1>2. CallTypes' /\ DeviceTypes' /\ RxTypes' /\ Locks' /\ Owned' /\ OwnBRS'
      /\ FrameKeepsBRS' /\ Order'
  BY <1>1, Kept DEF CloseChannel
<1>3. FanTypes'
  BY <1>1 DEF FanTypes, CloseChannel
<1>4. HistTypes'
  BY <1>1 DEF HistTypes, CloseChannel
<1>5. Device'
  BY <1>1 DEF Device, NoFanout, CloseChannel
<1>6. Channels'
  BY <1>1 DEF Channels, FanTypes, NoFanout, CloseChannel
<1>7. Usable'
  BY <1>1 DEF Usable, Works, CloseChannel
<1>8. NoPanic'
  BY <1>1 DEF NoPanic, Channels, FanTypes, CloseChannel
<1>9. Counted'
  BY <1>1 DEF Counted, Gone, RxTypes, FanTypes, Channels, CloseChannel
<1> QED BY <1>2, <1>3, <1>4, <1>5, <1>6, <1>7, <1>8, <1>9
  DEF IInv, TypeOK, Control, History

\* A release closes a channel that is subscribed, and nobody else closes.
LEMMA UnsubscribeStep ==
  ASSUME IInv, NEW c \in Chan, Unsubscribe(c)
  PROVE  IInv'
<1> USE DEF busVars, devVars, rxVars, fanVars, histVars
<1>1. /\ CallTypes /\ DeviceTypes /\ RxTypes /\ FanTypes /\ HistTypes /\ Locks /\ Device /\ Owned
      /\ Channels /\ Usable /\ OwnBRS /\ NoPanic /\ FrameKeepsBRS /\ Order /\ Counted
  BY DEF IInv, TypeOK, Control, History
<1>2. CallTypes' /\ DeviceTypes' /\ RxTypes' /\ Locks' /\ Owned' /\ OwnBRS'
      /\ FrameKeepsBRS' /\ Order'
  BY <1>1, Kept DEF Unsubscribe
<1>3. FanTypes'
  BY <1>1 DEF FanTypes, Unsubscribe
<1>4. HistTypes'
  BY <1>1 DEF HistTypes, Unsubscribe
<1>5. Device'
  BY <1>1 DEF Device, NoFanout, Unsubscribe
<1>6. Channels'
  <2>1. /\ fan.present /\ ~fan.closed /\ c \in fan.subs /\ c \notin fan.dying
        /\ fan' = [fan EXCEPT !.subs = @ \ {c}]
        /\ sub' = [sub EXCEPT ![c].state = "closed"]
    BY <1>1 DEF Channels, NoFanout, Unsubscribe
  <2>2. IsFiniteSet(fan'.subs)
    BY <1>1, <2>1, FS_RemoveElement DEF Channels, FanTypes
  <2>3. \A d \in Chan : sub'[d].state = IF d = c THEN "closed" ELSE sub[d].state
    BY <1>1, <2>1 DEF FanTypes
  <2> QED BY <1>1, <2>1, <2>2, <2>3 DEF Channels, FanTypes
<1>7. Usable'
  BY <1>1 DEF Usable, Works, Unsubscribe
<1>8. NoPanic'
  BY <1>1 DEF NoPanic, Channels, Unsubscribe
<1>9. Counted'
  BY <1>1 DEF Counted, Gone, RxTypes, FanTypes, Channels, Unsubscribe
<1> QED BY <1>2, <1>3, <1>4, <1>5, <1>6, <1>7, <1>8, <1>9
  DEF IInv, TypeOK, Control, History

\* A subscriber reads.
LEMMA ReceiveStep ==
  ASSUME IInv, NEW c \in Chan, Receive(c)
  PROVE  IInv'
<1> USE DEF busVars, devVars, rxVars, fanVars, histVars
<1>1. /\ CallTypes /\ DeviceTypes /\ RxTypes /\ FanTypes /\ HistTypes /\ Locks /\ Device /\ Owned
      /\ Channels /\ Usable /\ OwnBRS /\ NoPanic /\ FrameKeepsBRS /\ Order /\ Counted
  BY DEF IInv, TypeOK, Control, History
<1>2. CallTypes' /\ DeviceTypes' /\ RxTypes' /\ HistTypes' /\ Locks' /\ Device'
      /\ Owned' /\ Usable' /\ OwnBRS' /\ NoPanic' /\ FrameKeepsBRS' /\ Order'
  BY <1>1, Kept DEF Receive
<1>3. FanTypes'
  BY <1>1, Bounds DEF FanTypes, Receive
<1>4. Channels'
  BY <1>1 DEF Channels, Receive
<1>5. Counted'
  BY <1>1 DEF Counted, Gone, RxTypes, FanTypes, Channels, Receive
<1> QED BY <1>2, <1>3, <1>4, <1>5
  DEF IInv, TypeOK, Control, History

\* The application reads an error.
LEMMA ReadErrorStep ==
  ASSUME IInv, ReadError
  PROVE  IInv'
<1> USE DEF busVars, devVars, rxVars, fanVars, histVars
<1>1. /\ CallTypes /\ DeviceTypes /\ RxTypes /\ FanTypes /\ HistTypes /\ Locks /\ Device /\ Owned
      /\ Channels /\ Usable /\ OwnBRS /\ NoPanic /\ FrameKeepsBRS /\ Order /\ Counted
  BY DEF IInv, TypeOK, Control, History
<1>2. CallTypes' /\ DeviceTypes' /\ RxTypes' /\ FanTypes' /\ Locks' /\ Device'
      /\ Owned' /\ Channels' /\ Usable' /\ OwnBRS' /\ NoPanic' /\ FrameKeepsBRS' /\ Order' /\ Counted'
  BY <1>1, Kept DEF ReadError
<1>3. HistTypes'
  BY <1>1, Bounds DEF HistTypes, DeviceTypes, ReadError
<1> QED BY <1>2, <1>3
  DEF IInv, TypeOK, Control, History

\* The read loop goes to read.
LEMMA TickStep ==
  ASSUME IInv, Tick
  PROVE  IInv'
<1> USE DEF busVars, devVars, rxVars, fanVars, histVars
<1>1. /\ CallTypes /\ DeviceTypes /\ RxTypes /\ FanTypes /\ HistTypes /\ Locks /\ Device /\ Owned
      /\ Channels /\ Usable /\ OwnBRS /\ NoPanic /\ FrameKeepsBRS /\ Order /\ Counted
  BY DEF IInv, TypeOK, Control, History
<1>2. CallTypes' /\ RxTypes' /\ FanTypes' /\ HistTypes' /\ Locks' /\ Owned'
      /\ Channels' /\ Usable' /\ OwnBRS' /\ NoPanic' /\ FrameKeepsBRS' /\ Order' /\ Counted'
  BY <1>1, Kept DEF Tick
<1>3. DeviceTypes'
  BY <1>1 DEF DeviceTypes, Tick
<1>4. Device'
  BY <1>1 DEF Device, Locks, OpMuHeld, InStop, CallTypes, DeviceTypes, FanTypes, Tick
<1> QED BY <1>2, <1>3, <1>4
  DEF IInv, TypeOK, Control, History

\* The read loop comes back.
LEMMA ReadEmptyStep ==
  ASSUME IInv, ReadEmpty
  PROVE  IInv'
<1> USE DEF busVars, devVars, rxVars, fanVars, histVars
<1>1. /\ CallTypes /\ DeviceTypes /\ RxTypes /\ FanTypes /\ HistTypes /\ Locks /\ Device /\ Owned
      /\ Channels /\ Usable /\ OwnBRS /\ NoPanic /\ FrameKeepsBRS /\ Order /\ Counted
  BY DEF IInv, TypeOK, Control, History
<1>2. CallTypes' /\ RxTypes' /\ FanTypes' /\ HistTypes' /\ Locks' /\ Owned'
      /\ Channels' /\ Usable' /\ OwnBRS' /\ NoPanic' /\ FrameKeepsBRS' /\ Order' /\ Counted'
  BY <1>1, Kept DEF ReadEmpty
<1>3. DeviceTypes'
  BY <1>1 DEF DeviceTypes, ReadEmpty
<1>4. Device'
  BY <1>1 DEF Device, Locks, OpMuHeld, InStop, CallTypes, DeviceTypes, FanTypes, ReadEmpty
<1> QED BY <1>2, <1>3, <1>4
  DEF IInv, TypeOK, Control, History

\* A frame is read and put behind the others, or its loss is counted.
LEMMA ReadFrameStep ==
  ASSUME IInv, ReadFrame
  PROVE  IInv'
<1> USE DEF busVars, devVars, rxVars, fanVars, histVars
<1>1. /\ CallTypes /\ DeviceTypes /\ RxTypes /\ FanTypes /\ HistTypes /\ Locks /\ Device /\ Owned
      /\ Channels /\ Usable /\ OwnBRS /\ NoPanic /\ FrameKeepsBRS /\ Order /\ Counted
  BY DEF IInv, TypeOK, Control, History
<1>2. CallTypes' /\ DeviceTypes' /\ FanTypes' /\ Locks' /\ Device' /\ Owned'
      /\ Channels' /\ Usable' /\ OwnBRS' /\ NoPanic' /\ FrameKeepsBRS'
  BY <1>1, Kept DEF ReadFrame
<1>3. RxTypes'
  <2>1. hw' \in 0..MaxFrames /\ published' \in 0..MaxFrames /\ dispatched' \in 0..MaxFrames
    BY <1>1, ReadFrameReads, Bounds DEF RxTypes, Order, ReadFrame
  <2>2. rxChan' \in Seq(1..MaxFrames) /\ Len(rxChan') <= RxCap
    <3>1. published + 1 \in 1..MaxFrames
      BY <2>1, ReadFrameReads, <1>1 DEF RxTypes
    <3>2. CASE rxChan' = rxChan
      BY <1>1, <3>2 DEF RxTypes
    <3>3. CASE Len(rxChan) < RxCap /\ rxChan' = Append(rxChan, published + 1)
      BY <1>1, <3>1, <3>3, Bounds DEF RxTypes
    <3> QED BY <3>2, <3>3, ReadFrameReads
  <2> QED BY <2>1, <2>2 DEF RxTypes
<1>4. HistTypes'
  <2>1. CASE UNCHANGED <<stats, errorChan>>
    BY <1>1, <2>1 DEF HistTypes, ReadFrame
  <2>2. CASE stats' = [stats EXCEPT !.source = @ + 1] /\ Report(1)
    <3>1. errorChan' \in 0..ErrorCap
      BY <1>1, <2>2, Bounds, ReportTypes DEF HistTypes
    <3>2. stats' \in [source : Nat, subscriber : Nat]
      BY <1>1, <2>2 DEF HistTypes
    <3> QED BY <1>1, <3>1, <3>2 DEF HistTypes, ReadFrame
  <2> QED BY <2>1, <2>2 DEF ReadFrame, Publish
<1>5. Order'
  <2>1. dispatched' = dispatched
    BY DEF ReadFrame
  <2>2. CASE rxChan' = rxChan
    BY <1>1, <2>1, <2>2, ReadFrameReads, Naturals, Bounds DEF Order
  <2>3. CASE rxChan' = Append(rxChan, published + 1)
    <3>1. /\ Len(rxChan') = Len(rxChan) + 1 /\ rxChan'[Len(rxChan) + 1] = published + 1
          /\ \A i \in 1..Len(rxChan) : rxChan'[i] = rxChan[i]
      BY <1>1, <2>3 DEF RxTypes
    <3>2. \A i \in 1..Len(rxChan') : i \in 1..Len(rxChan) \/ i = Len(rxChan) + 1
      BY <1>1, <3>1, Naturals
    <3>3. ASSUME NEW i \in 1..Len(rxChan')
          PROVE  dispatched' < rxChan'[i] /\ rxChan'[i] <= published'
      <4>1. CASE i \in 1..Len(rxChan)
        BY <1>1, <2>1, <3>1, <4>1, ReadFrameReads, Naturals, Bounds DEF Order
      <4>2. CASE i = Len(rxChan) + 1
        BY <1>1, <2>1, <3>1, <4>2, ReadFrameReads, Naturals, Bounds DEF Order
      <4> QED BY <3>2, <4>1, <4>2
    <3>4. ASSUME NEW i \in 1..Len(rxChan'), NEW j \in 1..Len(rxChan'), i < j
          PROVE  rxChan'[i] < rxChan'[j]
      <4>1. i \in 1..Len(rxChan)
        BY <1>1, <3>1, <3>2, <3>4, Naturals
      <4>2. CASE j \in 1..Len(rxChan)
        BY <1>1, <3>1, <3>4, <4>1, <4>2 DEF Order
      <4>3. CASE j = Len(rxChan) + 1
        <5>1. rxChan[i] <= published /\ rxChan[i] \in Nat
          BY <1>1, <4>1, Naturals, Bounds DEF Order
        <5> QED BY <1>1, <3>1, <4>1, <4>3, <5>1, Naturals
      <4> QED BY <3>2, <4>2, <4>3
    <3> QED BY <1>1, <2>1, <3>3, <3>4, ReadFrameReads, Naturals, Bounds DEF Order
  <2> QED BY <2>2, <2>3, ReadFrameReads
<1>6. Counted'
  <2> SUFFICES ASSUME ~cancelled
               PROVE  Counted'
    BY DEF Counted, ReadFrame
  <2>1. /\ UNCHANGED <<cancelled, dispatched, fan, sub>> /\ published' = published + 1
        /\ \A c \in fan.subs : sub[c].from \in Nat
    BY <1>1 DEF FanTypes, ReadFrame
  <2>2. CASE rxChan' = Append(rxChan, published + 1) /\ stats' = stats
    <3>1. Range(rxChan') = Range(rxChan) \cup {published + 1}
      <4>1. published + 1 \in 1..MaxFrames
        BY <1>1, <1>3, <2>1, Naturals DEF RxTypes
      <4> QED BY <1>1, <2>2, <4>1, RangeAppend
    <3>2. \A k \in Nat : Gone(k)' \subseteq Gone(k)
      <4> TAKE k \in Nat
      <4>1. (k + 1)..published' \subseteq ((k + 1)..published) \cup {published + 1}
        BY <1>1, <2>1, Naturals
      <4> QED BY <3>1, <4>1 DEF Gone
    <3>3. stats'.source >= stats.source /\ stats'.subscriber >= stats.subscriber
      BY <1>1, <2>2, Naturals
    <3>4. Gone(dispatched)' \subseteq Gone(dispatched)
      BY <1>1, <2>1, <3>2, Naturals DEF Gone
    <3>5. ASSUME NEW c \in fan'.subs
          PROVE  c \in fan.subs /\ (Gone(sub[c].from) \ sub[c].seen)'
                                   \subseteq Gone(sub[c].from) \ sub[c].seen
      BY <2>1, <3>2 DEF Gone
    <3> QED BY <1>1, <1>4, <2>1, <3>3, <3>4, <3>5, CountedKept
  <2>3. CASE rxChan' = rxChan /\ stats' = [stats EXCEPT !.source = @ + 1]
    <3>1. \A k \in Nat : Gone(k)' \subseteq Gone(k) \cup {published + 1}
      <4> TAKE k \in Nat
      <4>1. (k + 1)..published' \subseteq ((k + 1)..published) \cup {published + 1}
        BY <1>1, <2>1, Naturals
      <4>2. Range(rxChan') = Range(rxChan)
        BY <2>3
      <4> QED BY <4>1, <4>2 DEF Gone
    <3>2. stats'.source = stats.source + 1 /\ stats'.subscriber = stats.subscriber
      BY <1>1, <2>3 DEF HistTypes
    <3>3. Cardinality(Gone(dispatched)') <= stats'.source
      <4>1. IsFiniteSet(Gone(dispatched)) /\ Gone(dispatched)' \subseteq Gone(dispatched) \cup {published + 1}
        BY <1>1, <2>1, <3>1, Naturals, GoneFinite DEF Gone
      <4>2. Cardinality(Gone(dispatched)) \in Nat /\ Cardinality(Gone(dispatched)') \in Nat
            /\ Cardinality(Gone(dispatched)') <= Cardinality(Gone(dispatched)) + 1
        BY <4>1, AtMostOneMore, FS_CardinalityType
      <4> QED BY <1>1, <3>2, <4>2, Naturals DEF Counted
    <3>4. ASSUME NEW c \in fan'.subs
          PROVE  Cardinality((Gone(sub[c].from) \ sub[c].seen)') <= stats'.source + stats'.subscriber
      <4> DEFINE T == Gone(sub[c].from) \ sub[c].seen
      <4>1. IsFiniteSet(T) /\ T' \subseteq T \cup {published + 1}
        BY <1>1, <2>1, <3>1, GoneFinite DEF Gone
      <4>2. Cardinality(T) <= stats.source + stats.subscriber
        BY <1>1, <2>1 DEF Counted
      <4> HIDE DEF T
      <4>3. Cardinality(T) \in Nat /\ Cardinality(T') \in Nat /\ Cardinality(T') <= Cardinality(T) + 1
        BY <4>1, AtMostOneMore, FS_CardinalityType
      <4>4. Cardinality(T') <= stats'.source + stats'.subscriber
        BY <1>1, <3>2, <4>2, <4>3, Naturals
      <4> QED BY <4>4 DEF T
    <3> QED BY <3>3, <3>4 DEF Counted
  <2>4. \/ rxChan' = Append(rxChan, published + 1) /\ stats' = stats
        \/ rxChan' = rxChan /\ stats' = [stats EXCEPT !.source = @ + 1]
    BY <2>1 DEF ReadFrame, Publish
  <2> QED BY <2>2, <2>3, <2>4
<1> QED BY <1>2, <1>3, <1>4, <1>5, <1>6
  DEF IInv, TypeOK, Control, History

\* The read loop ends once its context is cancelled.
LEMMA ReadLoopEndsStep ==
  ASSUME IInv, ReadLoopEnds
  PROVE  IInv'
<1> USE DEF busVars, devVars, rxVars, fanVars, histVars
<1>1. /\ CallTypes /\ DeviceTypes /\ RxTypes /\ FanTypes /\ HistTypes /\ Locks /\ Device /\ Owned
      /\ Channels /\ Usable /\ OwnBRS /\ NoPanic /\ FrameKeepsBRS /\ Order /\ Counted
  BY DEF IInv, TypeOK, Control, History
<1>2. CallTypes' /\ RxTypes' /\ FanTypes' /\ HistTypes' /\ Locks' /\ Channels'
      /\ NoPanic' /\ FrameKeepsBRS' /\ Order' /\ Counted'
  BY <1>1, Kept DEF ReadLoopEnds
<1>3. DeviceTypes'
  <2>1. dev' = [dev EXCEPT !.running = FALSE]
    BY DEF ReadLoopEnds
  <2>2. readers' \in [select : Nat, burst : Nat]
    BY <1>1 DEF DeviceTypes, ReadLoopEnds
  <2> QED BY <1>1, <2>1, <2>2 DEF DeviceTypes, ReadLoopEnds
<1>4. Device'
  BY <1>1 DEF Device, DeviceTypes, ReadLoopEnds
<1>5. Owned'
  BY <1>1 DEF Owned, ReadLoopEnds
<1>6. Usable'
  BY <1>1 DEF Usable, Works, ReadLoopEnds
<1>7. OwnBRS'
  BY <1>1 DEF OwnBRS, CallTypes, DeviceTypes, Locks, SendMuHeld, Stopping, InStop,
     ReadLoopEnds
<1> QED BY <1>2, <1>3, <1>4, <1>5, <1>6, <1>7
  DEF IInv, TypeOK, Control, History

\* The hardware receives a frame.
LEMMA ArriveStep ==
  ASSUME IInv, Arrive
  PROVE  IInv'
<1> USE DEF busVars, devVars, rxVars, fanVars, histVars
<1>1. /\ CallTypes /\ DeviceTypes /\ RxTypes /\ FanTypes /\ HistTypes /\ Locks /\ Device /\ Owned
      /\ Channels /\ Usable /\ OwnBRS /\ NoPanic /\ FrameKeepsBRS /\ Order /\ Counted
  BY DEF IInv, TypeOK, Control, History
<1>2. CallTypes' /\ DeviceTypes' /\ FanTypes' /\ HistTypes' /\ Locks' /\ Device'
      /\ Owned' /\ Channels' /\ Usable' /\ OwnBRS' /\ NoPanic' /\ FrameKeepsBRS' /\ Counted'
  BY <1>1, Kept DEF Arrive
<1>3. RxTypes'
  BY <1>1, Bounds DEF RxTypes, Arrive
<1>4. Order'
  BY <1>1, Bounds DEF Order, RxTypes, Arrive
<1> QED BY <1>2, <1>3, <1>4
  DEF IInv, TypeOK, Control, History

\* The first frame goes to all subscribers with room, and is counted for the others.
LEMMA DispatchStep ==
  ASSUME IInv, Dispatch
  PROVE  IInv'
<1> USE DEF busVars, devVars, rxVars, fanVars, histVars
<1>1. /\ CallTypes /\ DeviceTypes /\ RxTypes /\ FanTypes /\ HistTypes /\ Locks /\ Device /\ Owned
      /\ Channels /\ Usable /\ OwnBRS /\ NoPanic /\ FrameKeepsBRS /\ Order /\ Counted
  BY DEF IInv, TypeOK, Control, History
<1>2. CallTypes' /\ DeviceTypes' /\ Locks' /\ Device' /\ Owned' /\ Usable'
      /\ OwnBRS' /\ FrameKeepsBRS'
  BY <1>1, Kept DEF Dispatch
<1>3. RxTypes'
  <2>1. Len(rxChan') <= RxCap
    BY <1>1, DispatchTakes, Naturals, Bounds DEF RxTypes
  <2>2. dispatched' \in 1..MaxFrames /\ rxChan' \in Seq(1..MaxFrames)
    BY <1>1, DispatchTakes
  <2>3. hw' \in 0..MaxFrames /\ published' \in 0..MaxFrames
    BY <1>1 DEF RxTypes, Dispatch
  <2> QED BY <2>1, <2>2, <2>3, Bounds DEF RxTypes
<1>4. FanTypes'
  <2>1. ASSUME NEW c \in Chan
        PROVE  sub'[c] \in [state : {"unused", "open", "closed"}, unread : 0..SubCap,
                           seen : SUBSET (1..MaxFrames), from : 0..MaxFrames]
    <3>1. Head(rxChan) \in 1..MaxFrames
      BY <1>1, DispatchTakes
    <3>2. CASE c \in fan.subs /\ ~Full(c)
      <4>1. sub[c].unread + 1 \in 0..SubCap
        BY <1>1, <3>2, Bounds DEF FanTypes, Full
      <4>2. sub'[c] = [sub[c] EXCEPT !.unread = @ + 1, !.seen = @ \cup {Head(rxChan)}]
        BY <3>2 DEF Dispatch
      <4>3. sub[c] \in [state : {"unused", "open", "closed"}, unread : 0..SubCap,
                     seen : SUBSET (1..MaxFrames), from : 0..MaxFrames]
        BY <1>1 DEF FanTypes
      <4>4. sub[c].seen \cup {Head(rxChan)} \in SUBSET (1..MaxFrames)
        BY <3>1, <4>3
      <4> QED BY <4>1, <4>2, <4>3, <4>4
    <3>3. CASE ~(c \in fan.subs /\ ~Full(c))
      BY <1>1, <3>3 DEF FanTypes, Dispatch
    <3> QED BY <3>2, <3>3
  <2>2. fan' = fan /\ sub' = [c \in Chan |-> sub'[c]]
    BY DEF Dispatch
  <2> QED BY <1>1, <2>1, <2>2 DEF FanTypes
<1>5. HistTypes'
  <2> DEFINE full == {c \in fan.subs : Full(c)}
  <2>1. Cardinality(full) \in Nat
    BY <1>1, FS_Subset, FS_CardinalityType DEF Channels
  <2>2. stats' = [stats EXCEPT !.subscriber = @ + Cardinality(full)] /\ Report(Cardinality(full))
    BY DEF Dispatch
  <2> HIDE DEF full
  <2>3. errorChan' \in 0..ErrorCap
    BY <1>1, <2>1, <2>2, Bounds, ReportTypes DEF HistTypes
  <2>4. stats' \in [source : Nat, subscriber : Nat]
    BY <1>1, <2>1, <2>2 DEF HistTypes
  <2>5. panicked' \in BOOLEAN /\ UNCHANGED <<overtaken, refused, wire>>
    BY <1>1 DEF HistTypes, Dispatch
  <2> QED BY <1>1, <2>3, <2>4, <2>5 DEF HistTypes
<1>6. Channels'
  BY <1>1 DEF Channels, FanTypes, Dispatch
<1>7. NoPanic'
  BY <1>1 DEF NoPanic, Channels, FanTypes, Dispatch, Full
<1>8. Order'
  <2>1. UNCHANGED <<published, hw>>
    BY DEF Dispatch
  <2>2. \A i \in 1..Len(rxChan') : dispatched' < rxChan'[i] /\ rxChan'[i] <= published'
    <3> TAKE i \in 1..Len(rxChan')
    <3>1. /\ rxChan'[i] = rxChan[i + 1] /\ dispatched' = rxChan[1]
          /\ i + 1 \in 1..Len(rxChan) /\ 1 \in 1..Len(rxChan)
      BY <1>1, DispatchTakes
    <3>2. 1 < i + 1
      BY <1>1, DispatchTakes, Naturals
    <3>3. rxChan[1] < rxChan[i + 1] /\ rxChan[i + 1] <= published
      BY <1>1, <3>1, <3>2 DEF Order
    <3> QED BY <2>1, <3>1, <3>3
  <2>3. \A i, j \in 1..Len(rxChan') : i < j => rxChan'[i] < rxChan'[j]
    <3> TAKE i, j \in 1..Len(rxChan')
    <3> HAVE i < j
    <3>1. /\ rxChan'[i] = rxChan[i + 1] /\ i + 1 \in 1..Len(rxChan)
          /\ rxChan'[j] = rxChan[j + 1] /\ j + 1 \in 1..Len(rxChan)
      BY <1>1, DispatchTakes
    <3>2. i + 1 < j + 1
      BY <1>1, DispatchTakes, Naturals
    <3> QED BY <1>1, <3>1, <3>2 DEF Order
  <2>4. dispatched' <= published'
    BY <1>1, <2>1, DispatchTakes, Naturals DEF Order
  <2> QED BY <1>1, <2>1, <2>2, <2>3, <2>4 DEF Order
<1>9. Counted'
  <2> SUFFICES ASSUME ~cancelled
               PROVE  Counted'
    BY DEF Counted, Dispatch
  <2> DEFINE full == {c \in fan.subs : Full(c)}
             h == Head(rxChan)
  <2>1. /\ UNCHANGED <<cancelled, published, fan>> /\ dispatched' = h
        /\ stats' = [stats EXCEPT !.subscriber = @ + Cardinality(full)]
    BY DEF Dispatch
  <2>0. \A c \in fan.subs : c \in Chan /\ sub[c].from \in Nat
    BY <1>1, Bounds DEF FanTypes
  <2>2. Range(rxChan) = Range(rxChan') \cup {h}
    BY <1>1, RangeTail DEF RxTypes, Dispatch
  <2>3. h \in Nat /\ dispatched < h
    BY <1>1, DispatchTakes DEF Order
  <2>4. IsFiniteSet(full) /\ Cardinality(full) \in Nat
    BY <1>1, FS_Subset, FS_CardinalityType DEF Channels
  <2> HIDE DEF full, h
  <2>5. stats'.source = stats.source /\ stats'.subscriber = stats.subscriber + Cardinality(full)
    BY <1>1, <2>1 DEF HistTypes
  <2>6. Cardinality(Gone(dispatched)') <= stats'.source
    <3>1. Gone(dispatched)' \subseteq Gone(dispatched)
      BY <1>1, <2>1, <2>2, <2>3, Naturals DEF Gone
    <3>2. Cardinality(Gone(dispatched)) <= stats.source
      BY <1>1 DEF Counted
    <3>3. IsFiniteSet(Gone(dispatched))
      BY <1>1, Naturals, GoneFinite
    <3>4. Cardinality(Gone(dispatched)') \in Nat /\ Cardinality(Gone(dispatched)) \in Nat
          /\ Cardinality(Gone(dispatched)') <= Cardinality(Gone(dispatched))
      BY <3>1, <3>3, NoMore
    <3> QED BY <1>1, <2>5, <3>2, <3>4, Naturals
  <2>7. ASSUME NEW c \in fan'.subs
        PROVE  Cardinality((Gone(sub[c].from) \ sub[c].seen)') <= stats'.source + stats'.subscriber
    <3> DEFINE T == Gone(sub[c].from) \ sub[c].seen
    <3>1. c \in fan.subs /\ c \in Chan /\ IsFiniteSet(T)
      BY <1>1, <2>0, <2>1, GoneFinite
    <3>2. Cardinality(T) <= stats.source + stats.subscriber
      BY <1>1, <3>1 DEF Counted
    <3>3. T' \subseteq T \cup {h} /\ (c \notin full => T' \subseteq T)
      <4>1. CASE c \in full
        <5>1. sub'[c] = sub[c]
          BY <3>1, <4>1 DEF full, Dispatch
        <5> QED BY <2>1, <2>2, <4>1, <5>1 DEF Gone
      <4>2. CASE c \notin full
        <5>1. sub'[c] = [sub[c] EXCEPT !.unread = @ + 1, !.seen = @ \cup {h}]
          BY <3>1, <4>2 DEF full, h, Dispatch
        <5>2. sub'[c].from = sub[c].from /\ sub'[c].seen = sub[c].seen \cup {h}
          BY <1>1, <3>1, <5>1 DEF FanTypes
        <5> QED BY <2>1, <2>2, <5>2 DEF Gone
      <4> QED BY <4>1, <4>2
    <3>4. c \in full => Cardinality(full) >= 1
      BY <2>4, FS_EmptySet
    <3> HIDE DEF T
    <3>5. /\ Cardinality(T) \in Nat /\ Cardinality(T') \in Nat
          /\ Cardinality(T') <= Cardinality(T) + 1
          /\ c \notin full => Cardinality(T') <= Cardinality(T)
      BY <3>1, <3>3, AtMostOneMore, NoMore
    <3> DEFINE old == Cardinality(T)
               new == Cardinality(T')
               more == Cardinality(full)
    <3>6. old \in Nat /\ new \in Nat /\ more \in Nat /\ new <= old + more
      <4>1. more \in Nat /\ (c \in full => more >= 1)
        BY <2>4, <3>4
      <4> HIDE DEF old, new, more
      <4>2. /\ old \in Nat /\ new \in Nat /\ new <= old + 1
            /\ c \notin full => new <= old
        BY <3>5 DEF old, new
      <4> QED BY <4>1, <4>2
    <3>7. new <= stats'.source + stats'.subscriber
      <4>1. /\ old <= stats.source + stats.subscriber
            /\ stats'.source = stats.source /\ stats'.subscriber = stats.subscriber + more
            /\ stats.source \in Nat /\ stats.subscriber \in Nat
        BY <1>1, <2>5, <3>2, Naturals
      <4> HIDE DEF old, new, more
      <4> QED BY <3>6, <4>1
    <3> QED BY <3>7 DEF T
  <2> QED BY <2>6, <2>7 DEF Counted
<1> QED BY <1>2, <1>3, <1>4, <1>5, <1>6, <1>7, <1>8, <1>9
  DEF IInv, TypeOK, Control, History

\* The goroutine of the fan-out closes it, unless stop did.
LEMMA FanoutCancelledStep ==
  ASSUME IInv, FanoutCancelled
  PROVE  IInv'
<1> USE DEF busVars, devVars, rxVars, fanVars, histVars
<1>1. /\ CallTypes /\ DeviceTypes /\ RxTypes /\ FanTypes /\ HistTypes /\ Locks /\ Device /\ Owned
      /\ Channels /\ Usable /\ OwnBRS /\ NoPanic /\ FrameKeepsBRS /\ Order /\ Counted
  BY DEF IInv, TypeOK, Control, History
<1>2. CallTypes' /\ DeviceTypes' /\ RxTypes' /\ HistTypes' /\ Locks' /\ Owned'
      /\ OwnBRS' /\ NoPanic' /\ FrameKeepsBRS' /\ Order'
  BY <1>1, Kept DEF FanoutCancelled
<1>3. FanTypes'
  BY <1>1 DEF FanTypes, FanoutCancelled, CloseAll
<1>4. Device'
  BY <1>1 DEF Device, NoFanout, FanoutCancelled, CloseAll
<1>5. Channels'
  <2>1. fan.present /\ fan.loop = "on" /\ sub' = sub
    BY <1>1 DEF Channels, NoFanout, FanoutCancelled
  <2>2. CASE fan.closed
    <3>1. fan' = [fan EXCEPT !.loop = "closing"]
      BY <2>2 DEF FanoutCancelled, CloseAll
    <3> QED BY <1>1, <2>1, <2>2, <3>1 DEF Channels, FanTypes
  <2>3. CASE ~fan.closed
    <3>1. fan' = [fan EXCEPT !.closed = TRUE, !.closer = "loop", !.dying = fan.subs,
                             !.subs = {}, !.loop = "closing"]
      BY <1>1, <2>3 DEF FanTypes, FanoutCancelled, CloseAll
    <3> QED BY <1>1, <2>1, <2>3, <3>1, FS_EmptySet DEF Channels, FanTypes
  <2> QED BY <2>2, <2>3
<1>6. Usable'
  BY <1>1 DEF Usable, Works, FanoutCancelled
<1>7. Counted'
  BY <1>1 DEF Counted, Gone, RxTypes, FanTypes, Channels, FanoutCancelled, CloseAll
<1> QED BY <1>2, <1>3, <1>4, <1>5, <1>6, <1>7
  DEF IInv, TypeOK, Control, History

\* It ends when it has closed all the channels it took.
LEMMA FanoutEndsStep ==
  ASSUME IInv, FanoutEnds
  PROVE  IInv'
<1> USE DEF busVars, devVars, rxVars, fanVars, histVars
<1>1. /\ CallTypes /\ DeviceTypes /\ RxTypes /\ FanTypes /\ HistTypes /\ Locks /\ Device /\ Owned
      /\ Channels /\ Usable /\ OwnBRS /\ NoPanic /\ FrameKeepsBRS /\ Order /\ Counted
  BY DEF IInv, TypeOK, Control, History
<1>2. CallTypes' /\ DeviceTypes' /\ RxTypes' /\ HistTypes' /\ Locks' /\ Owned'
      /\ OwnBRS' /\ NoPanic' /\ FrameKeepsBRS' /\ Order'
  BY <1>1, Kept DEF FanoutEnds
<1>3. FanTypes'
  BY <1>1 DEF FanTypes, FanoutEnds
<1>4. Device'
  BY <1>1 DEF Device, NoFanout, FanoutEnds
<1>5. Channels'
  <2>1. fan' = [fan EXCEPT !.loop = "off"] /\ fan.loop = "closing" /\ sub' = sub
    BY DEF FanoutEnds
  <2>2. fan.present /\ fan.closed
    BY <1>1, <2>1 DEF Channels, NoFanout
  <2>3. fan.closer = "loop" => fan.dying = {}
    BY DEF FanoutEnds
  <2> QED BY <1>1, <2>1, <2>2, <2>3 DEF Channels, FanTypes
<1>6. Usable'
  BY <1>1 DEF Usable, Works, FanoutEnds
<1>7. Counted'
  BY <1>1 DEF Counted, Gone, RxTypes, FanTypes, Channels, FanoutEnds
<1> QED BY <1>2, <1>3, <1>4, <1>5, <1>6, <1>7
  DEF IInv, TypeOK, Control, History

-----------------------------------------------------------------------------
(* The theorems. *)

LEMMA InitIInv == Init => IInv
<1> SUFFICES ASSUME Init PROVE IInv
  OBVIOUS
<1>1. CallTypes /\ DeviceTypes
  BY DEF Init, CallTypes, DeviceTypes, PCs, NoReader
<1>2. RxTypes
  BY Bounds DEF Init, RxTypes
<1>3. FanTypes
  BY Bounds DEF Init, FanTypes, NoFanout
<1>4. HistTypes
  <2>1. stats \in [source : Nat, subscriber : Nat] /\ errorChan \in 0..ErrorCap
    BY Bounds DEF Init, NoDrops
  <2>2. panicked \in BOOLEAN /\ overtaken \in BOOLEAN /\ refused \in BOOLEAN
    BY DEF Init
  <2>3. wire \subseteq [kind : Kinds, brs : BOOLEAN]
    BY DEF Init
  <2> QED BY <2>1, <2>2, <2>3 DEF HistTypes
<1>5. Locks
  BY ProcAssumption DEF Init, Locks, OpMuHeld, MuHeld, SendMuHeld, InStop, Stopping
<1>6. Device /\ Owned
  BY DEF Init, Device, Owned, NoReader
<1>7. Channels
  BY FS_EmptySet DEF Init, Channels, NoFanout
<1>8. Usable /\ OwnBRS
  BY DEF Init, Usable, OwnBRS
<1>9. NoPanic /\ FrameKeepsBRS
  BY DEF Init, NoPanic, FrameKeepsBRS
<1>10. Order
  BY Bounds DEF Init, Order
<1>11. Counted
  <2>1. Gone(dispatched) = {} /\ fan.subs = {} /\ stats.source = 0
    BY DEF Init, Gone, NoFanout, NoDrops
  <2> QED BY <2>1, FS_EmptySet DEF Counted
<1> QED BY <1>1, <1>2, <1>3, <1>4, <1>5, <1>6, <1>7, <1>8, <1>9, <1>10, <1>11
  DEF IInv, TypeOK, Control, History

LEMMA Inductive == IInv /\ [Next]_vars => IInv'
<1> SUFFICES ASSUME IInv, [Next]_vars PROVE IInv'
  OBVIOUS
<1>1. ASSUME NEW p \in Proc, Call(p) PROVE IInv'
  BY <1>1, CallStep
<1>2. ASSUME NEW p \in Proc, Step(p) PROVE IInv'
  <2>1. CASE \/ OpenLock(p) \/ InitializeAgain(p) \/ InitializeFails(p) \/ Initialize(p)
             \/ Start(p) \/ StartFails(p)
    BY <2>1, OpenLockStep, InitializeAgainStep, InitializeFailsStep, InitializeStep, StartStep,
       StartFailsStep
  <2>2. CASE \/ CloseLock(p) \/ CloseBus(p) \/ StopBegin(p) \/ StopRead(p) \/ StopFanout(p)
             \/ StopChannel(p) \/ StopEnd(p)
    BY <2>2, CloseLockStep, CloseBusStep, StopBeginStep, StopReadStep, StopFanoutStep,
       CloseChannelStep, StopEndStep DEF StopChannel
  <2>3. CASE \/ SendLock(p) \/ SendCheck(p) \/ SetBRS(p) \/ Write(p)
             \/ SubscribeLock(p) \/ Subscribe(p)
    BY <2>3, SendLockStep, SendCheckStep, SetBRSStep, WriteStep, SubscribeLockStep, SubscribeStep
  <2> QED BY <1>2, <2>1, <2>2, <2>3 DEF Step
<1>3. ASSUME NEW c \in Chan, Unsubscribe(c) \/ Receive(c) PROVE IInv'
  BY <1>3, UnsubscribeStep, ReceiveStep
<1>4. CASE ReadError \/ Tick \/ ReadLoop \/ ReadLoopEnds \/ Arrive
  BY <1>4, ReadErrorStep, TickStep, ReadFrameStep, ReadEmptyStep, ReadLoopEndsStep, ArriveStep
  DEF ReadLoop
<1>5. CASE Fanout
  BY <1>5, DispatchStep, FanoutCancelledStep, CloseChannelStep, FanoutEndsStep DEF Fanout
<1>6. CASE UNCHANGED vars
  <2>1. UNCHANGED <<busVars, devVars, rxVars, fanVars, histVars>>
    BY <1>6 DEF vars
  <2> USE DEF busVars, devVars, rxVars, fanVars, histVars
  <2> QED BY <2>1, Kept DEF IInv, TypeOK, Control, History
<1> QED BY <1>1, <1>2, <1>3, <1>4, <1>5, <1>6 DEF Next

\* The invariant that all the theorems follow from.
THEOREM IInvHolds == Spec => []IInv
<1> QED BY InitIInv, Inductive, PTL DEF Spec

\* The types of the driver's variables: rxChan, the subscriber channels and the error
\* channel keep to their capacities, and every number to that of the frames received.
THEOREM TypeCorrect == Spec => []TypeOK
<1>1. IInv => TypeOK
  BY DEF IInv
<1> QED BY <1>1, IInvHolds, PTL

\* No channel is closed twice or sent to after it was closed, by release functions, the
\* fan-out's goroutine or stop.
THEOREM NeverPanics == Spec => []NoPanic
<1>1. IInv => NoPanic
  BY DEF IInv, History
<1> QED BY <1>1, IInvHolds, PTL

\* One read loop at most, and vendor calls only while the hardware is open (common.go).
THEOREM VendorCallsAreSafe == Spec => []VendorCallsWhileOpen
<1>1. IInv => VendorCallsWhileOpen
  <2> SUFFICES ASSUME IInv PROVE VendorCallsWhileOpen
    OBVIOUS
  <2>1. Device /\ readers.select \in Nat /\ readers.burst \in Nat
    BY DEF IInv, TypeOK, DeviceTypes, Control
  <2> QED BY <2>1 DEF Device, VendorCallsWhileOpen
<1> QED BY <1>1, IInvHolds, PTL

\* An open bus has a working device, unless its Open overtook a Close (bus.go).
THEOREM OpenWorks == Spec => []OpenIsUsable
<1>1. IInv => OpenIsUsable
  BY DEF IInv, Control, Usable, Works, Device, OpenIsUsable
<1> QED BY <1>1, IInvHolds, PTL

\* After Close, or an Open that failed, no hardware, goroutine or open channel is left.
THEOREM ClosedIsClean == Spec => []ClosedIsReleased
<1>1. IInv => ClosedIsReleased
  <2> SUFFICES ASSUME IInv, ~open,
                      \A p \in Proc : pc[p] \notin {"initialize", "start", "stop", "stopRead",
                                                    "stopFanout", "stopEnd"}
               PROVE  /\ ~dev.initialized /\ dev.hw = "closed"
                      /\ readers = NoReader /\ fan = NoFanout
                      /\ \A c \in Chan : sub[c].state # "open"
    BY DEF ClosedIsReleased
  <2>1. TypeOK /\ Locks /\ Device /\ Owned /\ Channels
    BY DEF IInv, Control
  <2>2. opMu = None
    BY <2>1 DEF Locks, OpMuHeld, InStop, TypeOK, CallTypes
  <2>3. ~dev.initialized
    BY <2>1 DEF Owned
  <2>4. dev.hw = "closed" /\ fan = NoFanout
    BY <2>1, <2>2, <2>3 DEF Device, TypeOK, DeviceTypes
  <2>5. readers = NoReader
    BY <2>1, <2>4 DEF Device, TypeOK, DeviceTypes, NoReader
  <2>6. \A c \in Chan : sub[c].state # "open"
    BY <2>1, <2>4 DEF Channels, NoFanout
  <2> QED BY <2>3, <2>4, <2>5, <2>6
<1> QED BY <1>1, IInvHolds, PTL

\* What a subscriber misses was counted, in Stats since Open (pcan.go, fanout.go).
THEOREM GapsAreCounted == Spec => []NoSilentGap
<1>1. IInv => NoSilentGap
  <2> SUFFICES ASSUME IInv, NEW c \in fan.subs, ~cancelled
               PROVE  Cardinality(((sub[c].from + 1)..published) \ (sub[c].seen \cup Range(rxChan)))
                        <= stats.source + stats.subscriber
    BY DEF NoSilentGap
  <2>1. ((sub[c].from + 1)..published) \ (sub[c].seen \cup Range(rxChan))
          = Gone(sub[c].from) \ sub[c].seen
    BY DEF Gone
  <2> QED BY <2>1 DEF IInv, History, Counted
<1> QED BY <1>1, IInvHolds, PTL

\* Every frame leaves with its own BRS (bus.go).
THEOREM FramesKeepBRS == Spec => []FrameKeepsBRS
<1>1. IInv => FrameKeepsBRS
  BY DEF IInv, History
<1> QED BY <1>1, IInvHolds, PTL
=============================================================================

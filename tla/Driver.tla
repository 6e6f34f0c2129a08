-------------------------------- MODULE Driver --------------------------------
(***************************************************************************)
(* A hardware driver: bus (bus.go) over a vendor device, here PCAN, with   *)
(* its lifecycle (common.go), its read loop and the fan-out of received    *)
(* frames to subscribers (fanout.go), under concurrent calls.              *)
(*                                                                         *)
(* An action is what a goroutine does between two points where another one *)
(* can get in: taking a lock, leaving a critical section, waiting for a    *)
(* goroutine, closing a channel outside the lock.  Frames received are     *)
(* numbered in the order the read loop reads them.                         *)
(***************************************************************************)
EXTENDS Integers, Sequences, FiniteSets, Functions

CONSTANTS
  Proc,             \* goroutines of the application
  Chan,             \* subscriber channels
  None,             \* nobody
  FD,               \* the bus is configured for CAN FD
  Kinds,            \* frames sent: subset of {"plain", "fd", "brs"}
  RxCap, SubCap,    \* capacity of rxChan and of a subscriber channel
  ErrorCap,         \* capacity of the error channel
  MaxCalls,         \* bound on the calls of each goroutine
  MaxFrames         \* bound on frames the hardware receives

ASSUME ProcAssumption == None \notin Proc \cup Chan
ASSUME ConfigAssumption == FD \in BOOLEAN /\ Kinds \subseteq {"plain", "fd", "brs"}
ASSUME BoundAssumption == {RxCap, SubCap, ErrorCap, MaxFrames} \subseteq Nat
                         /\ MaxCalls \in [Proc -> Nat]

VARIABLES
  pc,        \* what each goroutine does: idle, or where it is in its call
  calls,     \* calls each goroutine has begun
  sending,   \* the frame each goroutine sends
  open,      \* bus.open
  sendMu, mu, opMu, \* holders: sendMu, the RWMutex [writer, readers], the device's lock
  dev,       \* device: initialized, running, BRS of its configuration, hardware open;
             \* stopping: wasInitialized of the stop in progress
  cancelled, \* the device's context is cancelled
  readers,   \* read loops: at their select, and inside readBurst
  hw,        \* frames in the hardware's receive queue
  rxChan,    \* frames on their way from the read loop to the fan-out
  fan,       \* fan-out: subs, closed, goroutine; dying: channels closer has yet to close
  sub,       \* subscriber channels: state, frames unread, all frames seen, the last
             \* frame dispatched before the subscription
  stats, errorChan, \* drops counted since Open; errors queued
  published, dispatched, \* history: numbers of the last frame read, and of the last one
             \* dispatched or lost with an earlier session
  panicked,  \* history: a closed channel was closed again or sent to
  overtaken, \* history: an Open found a device that a Close had not stopped yet
  wire,      \* history: kinds of frames written, with the BRS they left with
  refused    \* history: an Open failed because of the configuration

busVars    == <<pc, calls, sending, open, sendMu, mu>>
devVars    == <<opMu, dev, cancelled>>
rxVars     == <<readers, hw, rxChan, published>>
fanVars    == <<fan, sub, stats, errorChan, dispatched, panicked>>
histVars   == <<overtaken, wire, refused>>
vars == <<busVars, devVars, rxVars, fanVars, histVars>>

NoFanout == [present |-> FALSE, subs |-> {}, closed |-> FALSE, loop |-> "off",
             closer |-> None, dying |-> {}]
NewFanout == [NoFanout EXCEPT !.present = TRUE, !.loop = "on"]

NoDrops == [source |-> 0, subscriber |-> 0]
NoReader == [select |-> 0, burst |-> 0]

Init ==
  /\ pc = [p \in Proc |-> "idle"] /\ calls = [p \in Proc |-> 0]
  /\ sending = [p \in Proc |-> None]
  /\ open = FALSE
  /\ sendMu = None /\ mu = [writer |-> None, readers |-> {}] /\ opMu = None
  /\ dev = [initialized |-> FALSE, running |-> FALSE, brs |-> FALSE, hw |-> "closed",
            stopping |-> FALSE]
  /\ cancelled = FALSE
  /\ readers = NoReader
  /\ hw = 0 /\ rxChan = <<>> /\ published = 0 /\ dispatched = 0
  /\ fan = NoFanout
  /\ sub = [c \in Chan |-> [state |-> "unused", unread |-> 0, seen |-> {}, from |-> 0]]
  /\ stats = NoDrops /\ errorChan = 0
  /\ panicked = FALSE /\ overtaken = FALSE /\ wire = {} /\ refused = FALSE

Goto(p, label) == pc' = [pc EXCEPT ![p] = label]

At(p, label) == pc[p] = label

\* Channels make has not made yet, and the goroutines that may need one.
Unused == {c \in Chan : sub[c].state = "unused"}
Subscribing == {p \in Proc : pc[p] \in {"subscribe", "subscribing"}}

\* A goroutine calls one of the driver's operations.
Call(p) ==
  /\ At(p, "idle") /\ calls[p] < MaxCalls[p]
  /\ calls' = [calls EXCEPT ![p] = @ + 1]
  /\ \/ \E op \in {"open", "close"} : Goto(p, op) /\ UNCHANGED sending
     \/ Cardinality(Unused) > Cardinality(Subscribing) /\ Goto(p, "subscribe") /\ UNCHANGED sending
     \/ \E k \in Kinds : Goto(p, "send") /\ sending' = [sending EXCEPT ![p] = k]
  /\ UNCHANGED <<open, sendMu, mu, devVars, rxVars, fanVars, histVars>>

-----------------------------------------------------------------------------
\* Open.

OpenLock(p) ==
  /\ At(p, "open") /\ mu = [writer |-> None, readers |-> {}]
  /\ IF open THEN Goto(p, "idle") /\ UNCHANGED mu
     ELSE Goto(p, "initialize") /\ mu' = [mu EXCEPT !.writer = p]
  /\ UNCHANGED <<calls, sending, open, sendMu, devVars, rxVars, fanVars, histVars>>

\* normalizeConfig accepts the configuration as it is now.
ConfigValid == dev.brs => FD

\* PCAN.initialize of a device that is initialized does nothing.
InitializeAgain(p) ==
  /\ At(p, "initialize") /\ opMu = None
  /\ dev.initialized
  /\ overtaken' = TRUE
  /\ Goto(p, "start")
  /\ UNCHANGED <<calls, sending, open, sendMu, mu, devVars, rxVars, fanVars, wire, refused>>

\* The configuration is refused, or the vendor library refuses and cleanup undoes
\* what was prepared.
InitializeFails(p) ==
  /\ At(p, "initialize") /\ opMu = None
  /\ ~dev.initialized
  /\ refused' = (refused \/ ~ConfigValid)
  /\ cancelled' = (cancelled \/ ConfigValid)
  /\ stats' = IF ConfigValid THEN NoDrops ELSE stats
  /\ Goto(p, "stop")
  /\ UNCHANGED <<calls, sending, open, sendMu, mu, opMu, dev, rxVars, fan, sub, errorChan,
                 dispatched, panicked, wire, overtaken>>

Initialize(p) ==
  /\ At(p, "initialize") /\ opMu = None
  /\ ~dev.initialized /\ ConfigValid
  /\ cancelled' = FALSE
  /\ rxChan' = <<>>
  /\ fan' = NewFanout
  /\ stats' = NoDrops
  /\ dispatched' = published
  /\ dev' = [dev EXCEPT !.initialized = TRUE, !.hw = "open"]
  /\ Goto(p, "start")
  /\ UNCHANGED <<calls, sending, open, sendMu, mu, opMu, readers, hw, published, sub,
                 errorChan, panicked, histVars>>

\* The frames that waited in the hardware are thrown away (msgBufferSize of them
\* at most, which is more than there are here).
DrainInitialBuffer == hw' = 0

\* lifecycle.start: one read loop at a time.
StartReadLoop ==
  /\ dev' = [dev EXCEPT !.running = TRUE]
  /\ readers' = IF dev.running THEN readers ELSE [readers EXCEPT !.select = @ + 1]

\* PCAN.start; then the bus is open.
Start(p) ==
  /\ At(p, "start") /\ opMu = None
  /\ dev.initialized
  /\ DrainInitialBuffer
  /\ StartReadLoop
  /\ open' = TRUE
  /\ mu' = [mu EXCEPT !.writer = None]
  /\ Goto(p, "idle")
  /\ UNCHANGED <<calls, sending, sendMu, opMu, cancelled, rxChan, published, fanVars, histVars>>

\* A Close stopped the device in between.
StartFails(p) ==
  /\ At(p, "start") /\ opMu = None
  /\ ~dev.initialized
  /\ Goto(p, "stop")
  /\ UNCHANGED <<calls, sending, open, sendMu, mu, devVars, rxVars, fanVars, histVars>>

-----------------------------------------------------------------------------
\* Close and PCAN.stop.

CloseLock(p) ==
  /\ At(p, "close") /\ sendMu = None
  /\ sendMu' = p
  /\ Goto(p, "closing")
  /\ UNCHANGED <<calls, sending, open, mu, devVars, rxVars, fanVars, histVars>>

\* Mutant: the bus stays open until the device is stopped.
CloseBusLate(p) ==
  /\ At(p, "closing") /\ mu = [writer |-> None, readers |-> {}]
  /\ IF open THEN Goto(p, "stop") /\ UNCHANGED sendMu
     ELSE Goto(p, "idle") /\ sendMu' = None
  /\ UNCHANGED <<calls, sending, open, mu, devVars, rxVars, fanVars, histVars>>

\* Close clears open and lets go of mu before it stops the device.
CloseBus(p) ==
  /\ At(p, "closing") /\ mu = [writer |-> None, readers |-> {}]
  /\ open' = FALSE
  /\ IF open THEN Goto(p, "stop") /\ UNCHANGED sendMu
     ELSE Goto(p, "idle") /\ sendMu' = None
  /\ UNCHANGED <<calls, sending, mu, devVars, rxVars, fanVars, histVars>>

StopBegin(p) ==
  /\ At(p, "stop") /\ opMu = None
  /\ opMu' = p
  /\ dev' = [dev EXCEPT !.initialized = FALSE, !.stopping = dev.initialized]
  /\ cancelled' = TRUE
  /\ Goto(p, "stopRead")
  /\ UNCHANGED <<calls, sending, open, sendMu, mu, rxVars, fanVars, histVars>>

\* Mutant: readWG.Wait forgotten.
StopReadUnwaited(p) ==
  /\ At(p, "stopRead")
  /\ Goto(p, "stopFanout")
  /\ UNCHANGED <<calls, sending, open, sendMu, mu, devVars, rxVars, fanVars, histVars>>

\* readWG.Wait.
StopRead(p) ==
  /\ At(p, "stopRead") /\ readers = NoReader
  /\ Goto(p, "stopFanout")
  /\ UNCHANGED <<calls, sending, open, sendMu, mu, devVars, rxVars, fanVars, histVars>>

\* Mutant: the subscriptions stay registered while they are closed.
CloseAllKept(f, who) ==
  IF f.closed THEN f ELSE [f EXCEPT !.closed = TRUE, !.closer = who, !.dying = f.subs]

\* closeAll, first half: whoever comes first takes all subscriptions.
CloseAll(f, who) ==
  IF f.closed THEN f
  ELSE [f EXCEPT !.closed = TRUE, !.closer = who, !.dying = f.subs, !.subs = {}]

StopFanout(p) ==
  /\ At(p, "stopFanout")
  /\ fan' = IF fan.present THEN CloseAll(fan, "stop") ELSE fan
  /\ Goto(p, "stopEnd")
  /\ UNCHANGED <<calls, sending, open, sendMu, mu, devVars, rxVars, sub, stats, errorChan,
                 dispatched, panicked, histVars>>

\* closeAll, second half: one channel after the other, outside the lock.
CloseChannel(who) ==
  /\ fan.closer = who
  /\ \E c \in fan.dying :
       /\ fan' = [fan EXCEPT !.dying = @ \ {c}]
       /\ sub' = [sub EXCEPT ![c].state = "closed"]
       /\ panicked' = (panicked \/ sub[c].state = "closed")
  /\ UNCHANGED <<busVars, devVars, rxVars, stats, errorChan, dispatched, histVars>>

StopChannel(p) == At(p, "stopEnd") /\ CloseChannel("stop")

\* Mutant: initialized is read again, after it was cleared.
StopEndCleared(p) ==
  /\ At(p, "stopEnd")
  /\ fan.loop = "off" /\ (fan.closer = "stop" => fan.dying = {})
  /\ fan' = NoFanout
  /\ rxChan' = <<>>
  /\ dev' = [dev EXCEPT !.hw = IF dev.initialized THEN "closed" ELSE @, !.stopping = FALSE]
  /\ hw' = IF dev'.hw = "closed" THEN 0 ELSE hw
  /\ opMu' = None
  /\ IF mu.writer = p THEN mu' = [mu EXCEPT !.writer = None] /\ UNCHANGED sendMu
                      ELSE sendMu' = None /\ UNCHANGED mu
  /\ Goto(p, "idle")
  /\ UNCHANGED <<calls, sending, open, cancelled, readers, published, sub, stats,
                 errorChan, dispatched, panicked, histVars>>

\* The fan-out's goroutine is gone; the hardware is released; Open or Close returns.
StopEnd(p) ==
  /\ At(p, "stopEnd")
  /\ fan.loop = "off" /\ (fan.closer = "stop" => fan.dying = {})
  /\ fan' = NoFanout
  /\ rxChan' = <<>>
  /\ dev' = [dev EXCEPT !.hw = IF dev.stopping THEN "closed" ELSE @, !.stopping = FALSE]
  /\ hw' = IF dev'.hw = "closed" THEN 0 ELSE hw
  /\ opMu' = None
  /\ IF mu.writer = p THEN mu' = [mu EXCEPT !.writer = None] /\ UNCHANGED sendMu
                      ELSE sendMu' = None /\ UNCHANGED mu
  /\ Goto(p, "idle")
  /\ UNCHANGED <<calls, sending, open, cancelled, readers, published, sub, stats,
                 errorChan, dispatched, panicked, histVars>>

-----------------------------------------------------------------------------
\* Send.

\* Mutant: sendMu is not taken.
SendUnlocked(p) ==
  /\ At(p, "send")
  /\ Goto(p, "sendCheck")
  /\ UNCHANGED <<calls, sending, open, sendMu, mu, devVars, rxVars, fanVars, histVars>>

SendLock(p) ==
  /\ At(p, "send") /\ sendMu = None
  /\ sendMu' = p
  /\ Goto(p, "sendCheck")
  /\ UNCHANGED <<calls, sending, open, mu, devVars, rxVars, fanVars, histVars>>

SendCheck(p) ==
  /\ At(p, "sendCheck") /\ mu.writer = None
  /\ IF open THEN Goto(p, "setBRS") /\ UNCHANGED sendMu
     ELSE Goto(p, "idle") /\ sendMu' = None
  /\ UNCHANGED <<calls, sending, open, mu, devVars, rxVars, fanVars, histVars>>

\* The frame's BRS becomes the configuration's, whether or not the frame can be sent.
SetBRS(p) ==
  /\ At(p, "setBRS") /\ opMu = None
  /\ dev' = [dev EXCEPT !.brs = (sending[p] = "brs")]
  /\ Goto(p, "write")
  /\ UNCHANGED <<calls, sending, open, sendMu, mu, opMu, cancelled, rxVars, fanVars, histVars>>

\* PCAN.write: refused when the device is stopped, or for a CAN FD frame in
\* classic mode; a CAN FD frame leaves with the configuration's BRS.
Write(p) ==
  /\ At(p, "write") /\ opMu = None
  /\ wire' = IF dev.initialized /\ (sending[p] = "plain" \/ FD)
             THEN wire \cup {[kind |-> sending[p], brs |-> dev.brs /\ sending[p] # "plain"]}
             ELSE wire
  /\ sendMu' = None
  /\ Goto(p, "idle")
  /\ UNCHANGED <<calls, sending, open, mu, devVars, rxVars, fanVars, overtaken, refused>>

-----------------------------------------------------------------------------
\* Subscriptions.

SubscribeLock(p) ==
  /\ At(p, "subscribe") /\ mu.writer = None
  /\ IF open THEN Goto(p, "subscribing") /\ mu' = [mu EXCEPT !.readers = @ \cup {p}]
     ELSE Goto(p, "idle") /\ UNCHANGED mu
  /\ UNCHANGED <<calls, sending, open, sendMu, devVars, rxVars, fanVars, histVars>>

\* PCAN.subscribe and rxFanout.Subscribe; the channel is closed from the start
\* if the fan-out is.
Subscribe(p) ==
  /\ At(p, "subscribing") /\ opMu = None
  /\ IF fan.present
     THEN LET c == CHOOSE x \in Unused : TRUE IN
            /\ Unused # {}
            /\ sub' = [sub EXCEPT ![c] = [@ EXCEPT !.state = IF fan.closed THEN "closed" ELSE "open",
                                                   !.from = dispatched]]
            /\ fan' = IF fan.closed THEN fan ELSE [fan EXCEPT !.subs = @ \cup {c}]
     ELSE UNCHANGED <<sub, fan>>
  /\ mu' = [mu EXCEPT !.readers = @ \ {p}]
  /\ Goto(p, "idle")
  /\ UNCHANGED <<calls, sending, open, sendMu, devVars, rxVars, stats, errorChan, dispatched,
                 panicked, histVars>>

\* The release function: it only knows its own fan-out.
Unsubscribe(c) ==
  /\ c \in fan.subs
  /\ fan' = [fan EXCEPT !.subs = @ \ {c}]
  /\ sub' = [sub EXCEPT ![c].state = "closed"]
  /\ panicked' = (panicked \/ sub[c].state = "closed")
  /\ UNCHANGED <<busVars, devVars, rxVars, stats, errorChan, dispatched, histVars>>

Receive(c) ==
  /\ sub[c].unread > 0
  /\ sub' = [sub EXCEPT ![c].unread = @ - 1]
  /\ UNCHANGED <<busVars, devVars, rxVars, fan, stats, errorChan, dispatched, panicked, histVars>>

ReadError ==
  /\ errorChan > 0
  /\ errorChan' = errorChan - 1
  /\ UNCHANGED <<busVars, devVars, rxVars, fan, sub, stats, dispatched, panicked, histVars>>

-----------------------------------------------------------------------------
\* The read loop.

Tick ==
  /\ readers.select > 0
  /\ readers' = [select |-> readers.select - 1, burst |-> readers.burst + 1]
  /\ UNCHANGED <<busVars, devVars, hw, rxChan, published, fanVars, histVars>>

ReadEmpty ==
  /\ readers.burst > 0 /\ hw = 0
  /\ readers' = [select |-> readers.select + 1, burst |-> readers.burst - 1]
  /\ UNCHANGED <<busVars, devVars, hw, rxChan, published, fanVars, histVars>>

Min2(a, b) == IF a <= b THEN a ELSE b

\* k drops are reported; errors beyond the capacity are not queued.
Report(k) == errorChan' = Min2(ErrorCap, errorChan + k)

\* Mutant: a full channel loses the frame without a count.
PublishUncounted ==
  IF Len(rxChan) < RxCap
  THEN rxChan' = Append(rxChan, published') /\ UNCHANGED <<stats, errorChan>>
  ELSE UNCHANGED <<rxChan, stats, errorChan>>

\* publishObservedRx while the context lives.
Publish ==
  IF Len(rxChan) < RxCap
  THEN rxChan' = Append(rxChan, published') /\ UNCHANGED <<stats, errorChan>>
  ELSE /\ stats' = [stats EXCEPT !.source = @ + 1]
       /\ Report(1)
       /\ UNCHANGED rxChan

\* publishObservedRx once it is cancelled: select may give up or still send.
PublishCancelled ==
  \/ UNCHANGED rxChan
  \/ Len(rxChan) < RxCap /\ rxChan' = Append(rxChan, published')

\* Mutant: the read loop takes the device's lock.
ReadFrameLocked ==
  /\ readers.burst > 0 /\ hw > 0 /\ opMu = None
  /\ hw' = hw - 1
  /\ published' = published + 1
  /\ Publish
  /\ UNCHANGED <<busVars, devVars, readers, fan, sub, dispatched, panicked, histVars>>

ReadFrame ==
  /\ readers.burst > 0 /\ hw > 0
  /\ hw' = hw - 1
  /\ published' = published + 1
  /\ IF cancelled THEN PublishCancelled /\ UNCHANGED <<stats, errorChan>> ELSE Publish
  /\ UNCHANGED <<busVars, devVars, readers, fan, sub, dispatched, panicked, histVars>>

\* The goroutine clears running and is gone.
ReadLoopEnds ==
  /\ readers.select > 0 /\ cancelled
  /\ readers' = [readers EXCEPT !.select = @ - 1]
  /\ dev' = [dev EXCEPT !.running = FALSE]
  /\ UNCHANGED <<busVars, opMu, cancelled, hw, rxChan, published, fanVars, histVars>>

\* The hardware receives a frame.
Arrive ==
  /\ dev.hw = "open" /\ published + hw < MaxFrames
  /\ hw' = hw + 1
  /\ UNCHANGED <<busVars, devVars, readers, rxChan, published, fanVars, histVars>>

-----------------------------------------------------------------------------
\* The fan-out's goroutine.

\* Mutant: the capacity is exceeded by one.
FullLate(c) == sub[c].unread > SubCap

Full(c) == sub[c].unread >= SubCap

\* dispatch: every subscriber with room gets the frame, every other one is counted.
Dispatch ==
  LET full == {c \in fan.subs : Full(c)} IN
  /\ fan.loop = "on" /\ rxChan # <<>>
  /\ rxChan' = Tail(rxChan)
  /\ dispatched' = Head(rxChan)
  /\ sub' = [c \in Chan |-> IF c \in fan.subs \ full
                            THEN [sub[c] EXCEPT !.unread = @ + 1, !.seen = @ \cup {Head(rxChan)}]
                            ELSE sub[c]]
  /\ stats' = [stats EXCEPT !.subscriber = @ + Cardinality(full)]
  /\ Report(Cardinality(full))
  /\ panicked' = (panicked \/ \E c \in fan.subs : sub[c].state = "closed")
  /\ UNCHANGED <<busVars, devVars, readers, hw, published, fan, histVars>>

FanoutCancelled ==
  /\ fan.loop = "on" /\ cancelled
  /\ fan' = [CloseAll(fan, "loop") EXCEPT !.loop = "closing"]
  /\ UNCHANGED <<busVars, devVars, rxVars, sub, stats, errorChan, dispatched, panicked, histVars>>

FanoutEnds ==
  /\ fan.loop = "closing" /\ (fan.closer = "loop" => fan.dying = {})
  /\ fan' = [fan EXCEPT !.loop = "off"]
  /\ UNCHANGED <<busVars, devVars, rxVars, sub, stats, errorChan, dispatched, panicked, histVars>>

-----------------------------------------------------------------------------
Step(p) ==
  \/ OpenLock(p) \/ InitializeAgain(p) \/ InitializeFails(p) \/ Initialize(p)
  \/ Start(p) \/ StartFails(p)
  \/ CloseLock(p) \/ CloseBus(p)
  \/ StopBegin(p) \/ StopRead(p) \/ StopFanout(p) \/ StopChannel(p) \/ StopEnd(p)
  \/ SendLock(p) \/ SendCheck(p) \/ SetBRS(p) \/ Write(p)
  \/ SubscribeLock(p) \/ Subscribe(p)

ReadLoop == ReadFrame \/ ReadEmpty
Fanout == Dispatch \/ FanoutCancelled \/ CloseChannel("loop") \/ FanoutEnds

Next ==
  \/ \E p \in Proc : Call(p) \/ Step(p)
  \/ \E c \in Chan : Unsubscribe(c) \/ Receive(c)
  \/ ReadError
  \/ Tick \/ ReadLoop \/ ReadLoopEnds \/ Arrive
  \/ Fanout

Spec == Init /\ [][Next]_vars

\* Fairness: goroutines run, locks starve nobody, select does not prefer the
\* ticker or the source for ever, and the hardware's queue runs empty.
FairSpec ==
  /\ Spec
  /\ \A p \in Proc : WF_vars(Step(p))
  /\ WF_vars(ReadLoop) /\ SF_vars(ReadLoopEnds)
  /\ WF_vars(FanoutCancelled) /\ WF_vars(CloseChannel("loop")) /\ WF_vars(FanoutEnds)

-----------------------------------------------------------------------------
PCs == {"idle", "open", "initialize", "start", "close", "closing", "stop", "stopRead",
        "stopFanout", "stopEnd", "send", "sendCheck", "setBRS", "write", "subscribe",
        "subscribing"}

CallTypes ==
  /\ pc \in [Proc -> PCs] /\ calls \in [Proc -> Nat]
  /\ sending \in [Proc -> Kinds \cup {None}]
  /\ open \in BOOLEAN /\ {sendMu, opMu} \subseteq Proc \cup {None}
  /\ mu \in [writer : Proc \cup {None}, readers : SUBSET Proc]

DeviceTypes ==
  /\ dev \in [initialized : BOOLEAN, running : BOOLEAN, brs : BOOLEAN,
              hw : {"open", "closed"}, stopping : BOOLEAN]
  /\ cancelled \in BOOLEAN /\ readers \in [select : Nat, burst : Nat]

RxTypes ==
  /\ hw \in 0..MaxFrames /\ published \in 0..MaxFrames /\ dispatched \in 0..MaxFrames
  /\ rxChan \in Seq(1..MaxFrames) /\ Len(rxChan) <= RxCap

FanTypes ==
  /\ fan \in [present : BOOLEAN, subs : SUBSET Chan, closed : BOOLEAN,
              loop : {"on", "closing", "off"}, closer : {None, "loop", "stop"},
              dying : SUBSET Chan]
  /\ sub \in [Chan -> [state : {"unused", "open", "closed"}, unread : 0..SubCap,
                      seen : SUBSET (1..MaxFrames), from : 0..MaxFrames]]

HistTypes ==
  /\ stats \in [source : Nat, subscriber : Nat] /\ errorChan \in 0..ErrorCap
  /\ panicked \in BOOLEAN /\ overtaken \in BOOLEAN /\ refused \in BOOLEAN
  /\ wire \subseteq [kind : Kinds, brs : BOOLEAN]

\* Types of the variables, with the capacities of the channels.
TypeOK == CallTypes /\ DeviceTypes /\ RxTypes /\ FanTypes /\ HistTypes

\* No channel is closed twice or sent to after it was closed, whoever closes it:
\* the application, the fan-out's goroutine or stop.  Either would end the program.
NoPanic == ~panicked

\* "... waits until the hardware read loop is no longer executing vendor code"
\* (common.go): at most one read loop exists, and it reads only open
\* hardware, as write does, which asks whether the device is initialized.
VendorCallsWhileOpen ==
  /\ readers.select + readers.burst <= 1
  /\ readers.burst > 0 \/ dev.initialized => dev.hw = "open"

\* An open bus has a working device behind it: initialized, with its read loop and
\* fan-out alive.  (Unless Open overtook a Close, see the README.)
OpenIsUsable ==
  open /\ ~overtaken =>
    /\ dev.initialized /\ dev.hw = "open" /\ ~cancelled
    /\ readers.select + readers.burst = 1
    /\ fan.loop = "on" /\ ~fan.closed

\* After Close, or an Open that failed, nothing is left: no hardware, no goroutine,
\* and no subscriber that would wait for ever on its channel.
ClosedIsReleased ==
  ~open /\ (\A p \in Proc : pc[p] \notin {"initialize", "start", "stop", "stopRead",
                                          "stopFanout", "stopEnd"}) =>
    /\ ~dev.initialized /\ dev.hw = "closed"
    /\ readers = NoReader /\ fan = NoFanout
    /\ \A c \in Chan : sub[c].state # "open"

\* A subscriber misses no frame that Stats does not account for: what was read since
\* its subscription, is not on its way and never reached its channel was counted.
NoSilentGap == \A c \in fan.subs :
  ~cancelled =>
    Cardinality(((sub[c].from + 1)..published) \ (sub[c].seen \cup Range(rxChan)))
      <= stats.source + stats.subscriber

\* Every frame leaves with its own BRS, although setBRS and write lock separately.
FrameKeepsBRS == \A w \in wire : w.brs = (w.kind = "brs")

\* Every call returns, whatever calls it races with: Close waits for goroutines that never wait for it.
CallsReturn == \A p \in Proc : pc[p] # "idle" ~> pc[p] = "idle"

\* "A later Open delivers subsequent errors on that same channel" (can.go): a bus
\* whose configuration was accepted once is not refused because of it later.
ReopenSucceeds == ~refused
=============================================================================

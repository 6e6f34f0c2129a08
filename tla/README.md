# A TLA+ verification of canbuskit

canbuskit is a Go library for CAN and CAN FD adapters: one driver interface over five
vendor backends, an in-process bus for tests, ISO-TP sessions, and a UDS client.
This directory models its concurrent and stateful parts in TLA+, checks them with TLC
on small instances, and proves the central invariants with TLAPS.

## The system

```
  application goroutines
        |  Request..., SetFunctionalAddress, Close
  uds.Client            one request at a time (reqMu); deadlines, retries
        |  SendContext, SetTxAddress, RecvChan
  isotp.Session         `run` goroutine: transmit and receive machine, three timers
        |  txChan -> forwarder -> bus.Send        forwarder <- subscription
  can.Driver            bus (bus.go) over a vendor device, or memory endpoint
        |  read loop -> rxChan -> fan-out -> subscriber channels
  vendor library, CAN bus, peer
```

| Component | State | Operations | What is hard, and what makes it correct |
| --- | --- | --- | --- |
| ISO-TP session (`isotp/stack.go`, `tx_handler.go`, `rx_handler.go`) | transmit machine, receive machine, N_Bs, STmin and N_Cr timers, `txDataChan`, `rxDataChan`, `errorChan`, transmit address | `SendContext`, `SetTxAddress`, `RecvChan`, `Errors`, `Close`; one handler per frame type and per timer | two machines and three timers driven by one `select`; frames lost, late or foreign; queues that drop; `Close` in the middle of a handler. A payload arrives whole or not at all, in order; no state waits without a timer; the ends never wait for each other |
| Framing (`isotp/framing.go`, `pdu.go`, `address.go`, `can/can.go`) | none | `Encode...`, `makeTxMsgWithAddr`, `NewFrame`, `ParseFrame` | lengths, padding and the DLC tables must agree at every boundary: what the peer parses is what was meant |
| UDS client (`uds/uds_client.go`) | `reqMu`, functional address, a deadline and counters per call | `Request...`, `SetFunctionalAddress`, `Close` | late and repeated answers, answers racing deadlines, retries, cancellation. Answers are fresh, a request is repeated only when the ECU asked for it, every call returns |
| Bus (`bus.go`, `common.go`, `fanout.go`, `observability.go`) with a device (`pcan.go`) | `open`, `sendMu`, `mu`, `opMu`, the device's lifecycle flags and context, the read loop, `rxChan`, the fan-out's subscriptions, drop counters, configuration | `Open`, `Close`, `Send`, `Subscribe`, release, `Errors`, `Stats`, `Config` | lock order, waiting for goroutines under a lock, channels closed by three parties, frames dropped at two queues. No panic, no vendor call on released hardware, open means working, closed means released |
| Automatic selection (`auto_driver.go`) | selected device, name, configuration | `initialize`, `start`, `stop`, delegation | candidates that fail half-way or come up in the wrong mode, `Close` beside a second `Open`. Nothing a rejected or closed device took is kept, an open bus has a running device to itself, and what `Errors` refers to stays the same |
| Vendor backends (`vector.go`, `tsmaster.go`, `toomoss.go`, `canalystii.go`) | as PCAN, with ports, handles, libraries; the one Toomoss session of the process | the same device interface | an `initialize` that fails at any stage, a `stop` of a device that never started. Cleanup and stop let go of exactly what was taken |
| Bus load meter (`busload.go`), relative timestamps (`timestamp.go`) | rolling window, pending transmissions, clock offset | `recordTx`, `observe...`, `snapshot` | echoes matched to sends, wrapping hardware clocks |
| Memory bus (`can/memory/memory.go`) | two endpoints: opened, closed, subscribers, counters | `Open`, `Close`, `Send`, `Subscribe` | `Close`, releases and refused subscriptions racing the two dispatches of a `Send`. No closed channel is sent to, drops are counted, only what went out is echoed |
| Configuration (`can.Config`, `isotp.Config`) | none | `Normalized`, `Validate` | defaults and refusals |

`PROJECT.json` lists every component with its status, the map from definitions to source
lines, the runs, the mutants each property was tried against, the hazards and the
findings.

## Modules

| Module | Models | Correspondence |
| --- | --- | --- |
| `IsoTpSession` | two `isotp.Session`s, their forwarders and the bus between them | `tx[n]`, `rx[n]` are the fields of `Session` that `stopSending` and `stopReceiving` reset; one action per case of `run`'s select and per branch of its handlers (`SendSingleFrame` ... `RxConsecutiveFrame`, the three timers); `txChan` is the frame queue to the forwarder, `inbox` the subscriber channel with `rxMessages` behind it |
| `IsoTpSessionMC` | instances | a tester `a` and an ECU `b` |
| `IsoTpSessionProofs` | theorems about `IsoTpSession` | see "Proofs" |
| `IsoTpPairProofs` | theorems about what two sessions do together: flow control while nothing disturbs them, the refinement of `PayloadChannel` while no frame is lost | extends `IsoTpSessionProofs` and `IsoTpChannel`; see "Proofs" |
| `PayloadChannel` | what two sessions promise: payloads that are accepted, then delivered in order and at most once, or reported and never delivered after that | `accepted`, `received`, `reported`, `closing` are the outside of the two sessions; nothing of ISO-TP is left. `Deliver` says what may be overtaken without an error: payloads that are `Silent`, and anything on its way to an end that is closing |
| `IsoTpChannel` | the refinement mapping from `IsoTpSession` to `PayloadChannel` | a payload is accepted when `SendContext` returns, received when `rxDataChan` took it, and reported when an error names it; `Silent` are the single frames, or none when the bus is `Lossless` |
| `IsoTpCodec` | the way of one frame from a payload length to what the peer parses | `Encoded`, `Padded`, `Carried`, `Transmit`, `ParseFrame` are the stages; a frame is its header bytes, the number of data bytes and the padding |
| `IsoTpCodecMC` | instances | all single-frame sizes, chunk sizes, padding bytes |
| `IsoTpCodecProofs` | theorems about `IsoTpCodec` | see "Proofs" |
| `UdsClient` | `uds.Client` with several calling goroutines, over an abstract session and ECU | `call[r]` is the program counter of `requestWithContext` and `singleRequest` with their locals; `txDataChan`, `rxDataChan` are the session's queues; the ECU answers when and how it likes |
| `UdsClientMC` | instances | a regular call and a functional call that suppresses the positive response |
| `UdsClientProofs` | theorems about `UdsClient` | see "Proofs" |
| `Driver` | `bus` over a PCAN device under concurrent calls | an action is what a goroutine does between two points where another can get in: a lock, a wait, a channel closed outside the lock; `sendMu`, `mu`, `opMu` are explicit, `fan` is the `rxFanout`, `readers` the read loops |
| `DriverMC` | instances | two goroutines, two subscriptions |
| `DriverProofs` | theorems about `Driver` | see "Proofs" |
| `AutoDevice` | `bus.Open` and `bus.Close` over `autoDevice` and over devices of their own; `initialize`, its cleanup and `stop` of all five backends as sequences of stages | `Stages`, `Cleanup` and `Stop` are those sequences; `held[d]` is what device `d` has taken and not let go of; `inUse` is `toomossInUse`; `autoMu`, `opMu`, `mu`, `sendMu` are explicit |
| `AutoDeviceMC` | instances | an automatic bus and one with a Toomoss or Canalyst-II device |
| `AutoDeviceProofs` | theorems about `AutoDevice` | see "Proofs" |
| `MemoryBus` | two memory endpoints and their subscribers under concurrent calls | `readers[e]` are the dispatches that hold the endpoint's read lock; a dispatch visits one channel per step; writers are single actions because nothing interleaves with them |
| `MemoryBusMC` | instances | two goroutines, two channels |
| `MemoryBusProofs` | theorems about `MemoryBus` | see "Proofs" |
| `BusLoad` | `busLoadMeter` and `relativeLogClock`, used by `Send`, the read loop and `BusLoad` | `meter` is the struct, and each of its methods a function from one meter to the next; the two goroutines take the time and the mutex in separate steps; `bus` is the history of what really was on the bus |
| `BusLoadMC` | instances | two frames that look different, with an occupancy by the formula and one by the adapter's bit count |
| `BusLoadProofs` | theorems about the meter and the log's clock in `BusLoad` | see "Proofs" |

`UdsClient` does not instantiate `IsoTpSession`: it replaces it by what the session's
channels promise (queues that accept, drop when full, and transmit later), and
`IsoTpSession` replaces the driver by a bus that may lose frames and a subscriber
channel that may be full. `Driver` shows that drops are the only loss. Above `IsoTpSession`
stands `PayloadChannel`: `session_duplex` checks the safety part of the refinement
(`ImplementsChannel`), which is also proved, `session_lossy` its liveness (`ResolvesPayloads`). `AutoDevice` takes the
locks of `bus` from `Driver` and leaves out frames; `Driver` takes one backend
and leaves out the stages of `initialize`.

### Abstractions

* Payloads are names with a length; frames name the byte range they carry. A reassembly
  buffer is a prefix of one payload, or `Mixed`. So every mix-up is visible, and
  `IsoTpCodec` accounts for the bytes.
* Time is abstract: an armed timer may fire at any moment, or, with `Patient`, only when
  nothing is in flight that could stop it. No run depends on the value of a timeout.
* A handler is one action: `run` is the only goroutine that touches the machines. A
  handler blocked on the full frame queue is an action that waits for room; meanwhile
  the model lets other cases of the same `select` run, which the code does not: more
  behaviours, not fewer.
* Refusals before any state is touched (nil context, empty payload, invalid frame) are
  left out, and so are logging and the texts of errors.
* In `Driver`, `opMu` is held for the whole of `initialize`, so it is one action; `stop`
  is five, because the read loop, the fan-out and release functions run in between.
  The loop's branch for a closed source is not modelled: `rxChan` is closed only after
  the fan-out's goroutine has ended. Frames that the read loop filters out (remote,
  error and extended frames, own echoes) are not frames of the model. The drain of the
  hardware queue in `start` takes all that is there, the code at most `msgBufferSize`.
* In `MemoryBus`, calls that are refused before any state is touched (a context that is over, an invalid
  frame, a CAN FD frame on a classic bus) are left out, and so are unbuffered subscriber channels.
  The preference of Go's `RWMutex` for waiting writers is not modelled: more behaviours, not fewer.
* In `AutoDevice`, a stage of `initialize` may fail whenever the code has an error path for it.
  The DLLs of PCAN, Vector and Canalyst-II stay loaded for the life of the process and
  are nobody's to release. Letting go succeeds even if the vendor's call reports an error, as the code
  ignores it. `tsapp_connect` is process-wide: what two TSMaster buses do to each
  other in the vendor's library is not modelled. The refusal of a configuration before the loop
  over candidates is left out. Devices are interchangeable, hence the symmetry.
* In `BusLoad`, time is a clock of whole ticks, a frame is what `busFrameKey` keeps of it,
  and its time on the bus one of two constants (the formula's and the bit count's). Writing,
  reading and handling take at most `MaxDelay`; a snapshot takes its time and the mutex in one
  step. The field `slip` is history and not in the code.

## Runs

| Run | Instance and bounds | Shows |
| --- | --- | --- |
| `session_duplex` | classic CAN; `a` sends 20 and 5 bytes (block size 1 granted by `b`), `b` sends 12; queues of 1 to 3; two injected frames out of CTS, WAIT, overflow, garbage; timers fire at any moment; `b` may close; `a` uses manual flow control; the error queue is always full | `TypeOK`, `TimerDiscipline`, `SenderProgress`, `IntactDelivery`, `ImplementsChannel` |
| `session_lossy` | 27, 12 and 34 bytes (the last more than the receiver takes), one frame lost, dropped or refused, one stray WAIT, an address switch; timers outlast what is in flight | `ReassemblyBounded`, `SenderReturns`, `ResolvesPayloads` |
| `session_fd` | CAN FD, 1110 bytes (17 consecutive frames, so the sequence number wraps), 80 and 30 bytes, block sizes 3 and 4, nothing lost | `NoMutualWait`, `FlowControlCredit`, `EventuallyDelivered` |
| `codec` | every single-frame size, chunk sizes 1..63, first frames around every boundary up to 32-bit lengths, STmin in milliseconds and in hundreds of microseconds, three padding bytes or none, both formats | `RoundTrip`, `FillAgrees`, `NeverRefused` |
| `uds_client` | two calls, one retry, one response-pending, queues of 1, one unsolicited payload; deadlines, cancellation and `Close` at any moment | `TypeOK`, `FreshAnswer`, `RetriesJustified`, `AddressInForce`, `CallsReturn` |
| `uds_addressing` | the same | finding: `RegularRequestsPhysical` is violated |
| `driver` | two goroutines with two calls each out of Open, Close, Send, Subscribe; two subscriptions released at any moment; two frames; every queue holds one | `TypeOK`, `NoPanic`, `VendorCallsWhileOpen`, `OpenIsUsable`, `ClosedIsReleased`, `NoSilentGap`, `FrameKeepsBRS`, `CallsReturn` |
| `driver_reopen` | a classic bus, one goroutine with four calls | finding: `ReopenSucceeds` is violated |
| `busload` | two transmissions and one reception in 8 ticks, a window of two slots of two ticks, one pending transmission at most, handling within one tick (no longer than an early echo is kept), an adapter clock that wraps at tick 3, or no stamps at all | `TypeOK`, `CountedOnce`, `SlotsConsistent`, `LogElapsed` |
| `memory` | two endpoints, one of which echoes; two goroutines with three calls each out of Open, Close, Send, Subscribe, release; two channels of one frame; contexts end at any moment | `TypeOK`, `NoPanic`, `NoSilentLoss`, `EchoConfirms`, `CallsReturn` |
| `auto` | two goroutines with three calls each; an automatic bus over Toomoss, a candidate in the wrong mode, TSMaster, PCAN and Vector, beside a bus with a Toomoss or Canalyst-II device of its own; every stage may fail | `TypeOK`, `SessionExclusive`, `NothingLeaks`, `OpenHasDevice` |
| `auto_errors` | the same | finding: `ErrorsChannelKept` is violated |

Why the bounds are enough. A transfer's control depends on block position, sequence number
and the last frame's length: two or three consecutive frames with block sizes 1 and 2
reach every branch, and `session_fd` adds the wrap. Queues of one element are full
as soon as they are used, so every drop and every blocking send happens. One lost frame
meets every frame in turn. For `UdsClient`, two calls with one retry and one
pending reply pass every limit, and a late answer of one meets the other. In `driver`
a second session starts from the state of the first (`Initialize` makes context,
queue and fan-out anew), so open, close and open again with one more call beside them
show every overlap of two sessions. In `busload` 8 ticks are twice the window, so frames
enter it, roll through and leave, with the wrap inside, while the two transmissions and the
reception overlap in every order. The code's 1000 slots of 1 ms become two of two ticks: what
matters is a slot that is partly given up, and a time inside, at the end of and before the window.
In `auto` three calls each are an open, a close and an open again beside the same of the other
goroutine, so a stop of one session meets the start of the next, and both buses compete for the Toomoss
session; three devices are one more than two goroutines can work on. In `memory` a channel of one
is full at its first frame, and each goroutine's calls reach both ends.

All configurations switch deadlock checking off: the applications of the model make a bounded
number of calls, after which everything comes to rest. That nothing gets stuck before
is what `SenderReturns`, `ResolvesPayloads`, `NoMutualWait`, `EventuallyDelivered` and the three
`CallsReturn` are for.

### Fairness

* `IsoTpSession`: `run` keeps running and its `select` starves no ready case (Go picks
  at random among the ready ones), an armed timer fires unless it is stopped, the
  forwarder and the bus keep taking frames, the application keeps reading. `Close`,
  `SendContext`, losses and injections are not fair.
* `UdsClient`: goroutines run, an expired deadline is eventually picked, deadlines
  expire, the session transmits or gives up what it accepted (`SenderReturns`). The
  ECU is not fair: it may never answer.
* `Driver`: goroutines run (Go's mutexes starve nobody), the read loop's `select` does
  not pick the ticker for ever once the context is cancelled, and the hardware's queue
  runs empty. The last one is an assumption about the vendor library: `readBurst` does not
  look at the context, and while `CAN_Read` keeps returning a bus warning (pcan.go:496)
  it goes on reading.
* `MemoryBus`: goroutines run and are granted the mutex in the end. Applications that read are not
  fair: a call returns although nobody reads.
* `AutoDevice` (only `auto_errors` uses it): goroutines run, vendor calls return.

### Findings

* `RegularRequestsPhysical` (`uds_addressing`): a payload left in the session's queue by
  a call that gave up leaves with the address of the next call.
* `ReopenSucceeds` (`driver_reopen`): a CAN FD frame with BRS tried on a classic bus makes
  every later `Open` fail.
* `ErrorsChannelKept` (`auto_errors`): an automatic bus returns another error channel before `Open`, while
  open and after `Close`. A memory endpoint breaks the same sentence of `can.go` in
  another way: its `Close` closes its error channel (memory.go:85).

Other behaviour met while modelling, which a property excepts by name or no text speaks of:

* An empty payload on padded classic CAN is parsed as padding bytes (pdu.go:51) if the padding byte is 1
  to 6, though a test of unpadded frames expects an empty one (framing_test.go:334). `RoundTrip`
  excepts this case (`PaddedEmpty`).
* A session's forwarder takes BRS from `bus.Config()` (stack.go:149), which every `Send` of another user of
  the bus overwrites.
* `SendContext` racing `Close` may return nil for a payload that is never sent. `PayloadChannel` allows
  that once an end has closed.
* An automatic `Open` that overlaps a `Close` of another Toomoss bus can find the session still in use and
  fall through to the next adapter.

* `Close` lets go of `mu` before it stops the device (bus.go:61). An `Open` that gets in
  between finds the device initialized, returns nil, and the device is stopped
  under the open bus: `Send` reports "not open" and `Open` "already open" until the bus is
  closed again. `OpenIsUsable` holds for all other histories (`overtaken` marks
  this one).
* A flow control frame that outlives an aborted transfer starts the next one early;
  if that one's first frame is lost as well, its consecutive frames can complete
  the old reassembly. ISO-TP offers no protection; `IntactDelivery` is therefore
  checked with arbitrary timers on a lossless bus, and with losses only when timers outlast
  what is in flight.
* A single frame that the bus loses, or that finds `rxDataChan` full, vanishes with no
  error at the sender. `ResolvesPayloads` is about segmented payloads.
* A transmission whose echo came early is counted twice when `BusLoad` sets the window's origin
  between its time and the meter's mutex (observability.go:116, busload.go:230). The meter also loses
  or doubles a frame on further edges, which the history field `slip` marks
  and `CountedOnce` excepts: a host time exactly at the window's end is put into the last
  slot and looked for in another; a stamp older than every counted one is dropped, though the
  host's count of the same transmission was taken out; an early echo from before a wrap
  that is matched after it moves the clock forward by almost a period; a stamp of 0 means
  none; a full pending list forgets its oldest. A received frame that looks like a
  transmission of the last 100 ms is taken for its echo, which the code's comment intends;
  `CountedOnce` does not demand such frames.
* An answer of the same service that arrives after the drain is taken for the answer to
  the new request: UDS has no request identifier. A suppressed positive response times out
  as success even if the request never left.

## Proofs

`IsoTpSessionProofs` proves, for every set of payloads and every value of the
constants that satisfies the assumptions named in `IsoTpSession`:

* `TypeCorrect`: `Spec => []TypeOK`.
* `TimersFollowStates`: `Spec => []TimerDiscipline`. No state waits without its timer and
  no timer outlives its state, whatever is lost, injected or closed.
* `ReassemblyIsBounded`: `Spec => []ReassemblyBounded`.

None of the three is inductive alone. `IInv` adds to the types what they rest on:
`TxGood` (an active transmit machine has a payload of its own and an offset inside it, an idle one
is `TxIdle`, and timers agree with state and status) and `RxGood` (the same for the
receive machine, with the buffer shorter than the announced length, which is at most
`MaxPayloadSize`). Each handler is a lemma of its own
(one step per action); the bus and the application leave the machines alone, which
one lemma says for all of them. `Inductive` puts the cases together, `IInvHolds` is the
temporal step. Only `IsoTpSession`'s ASSUMEs are used; TLC evaluates them in every
`session_*` run.

Its second half is about what two sessions do together, for all payloads, frame lengths,
sequence lengths and queue sizes:

* `SenderIsInStep`: `Spec => []SenderProgress`. An active transmit machine has sent its
  first frame and `k` full consecutive frames, and the number it is due is `(k + 1) % SeqMod`.
* `DeliveryIsIntact`: `Lossless` implies `Spec => []IntactDelivery`. Every delivered payload is a
  whole one of the peer's.

For the second the frames between two sessions are read as one stream. A position is a payload and an offset in it; every
frame but flow control continues at one position and moves the stream to the next (`Continues`,
`After`). The invariant `Transfers` says that there are positions, one before, between and behind the frames of
the sender's queue and of the receiver's inbox, which follow from one another (`InTurn`), end where the transmit machine
stands (`Behind`) and begin where the receive machine stands (`Before`). They are existentially quantified
sequences; each step of a session extends or shortens them at one end. A receiver in `WaitCF` therefore only
ever meets the next frame of its own payload, or a single or first frame that starts another.
`Lossless == MaxLoss = 0 /\ TxIDs = {}` is the setting of the run `session_duplex`, and the theorem would
be false without it: after `SeqMod` lost frames the sequence number comes round again, and a late
`ContinueToSend` with one lost first frame lets a receiver go on with the next payload. ISO-TP has
no other check, and neither has the code. A full application queue, timeouts, aborts, injected flow
control and `Close` at any moment are all allowed.

`IsoTpPairProofs` proves, for all payloads, block sizes, size limits, frame lengths and queue
sizes, with transfers in both directions at once:

* `CreditIsKept`: `Undisturbed` implies `Spec => []FlowControlCredit`.
* `NeitherWaitsForTheOther`: `Undisturbed` implies `Spec => []NoMutualWait`.
* `AgreementHolds`: the invariant both follow from.

`Undisturbed` is the setting of the run `session_fd`: `Lossless`, `Patient` timers, no `Close`, no frame injected, no
manual flow control. Outside of it the two ends may disagree: a lost frame or a timer that fires early leaves a receiver in
`WaitCF` facing a sender that has stopped or gone on to the next payload, a late or injected `ContinueToSend` gives
a block that the receiver does not count, and a receiver with manual flow control does not answer by itself. For
those settings the code has its timers, and `SenderReturns` and `ResolvesPayloads` say what they achieve.

The invariant `Agreement` follows the frames under way. For every sender it says that there is a sequence of states of the
peer's receive machine, one before, between and behind the frames of the line (`Foreseen`): each frame is the one the state before it
waits for (`Meets`), the state after it is what `processRx` makes of both (`Expected`), and some frames will be answered with
flow control (`Grants`). The sender is then in one of four phases. `Unanswered`: it neither has leave to send nor will get it, and
the reception it started, if any, will be over; `Due`: exactly one frame on its way will be answered, the last one with data; `Granted`: exactly one answer is coming
back, and no data is on its way; `Sending`: no answer is due or coming, and its block counter is the receiver's plus the
consecutive frames on the way, which bounds them. In the last three the sender stands where the receiver will
stand (`Abreast`): same payload, offset, sequence number. A frame that is queued extends the foreseen states (`ForeseenAppend`), one that is taken
shortens them (`ForeseenTail`); there is one lemma for each of the two ways a line is used by each kind of frame (`AgreeSingle` ...
`AgreeAnswered`), and one for each handler that applies them. `RxStrayConsecutiveFrame`, `RxWrongSequence`, `RxLateFlowControl`
and `ConsecutiveFrameTimeout` turn out to be impossible here.

Its second half proves, with every disturbance but the loss of frames (timers that fire at any moment, injected flow control and
bad frames, manual flow control, full queues, `Close` at either end):

* `SessionsAreAChannel`: `Lossless` and `Apart` imply `Spec => ImplementsChannel`. Two sessions are a `PayloadChannel`:
  payloads come out whole, in the order they were handed to `SendContext`, each at most once, none after an error about it,
  and none is overtaken by a later one without an error, unless the receiving end is being closed.

`Apart` says that a session's peer is another session. `Lossless` cannot be dropped, for the reasons given above for
`IntactDelivery`; `session_lossy` checks the refinement, with single frames `Silent`, where one frame is lost.

The invariant `Ordered` speaks of a payload by its place in the history of those accepted, `Pos`. For each of the two streams
(`Order`, `InStep`) it says that the queue of `SendContext` holds the payloads not begun yet (`Follows`); that the first frames
under way are those of begun payloads, in order, each behind all frames of earlier ones (`InOrder`); that the transmit machine works on the last payload begun,
which is not delivered and whose last frame has yet to come (`Latest`); that the receive machine is inside one after all delivered and
before all that begin in the frames under way (`Midway`); that a payload some error was about has no last frame under way behind its beginning
and is in no sender's hand (`Doomed`); and that every begun payload has an outcome, or is the one the receiver is inside of, or begins in a frame
under way, unless its end has started to close (`Accounted`, `Unreached`). A step changes a queue at one end and one machine, so there is one lemma for each such
change of a stream (`...InStep`), and one for each handler that lifts it to both streams (`...Ordered`). From `Ordered` follows what the
abstract steps ask for: a payload that is delivered or reported is pending (`Awaited`), and what a delivery overtakes has been
reported before, or is reported by this step because it is what the receiver was inside of (`NoneOvertaken`).

`UdsClientProofs` proves, for any number of calls, services, retries and queue sizes:

* `TypeCorrect`: `Spec => []TypeOK`.
* `AnswersAreFresh`: `Spec => []FreshAnswer`.
* `RetriesAreJustified`: `Spec => []RetriesJustified`.
* `AddressOfTheCall`: `Spec => []AddressInForce`.

The inductive invariant has four parts. `ClientGood` is the mutual exclusion: `reqMu` names
the call that is between `Begin` and `Return`, so nobody else changes the address or reads
the queue meanwhile. `QueueGood` says that whatever is queued while a call sends or
waits arrived in its present attempt, because the attempt began by draining the queue.
`CountsGood` is what makes retries justified without counting the queue's contents: a call's attempts never exceed
the busy answers given for its service, and if one is in the queue while the call reads,
they are fewer, because it arrived after the drain. `EnvGood` types the rest. A call's
step is either a move (`Advances`) or a return (`Ends`); each action has a lemma that
applies one of the two. Only `ReqAssumption` and `LimitAssumption` are used.

`DriverProofs` proves, for any number of goroutines, subscriptions and frames, any capacity of the
queues, and both kinds of bus:

* `TypeCorrect`, `NeverPanics`, `VendorCallsAreSafe`, `OpenWorks`, `ClosedIsClean`, `GapsAreCounted`,
  `FramesKeepBRS`: `Spec => []` of `TypeOK`, `NoPanic`, `VendorCallsWhileOpen`, `OpenIsUsable`,
  `ClosedIsReleased`, `NoSilentGap` and `FrameKeepsBRS`, which are all safety properties of the run `driver`.

The inductive invariant has two halves. `Control` says who holds which lock at which point of
a call (`Locks`), and what that protects: hardware and fan-out exist only in an initialized device or until
the stop that holds `opMu` ends, and the read loop is the only one (`Device`); somebody is
answerable for an initialized device (`Owned`); the open subscriber channels are those subscribed and those
that the one who closed the fan-out has yet to close, which is why no channel is closed twice
(`Channels`); until an `Open` overtakes a `Close`, an open bus, and an `Open` about to start it, have a working device
(`Usable`); between `setBRS` and `write` nobody else has set BRS (`OwnBRS`). `History` is about frames: those in
`rxChan` are in order between the last one dispatched and the last one read (`Order`), so that what
is neither there nor with a subscriber can be counted (`Counted`): a frame that is dropped adds one to what
a subscriber lacks and one to the counters, and a dispatch hands the oldest one to everybody. Each
action has a lemma, and `Kept` says once for all which variables a part depends on.
Only `ProcAssumption` and `BoundAssumption` are used.

`MemoryBusProofs` proves, for any number of endpoints, goroutines and subscribers, any capacity and any
number of calls:

* `TypeCorrect`, `NeverPanics`, `EchoesConfirm`, `LossesAreCounted`: `Spec => []` of `TypeOK`, `NoPanic`,
  `EchoConfirms` and `NoSilentLoss`.

The heart of the invariant is `Dispatches`: a dispatch holds its endpoint's read lock, so every channel
it has yet to visit stays subscribed, hence open. `Subscribing` keeps channels in the making
apart, `Echoes` follows a frame from its delivery to the echo, and `Counted` compares the frames that were
offered to a channel and are missing there with the endpoint's counter, a dispatch that is still under way included.
Only `PeerAssumption` and `BoundAssumption` are used.

`IsoTpCodecProofs` proves, for any sets of sizes, padding bytes and flow control values:

* `FramesArrive`: `LongestFits` implies `Spec => []RoundTrip`.
* `PaddingMeetsDLC`: `Spec => []FillAgrees`.
* `NoFrameIsRefused`: `Spec => []NeverRefused`.

The invariant `CInv` only says that the frame at each stage is what the stages before make of the input; the
work is in the lemmas about these operators. `DLCRounds` and `TargetRounds` show that the DLC table and
the session's own table both round to the least length that is long enough; `EncodedShape` bounds header and data,
`SentShape` says what padding and DLC add, and `ParsedSingle`, `ParsedFirst`,
`ParsedConsecutive` and `ParsedFlowControl` read the header back, `FourBytes` the 32-bit length. `LongestFits` asks
that message sizes are below 2^32: `createFirstFramePayload` cuts the length off to 32 bits
(`uint32(totalMessageSize)`), and nothing in the code refuses a longer payload.

`AutoDeviceProofs` proves, for any goroutines, buses, devices and list of candidates:

* `TypeCorrect`, `SessionIsExclusive`, `NothingIsLeaked`, `OpenDevices`: `Spec => []` of `TypeOK`,
  `SessionExclusive`, `NothingLeaks` and `OpenHasDevice`, all properties of the run `auto`.

The invariant `IInv` says who holds which of the four locks at which point of a call (`Locks`), which device is
whose (`Ownership`: a device in the hands of a goroutine is not selected by another bus, and no two
goroutines probe the same candidate), and what a device holds (`Holdings`: one at rest has nothing or all that its
`initialize` takes; one in `initialize` has what the stages behind it took, and what is left to do
leads to all of it; one in its cleanup or stop has no more than what is left to undo). That the adapter is let go of
before the session is `PortFirst` of every list of stages, proved for all five backends. `Answered` says
who will stop an initialized device, and `Usable` what an open bus rests on. First each action is
reduced to what it changes, pointwise; the parts of the invariant are then proved from that.

`BusLoadProofs` proves of the meter, for any window, limits, adapter clock, occupancies and number of frames:

* `TypeCorrect` and `SlotsHold`: `Spec => []` of `TypeOK` and `SlotsConsistent`, properties of the run `busload`.
* `MeterOrderly`: the invariant both follow from.

`SlotsConsistent` is not inductive: a slot with one frame could be left with time but no frame, or the reverse,
if what is taken out were not what was put in. `Books` adds that: for each slot of the host's window there is
a sum over the pending transmissions, of those not confirmed and counted in this slot, and slot and sum differ by a rest
that is empty or is not (`Column`). A transmission that is confirmed, expires or is pushed out of the full list becomes part of the
rest; one that is moved leaves its slot and the sum (`BooksRetire`); when the window moves, whole columns move with it or
are given up with their transmissions (`BooksRotate`). This needs that pending transmissions lie inside the window (`Within`)
and in order of time (`InTime`), which rests on `opMu`: only one goroutine records at a time, so nothing is pending that is later than the
time it took before the meter's mutex (`Writing`). What is lost on an edge is marked by `slip`, as for `CountedOnce`.
`expirePending` is a recursive function, and `FreshEnd` says that of a list in order of time it drops a beginning;
it is proved by the least number for which it would fail (`FromZero`), as are the sums.

And of the log's clock:

* `LogKeepsTime`: `Spec => [](NoLongSilence => LogElapsed)`, where `NoLongSilence` says that no two
  frames in a row are a period of the adapter's clock apart: of a longer silence the adapter tells nothing.
* `LogIsExact`: `Wrap = 0 \/ MaxTime <= Wrap` implies `Spec => []LogElapsed`, which covers the run `busload`.

The invariant `LInv` says that the queue is a suffix of the bus's history, in order of time, and that the clock
stands at the last frame taken. `WrapStep` is the arithmetic: two readings less than a period apart
tell the time between them.

Of the properties of passing runs these are only model-checked: `BusLoad`'s `CountedOnce`, which compares a sum over
both windows with the history of the bus and would need a matching of every counted frame with one of them;
and the liveness properties `SenderReturns`, `EventuallyDelivered`, `ResolvesPayloads` and the three `CallsReturn`, since they rest
on fairness, which TLAPS does not handle here.

## Plan

In this order:

1. What `BusLoad` leaves out: the bit count of a frame with its stuff bits against a reference
   definition, the load fraction, and a reopened meter; a proof of `CountedOnce`.
2. Session lifecycle over a driver that closes: a subscriber channel closed under the session.
3. `write`, the read loops and receive callbacks of the other backends, where they differ from PCAN.

## Not modelled

The DLLs' loading and the registry, bit timing tables, conversion of vendor frame
structures, vendor headers, the public one-line constructors, negative response texts, log
formatting and `tools/create_busload_report.mjs`: pure I/O, arithmetic on configuration
or text, or declarations without behaviour. Of the Vector, TSMaster, Toomoss and Canalyst-II backends `AutoDevice` has
`initialize`, its cleanup and `stop`; sending, receiving and the conversion of frames are in the plan. One hazard
has no property: a read loop that is kept by bus warnings (pcan.go:496) is excluded by the fairness above.

-------------------------------- MODULE BusLoad --------------------------------
(***************************************************************************)
(* The bus load meter of a driver (busload.go) and the clock of its log    *)
(* (timestamp.go): a rolling window of slots for frames timed by the host, *)
(* and one for frames timed by the adapter.  A transmission is counted by  *)
(* the host when the vendor call returns, and moved to the time the        *)
(* adapter stamped when its echo is seen, before or after.                 *)
(*                                                                         *)
(* Two goroutines use the meter: the one in Send (under opMu) and the read *)
(* loop.  Each takes the time before it takes the meter's mutex, so their  *)
(* times may enter in the wrong order.                                     *)
(***************************************************************************)
EXTENDS Integers, Sequences, FiniteSets, SequencesExt

CONSTANTS
  Key,              \* frames, as busFrameKey tells them apart
  Occupied,         \* time a frame takes on the bus, by frameOccupancy
  Measured,         \* the same by the bit count the adapter reports
  Slots, SlotLen,   \* the rolling window
  PendingTTL, EchoTTL,
  MaxPending,
  Wrap, Offset,     \* the adapter's clock: period (0: none) and its lead at time 0
  Stamping,         \* does the adapter stamp frames? {TRUE, FALSE} for either
  MaxDelay,         \* bound: time between a frame on the bus, or a call, and its handling
  MaxTx, MaxRx, MaxTime

Window == Slots * SlotLen

ASSUME WindowAssumption ==
  /\ {Slots, SlotLen, MaxPending, MaxTime} \subseteq Nat \ {0}
  /\ {PendingTTL, EchoTTL, Wrap, Offset, MaxDelay, MaxTx, MaxRx} \subseteq Nat
ASSUME FrameAssumption ==
  Occupied \in [Key -> Nat \ {0}] /\ Measured \in [Key -> Nat \ {0}]
  /\ Stamping \subseteq BOOLEAN

VARIABLES
  stamped,  \* whether the adapter stamps frames
  now,      \* the host's clock
  meter,    \* busLoadMeter
  logClock, \* relativeLogClock
  writer,   \* the goroutine in Send: idle, in the vendor call, at the meter's mutex
  reader,   \* the read loop: idle, at the meter's mutex
  queue,    \* frames and echoes the adapter holds for the read loop
  bus       \* history: the frames on the bus, in order

vars == <<stamped, now, meter, logClock, writer, reader, queue, bus>>

-----------------------------------------------------------------------------
\* A rolling window: slots that begin at origin, 0 when not in use yet.

Index == 0..(Slots - 1)
Empty == [i \in Index |-> [occupied |-> 0, frames |-> 0]]
Unused == [origin |-> 0, slots |-> Empty]

CeilDiv(a, b) == (a + b - 1) \div b

\* The window reaches up to t: what no longer fits is forgotten.
Rotated(w, t) ==
  LET shift == CeilDiv(t - w.origin - Window, SlotLen) IN
  IF w.origin = 0 THEN [w EXCEPT !.origin = t]
  ELSE IF t - w.origin <= Window THEN w
  ELSE IF shift >= Slots THEN [origin |-> t, slots |-> Empty]
  ELSE [origin |-> w.origin + shift * SlotLen,
        slots  |-> [i \in Index |-> IF i + shift < Slots THEN w.slots[i + shift]
                                    ELSE Empty[i]]]

\* The slot of time t; integer division rounds towards zero.
Place(w, t) ==
  LET i == IF t < w.origin THEN 0 ELSE (t - w.origin) \div SlotLen
  IN IF i < Slots THEN i ELSE Slots - 1

Added(w, t, occ) ==
  [w EXCEPT !.slots[Place(w, t)] = [occupied |-> @.occupied + occ, frames |-> @.frames + 1]]

Frames(w) == FoldFunction(LAMBDA s, n : s.frames + n, 0, w.slots)

-----------------------------------------------------------------------------
\* The meter, as functions from one of its states to the next.

HostRotated(m, t) ==
  [m EXCEPT !.host = Rotated(@, t), !.started = @ \/ m.host.origin = 0]

\* History: the meter is about to misplace a frame.
Slip(m) == [m EXCEPT !.slip = TRUE]

\* A frame is counted at host time t: in the first slot when less than a slot before
\* the window, not at all when earlier.
AddHost(m, t, occ) ==
  LET h == HostRotated(m, t)
      edge == t < h.host.origin \/ t - h.host.origin >= Window
      timed == IF edge THEN Slip(h) ELSE h
  IN IF h.host.origin - t >= SlotLen THEN timed
     ELSE [timed EXCEPT !.host = Added(@, t, occ)]

\* Mutant: a transmission is taken out though its slot has been given up.
RemoveHostForgotten(m, p) ==
  LET h == HostRotated(m, p.at)
  IN [h EXCEPT !.host.slots[Place(h.host, p.at)] = [occupied |-> @.occupied - p.occ,
                                                    frames   |-> @.frames - 1]]

\* Mutant: the count is taken out of the slot, the time only when there is enough of it.
RemoveHostCount(m, p) ==
  LET h == HostRotated(m, p.at)
      i == Place(h.host, p.at)
  IN IF p.at < h.host.origin \/ h.host.slots[i].frames = 0 THEN h
     ELSE [h EXCEPT !.host.slots[i].frames = @ - 1]

\* A pending transmission is taken out of the slot its time falls into now.
RemoveHost(m, p) ==
  LET h == HostRotated(m, p.at)
      i == Place(h.host, p.at)
      slot == h.host.slots[i]
  IN IF p.at < h.host.origin \/ slot.frames = 0 \/ slot.occupied < p.occ THEN h
     ELSE [h EXCEPT !.host.slots[i] = [occupied |-> @.occupied - p.occ,
                                       frames   |-> @.frames - 1]]

\* The adapter's clock, unwrapped: at host time t, by the last stamp seen ...
HardwareNow(dev, t) == dev.last + (IF t > dev.lastHost THEN t - dev.lastHost ELSE 0)

\* Mutant: a wrap of the adapter's clock is not noticed.
WrappedNever(dev, raw) == FALSE

\* ... and when it shows raw: it has wrapped, the stamp is an earlier one, or it restarted.
Wrapped(dev, raw) == Wrap > 0 /\ dev.lastRaw - raw > Wrap \div 2 /\ dev.lastRaw < Wrap
Earlier(dev, raw) ==
  /\ dev.known /\ raw < dev.lastRaw /\ ~Wrapped(dev, raw)
  /\ dev.lastRaw - raw <= Window /\ dev.lastRaw - raw <= dev.last
Restarted(dev, raw) ==
  dev.known /\ raw < dev.lastRaw /\ ~Wrapped(dev, raw) /\ ~Earlier(dev, raw)

StampTime(dev, raw) ==
  IF ~dev.known \/ Restarted(dev, raw) THEN raw
  ELSE IF raw < dev.lastRaw /\ Wrapped(dev, raw) THEN dev.last + Wrap - dev.lastRaw + raw
  ELSE dev.last + raw - dev.lastRaw

\* A frame is counted when the adapter stamped it, unless older than all that are counted.
AddHardware(m, raw, t, occ) ==
  LET aged  == IF m.dev.known THEN [m EXCEPT !.hard = Rotated(@, HardwareNow(m.dev, t))] ELSE m
      at    == StampTime(m.dev, raw)
      clock == IF Earlier(m.dev, raw) THEN m.dev
               ELSE [known |-> TRUE, lastRaw |-> raw, last |-> at, lastHost |-> t]
      kept  == IF Restarted(m.dev, raw) THEN Unused ELSE aged.hard
      hard  == Rotated(kept, at)
      jump  == m.dev.known /\ Wrap > 0 /\ raw - m.dev.lastRaw > Wrap \div 2
      timed == [aged EXCEPT !.dev = clock, !.hard = hard, !.slip = @ \/ jump]
  IN IF at >= hard.origin
     THEN [timed EXCEPT !.hard = Added(@, at, occ), !.started = TRUE]
     ELSE IF Frames(hard) # 0 THEN Slip(timed)
     ELSE [timed EXCEPT !.hard = Added([@ EXCEPT !.origin = at], at, occ), !.started = TRUE]

\* A transmission is moved to the time its echo is stamped with.
Relocate(m, p, raw, t, occ) ==
  IF raw = 0 THEN m ELSE AddHardware(RemoveHost(m, p), raw, t, occ)

\* What is not older than ttl, in its order.
Fresh(seq, ttl, t) ==
  LET kept[i \in 0..Len(seq)] ==
        IF i = 0 THEN <<>>
        ELSE IF t - seq[i].at <= ttl THEN Append(kept[i - 1], seq[i])
        ELSE kept[i - 1]
  IN kept[Len(seq)]

\* expirePending, expireEarlyTx
Expired(m, t) ==
  [m EXCEPT !.pending = Fresh(@, EchoTTL, t), !.earlyTx = Fresh(@, PendingTTL, t)]

Push(seq, p) == Append(IF Len(seq) >= MaxPending THEN Tail(seq) ELSE seq, p)

\* recordTx: the vendor took the frame; its echo may have been seen already.
RecordTx(m, k, t) ==
  LET p == [key |-> k, at |-> t, occ |-> Occupied[k], confirmed |-> FALSE]
      n == Expired(AddHost(m, t, Occupied[k]), t)
      i == SelectInSeq(n.earlyTx, LAMBDA e : e.key = k)
      pushed == [n EXCEPT !.pending = Push(@, p), !.slip = @ \/ Len(n.pending) = MaxPending]
      paired == [pushed EXCEPT !.earlyTx = RemoveAt(@, i),
                               !.pending[Len(pushed.pending)].confirmed = TRUE]
      e == n.earlyTx[i]
  IN IF i = 0 THEN pushed ELSE Relocate(paired, p, e.raw, e.at, e.occ)

\* Mutant: an echo confirms a transmission that has been confirmed.
ObserveEchoAgain(m, k, raw, t) ==
  LET n == Expired(m, t)
      i == SelectInSeq(n.pending, LAMBDA p : p.key = k)
      e == [key |-> k, raw |-> raw, at |-> t, occ |-> Measured[k]]
  IN IF i # 0
     THEN Relocate([n EXCEPT !.pending[i].confirmed = TRUE], n.pending[i], raw, t, Measured[k])
     ELSE IF raw # 0 THEN [n EXCEPT !.earlyTx = Push(@, e)]
     ELSE n

\* An echo confirms the oldest transmission that waits for it, or is early.
ObserveEcho(m, k, raw, t) ==
  LET n == Expired(m, t)
      i == SelectInSeq(n.pending, LAMBDA p : p.key = k /\ ~p.confirmed)
      e == [key |-> k, raw |-> raw, at |-> t, occ |-> Measured[k]]
  IN IF i # 0
     THEN Relocate([n EXCEPT !.pending[i].confirmed = TRUE], n.pending[i], raw, t, Measured[k])
     ELSE IF raw # 0 THEN [n EXCEPT !.earlyTx = Push(@, e)]
     ELSE n

\* A frame received shortly after a transmission it looks like is taken for its echo.
ObserveRx(m, k, raw, t) ==
  LET n == Expired(m, t)
      i == SelectInSeq(n.pending, LAMBDA p : p.key = k /\ t - p.at <= PendingTTL)
      p == n.pending[i]
      matched == [n EXCEPT !.pending = RemoveAt(@, i)]
  IN IF i # 0
     THEN IF p.confirmed THEN matched ELSE Relocate(matched, p, raw, t, Measured[k])
     ELSE IF raw # 0 THEN AddHardware(n, raw, t, Measured[k])
     ELSE AddHost(n, t, Measured[k])

\* snapshot: both windows age.
Aged(m, t) ==
  LET h == HostRotated(m, t)
  IN Expired(IF m.dev.known THEN [h EXCEPT !.hard = Rotated(@, HardwareNow(m.dev, t))] ELSE h, t)

FrameCount(m) == IF m.started THEN Frames(m.host) + Frames(m.hard) ELSE 0

-----------------------------------------------------------------------------
Idle == [pc |-> "idle"]

\* configure, and a log clock that has seen nothing.
Init ==
  /\ stamped \in Stamping
  /\ now = 1
  /\ meter = [host |-> Unused, hard |-> Unused, started |-> FALSE,
              dev |-> [known |-> FALSE, lastRaw |-> 0, last |-> 0, lastHost |-> 0],
              pending |-> <<>>, earlyTx |-> <<>>, slip |-> FALSE]
  /\ logClock = [known |-> FALSE, previous |-> 0, elapsed |-> 0]
  /\ writer = Idle /\ reader = Idle
  /\ queue = <<>> /\ bus = <<>>

\* What the adapter's clock shows; frames without a stamp carry 0.
Raw(t) == IF ~stamped THEN 0 ELSE IF Wrap = 0 THEN t + Offset ELSE (t + Offset) % Wrap

Of(dir) == SelectSeq(bus, LAMBDA f : f.dir = dir)

\* A frame is on the bus, and the adapter has it or its echo for the read loop.
OnBus(dir, k) ==
  LET f == [dir |-> dir, key |-> k, t |-> now] IN
  bus' = Append(bus, f) /\ queue' = Append(queue, f)

\* Nothing waits longer than MaxDelay.
Tick ==
  /\ now < MaxTime
  /\ \A i \in DOMAIN queue : now - queue[i].t < MaxDelay
  /\ writer.pc # "idle" => now - writer.t < MaxDelay
  /\ reader.pc # "idle" => now - reader.at < MaxDelay
  /\ now' = now + 1
  /\ UNCHANGED <<stamped, meter, logClock, writer, reader, queue, bus>>

\* Another node sends.
Receive(k) ==
  /\ Len(Of("rx")) < MaxRx
  /\ OnBus("rx", k)
  /\ UNCHANGED <<stamped, now, meter, logClock, writer, reader>>

\* The vendor's write call: the frame leaves and its echo comes back.
Write(k) ==
  /\ writer.pc = "idle" /\ Len(Of("tx")) < MaxTx
  /\ OnBus("tx", k)
  /\ writer' = [pc |-> "written", key |-> k, t |-> now]
  /\ UNCHANGED <<stamped, now, meter, logClock, reader>>

\* recordBusTx takes the time ...
WriteReturns ==
  /\ writer.pc = "written"
  /\ writer' = [pc |-> "record", key |-> writer.key, t |-> writer.t, at |-> now]
  /\ UNCHANGED <<stamped, now, meter, logClock, reader, queue, bus>>

\* ... and then the mutex.
Record ==
  /\ writer.pc = "record"
  /\ meter' = RecordTx(meter, writer.key, writer.at)
  /\ writer' = Idle
  /\ UNCHANGED <<stamped, now, logClock, reader, queue, bus>>

\* Mutant: the log clock takes every step back for a restart.
LogObservedNoWrap(c, raw) ==
  IF ~c.known THEN [known |-> TRUE, previous |-> raw, elapsed |-> 0]
  ELSE [c EXCEPT !.previous = raw,
                 !.elapsed = @ + (IF raw >= c.previous THEN raw - c.previous ELSE 0)]

LogObserved(c, raw) ==
  IF ~c.known THEN [known |-> TRUE, previous |-> raw, elapsed |-> 0]
  ELSE [c EXCEPT !.previous = raw,
                 !.elapsed = @ + (IF raw >= c.previous THEN raw - c.previous
                                  ELSE IF Wrap > c.previous THEN Wrap - c.previous + raw
                                  ELSE 0)]

\* The read loop takes a frame, logs it and takes the time.
Read ==
  /\ reader.pc = "idle" /\ queue # <<>>
  /\ reader' = [pc |-> "observe", frame |-> Head(queue), at |-> now]
  /\ queue' = Tail(queue)
  /\ logClock' = LogObserved(logClock, Raw(Head(queue).t))
  /\ UNCHANGED <<stamped, now, meter, writer, bus>>

Observed(f, t) ==
  IF f.dir = "tx" THEN ObserveEcho(meter, f.key, Raw(f.t), t)
  ELSE ObserveRx(meter, f.key, Raw(f.t), t)

\* observeWithBitCount; a frame stamped 0 counts as one without a stamp.
Observe ==
  LET f == reader.frame IN
  /\ reader.pc = "observe"
  /\ meter' = IF stamped /\ Raw(f.t) = 0 THEN Slip(Observed(f, reader.at))
              ELSE Observed(f, reader.at)
  /\ reader' = Idle
  /\ UNCHANGED <<stamped, now, logClock, writer, queue, bus>>

\* BusLoad; its time and its lock are one step.
Snapshot ==
  /\ meter' = Aged(meter, now)
  /\ UNCHANGED <<stamped, now, logClock, writer, reader, queue, bus>>

Next ==
  \/ Tick
  \/ \E k \in Key : Receive(k) \/ Write(k)
  \/ WriteReturns \/ Record \/ Read \/ Observe \/ Snapshot

Spec == Init /\ [][Next]_vars

-----------------------------------------------------------------------------
Slot == [occupied : Nat, frames : Nat]
WindowType == [origin : Nat, slots : [Index -> Slot]]

\* Types; no slot is counted below zero, no list outgrows maxPendingTx.
TypeOK ==
  /\ now \in 1..MaxTime
  /\ meter.host \in WindowType /\ meter.hard \in WindowType
  /\ meter.started \in BOOLEAN /\ meter.slip \in BOOLEAN
  /\ meter.dev \in [known : BOOLEAN, lastRaw : Nat, last : Nat, lastHost : Nat]
  /\ Len(meter.pending) <= MaxPending /\ Len(meter.earlyTx) <= MaxPending
  /\ logClock \in [known : BOOLEAN, previous : Nat, elapsed : Nat]

Quiet == writer.pc = "idle" /\ reader.pc = "idle" /\ queue = <<>>

Youngest(age) == SelectSeq(bus, LAMBDA f : now - f.t <= age)

\* Frames received and sent that look the same may be taken for each other.
Lookalike(f) == \E i \in DOMAIN bus : bus[i].key = f.key /\ bus[i].dir # f.dir

AtLeast == Len(SelectSeq(Youngest(Window - SlotLen), LAMBDA f : ~Lookalike(f)))
AtMost == Len(Youngest(Window + MaxDelay))

\* What a snapshot reports is what was on the bus in the last window: every frame that is
\* a slot younger than it is counted, none older (by more than its handling took), and
\* none twice, whether a transmission's echo is seen before the vendor call returns, after
\* it, late or never (recordTx, observeWithBitCount, snapshot); in all histories in which no
\* frame fell on an edge (slip): counted less than a slot before the window or exactly at
\* its end, stamped before all that are counted or with 0, seen before a wrap and matched
\* after it, or dropped by the full list of pending transmissions.
CountedOnce ==
  Quiet /\ ~meter.slip =>
    /\ AtLeast <= FrameCount(Aged(meter, now))
    /\ FrameCount(Aged(meter, now)) <= AtMost

\* A slot is occupied exactly when it has frames: moving a transmission never takes
\* the time of one frame and the count of another (removeHostLocked).
SlotsConsistent ==
  ~meter.slip => \A w \in {meter.host, meter.hard}, i \in Index :
                   w.slots[i].frames = 0 <=> w.slots[i].occupied = 0

\* The elapsed time in the log is the time on the bus since the first frame, across a wrap
\* of the adapter's clock (relativeLogClock.observe).
LogElapsed ==
  LET seen == Len(bus) - Len(queue) IN
  stamped /\ seen > 0 => logClock.elapsed = bus[seen].t - bus[1].t
=============================================================================

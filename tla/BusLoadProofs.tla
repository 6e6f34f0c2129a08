----------------------------- MODULE BusLoadProofs -----------------------------
(***************************************************************************)
(* Proofs about BusLoad, for any window, any periods and limits, any       *)
(* lengths of frames and any number of them.                               *)
(*                                                                         *)
(* The clock of the log keeps the time of the bus, for any period of the   *)
(* adapter's clock and any lead it has.                                    *)
(*                                                                         *)
(* The meter has its types, and a slot is occupied exactly when it has     *)
(* frames.  What keeps that true when a transmission is moved is that each *)
(* slot holds what the pending transmissions counted in it occupy, and a   *)
(* rest that is empty or is not (Books): the time taken out with a frame   *)
(* is the time that was put in with it.                                    *)
(***************************************************************************)
EXTENDS BusLoad, WellFoundedInduction, TLAPS

\* How much of the bus the read loop has taken.
Seen == Len(bus) - Len(queue)

Entry == [dir : {"rx", "tx"}, key : Key, t : Nat \ {0}]

\* The bus is a history in order of time, up to now.
History ==
  /\ now \in Nat \ {0} /\ stamped \in BOOLEAN
  /\ bus \in Seq(Entry)
  /\ \A i \in 1..Len(bus) : bus[i].t <= now
  /\ \A i, j \in 1..Len(bus) : i <= j => bus[i].t <= bus[j].t

\* The adapter holds the last frames of it, in their order.
Suffix ==
  /\ queue \in Seq(Entry) /\ Len(queue) <= Len(bus)
  /\ \A i \in 1..Len(queue) : queue[i] = bus[Seen + i]

\* Two frames in a row are less than a period of the adapter's clock apart: of a longer
\* silence the adapter tells the log nothing.
NoLongSilence ==
  Wrap # 0 => \A i \in 1..Len(bus) : i + 1 <= Len(bus) => bus[i + 1].t - bus[i].t < Wrap

\* The log's clock has seen the last frame taken, and has added up the times between.
Clock ==
  /\ logClock.known <=> Seen > 0
  /\ stamped /\ Seen > 0 => logClock.previous = Raw(bus[Seen].t)
  /\ stamped /\ Seen > 0 /\ NoLongSilence => logClock.elapsed = bus[Seen].t - bus[1].t

LInv == History /\ Suffix /\ Clock

-----------------------------------------------------------------------------
\* What the adapter's clock shows is below its period.
LEMMA RawInPeriod ==
  ASSUME NEW t \in Nat
  PROVE  /\ stamped /\ Wrap = 0 => Raw(t) = t + Offset
         /\ stamped /\ Wrap # 0 => Raw(t) \in 0..(Wrap - 1) /\ Raw(t) = (t + Offset) % Wrap
BY WindowAssumption DEF Raw

\* Two readings less than a period apart: the later is smaller exactly if it has wrapped.
LEMMA Divided ==
  ASSUME NEW w \in Nat \ {0}, NEW a \in Nat
  PROVE  \E q \in Nat, r \in 0..(w - 1) : a = w * q + r /\ a % w = r
<1> DEFINE q == a \div w
           r == a % w
<1>1. q \in Nat /\ r \in 0..(w - 1) /\ a = w * q + r
  OBVIOUS
<1> QED BY <1>1

\* What a clock of period w shows at time t.
Shown(w, t) == t % w

LEMMA WrapStep ==
  ASSUME NEW w \in Nat \ {0}, NEW a \in Nat, NEW b \in Nat, a <= b, b - a < w
  PROVE  b - a = IF Shown(w, b) >= Shown(w, a) THEN Shown(w, b) - Shown(w, a)
                 ELSE (w - Shown(w, a)) + Shown(w, b)
<1>0. PICK r, s : r = Shown(w, a) /\ s = Shown(w, b)
  OBVIOUS
<1> SUFFICES b - a = IF s >= r THEN s - r ELSE (w - r) + s
  BY <1>0
<1>1. PICK p \in Nat : a = w * p + r /\ r \in 0..(w - 1)
  BY <1>0, Divided DEF Shown
<1>2. PICK q \in Nat : b = w * q + s /\ s \in 0..(w - 1)
  BY <1>0, Divided DEF Shown
<1>3. q = p \/ q = p + 1
  <2>1. ~(q < p)
    <3> SUFFICES ASSUME q < p PROVE FALSE
      OBVIOUS
    <3>1. PICK c \in Nat : p = q + 1 + c
      <4>1. p - q - 1 \in Nat /\ p = q + 1 + (p - q - 1)
        OBVIOUS
      <4> QED BY <4>1
    <3>2. w * p = w * q + w + w * c /\ w * c \in Nat
      BY <3>1
    <3>3. a >= w * q + w
      BY <1>1, <3>2
    <3> QED BY <1>2, <3>3
  <2>2. ~(q > p + 1)
    <3> SUFFICES ASSUME q > p + 1 PROVE FALSE
      OBVIOUS
    <3>1. PICK c \in Nat : q = p + 2 + c
      <4>1. q - p - 2 \in Nat /\ q = p + 2 + (q - p - 2)
        OBVIOUS
      <4> QED BY <4>1
    <3>2. w * q = w * p + w + w + w * c /\ w * c \in Nat
      BY <3>1
    <3>3. b >= w * p + w + w
      BY <1>2, <3>2
    <3> QED BY <1>1, <3>3
  <2> QED BY <2>1, <2>2
<1>4. CASE q = p
  <2>1. b - a = s - r
    BY <1>1, <1>2, <1>4
  <2> QED BY <1>1, <1>2, <2>1
<1>5. CASE q = p + 1
  <2>1. w * q = w * p + w
    BY <1>5
  <2>2. b - a = (w - r) + s
    BY <1>1, <1>2, <2>1
  <2>3. s < r
    BY <1>1, <1>2, <2>2
  <2> QED BY <1>1, <1>2, <2>2, <2>3
<1> QED BY <1>3, <1>4, <1>5

\* The log's clock adds the time between two frames.
LEMMA ClockAdds ==
  ASSUME NEW c, c.known, NEW a \in Nat, NEW b \in Nat, a <= b, stamped,
         NEW e \in Nat, c.elapsed = e, c.previous = Raw(a), Wrap # 0 => b - a < Wrap
  PROVE  LogObserved(c, Raw(b)).elapsed = e + (b - a)
<1> USE WindowAssumption
<1> DEFINE x == Raw(a)
           y == Raw(b)
           d == IF y >= x THEN y - x ELSE IF Wrap > x THEN (Wrap - x) + y ELSE 0
<1>1. d = b - a
  <2>1. CASE Wrap = 0
    <3>1. x = a + Offset /\ y = b + Offset
      BY <2>1, RawInPeriod
    <3> QED BY <3>1
  <2>2. CASE Wrap # 0
    <3>1. /\ x \in 0..(Wrap - 1) /\ x = (a + Offset) % Wrap
          /\ y \in 0..(Wrap - 1) /\ y = (b + Offset) % Wrap
      BY <2>2, RawInPeriod
    <3> HIDE DEF x, y
    <3>2. PICK m, n : m = a + Offset /\ n = b + Offset
      OBVIOUS
    <3>3. m \in Nat /\ n \in Nat /\ m <= n /\ n - m = b - a /\ n - m < Wrap
      BY <2>2, <3>2
    <3>4. x = Shown(Wrap, m) /\ y = Shown(Wrap, n)
      BY <3>1, <3>2 DEF Shown
    <3>5. n - m = IF y >= x THEN y - x ELSE (Wrap - x) + y
      <4>1. Wrap \in Nat \ {0}
        BY <2>2
      <4> QED BY <3>3, <3>4, <4>1, WrapStep
    <3> QED BY <2>2, <3>1, <3>3, <3>5
  <2> QED BY <2>1, <2>2
<1>2. LogObserved(c, y).elapsed = c.elapsed + d
  BY DEF LogObserved
<1> HIDE DEF d
<1> QED BY <1>1, <1>2

-----------------------------------------------------------------------------
LEMMA LInvInit == Init => LInv
<1> SUFFICES ASSUME Init PROVE LInv
  OBVIOUS
<1>1. bus = <<>> /\ queue = <<>> /\ Len(bus) = 0 /\ Len(queue) = 0
  BY DEF Init
<1>2. Seen = 0 /\ ~logClock.known
  BY <1>1 DEF Init, Seen
<1>3. now \in Nat \ {0} /\ stamped \in BOOLEAN
  BY FrameAssumption DEF Init
<1>4. bus \in Seq(Entry) /\ queue \in Seq(Entry)
  BY <1>1
<1>5. History
  BY <1>1, <1>3, <1>4 DEF History
<1>6. Suffix
  BY <1>1, <1>4 DEF Suffix
<1>7. Clock
  BY <1>2 DEF Clock
<1> QED BY <1>5, <1>6, <1>7 DEF LInv

\* A frame joins the bus and the queue.
LEMMA OnBusStep ==
  ASSUME LInv, NEW dir \in {"rx", "tx"}, NEW k \in Key, OnBus(dir, k),
         UNCHANGED <<now, stamped, logClock>>
  PROVE  LInv'
<1> DEFINE f == [dir |-> dir, key |-> k, t |-> now]
<1>1. bus' = Append(bus, f) /\ queue' = Append(queue, f) /\ f \in Entry /\ f.t = now
  BY DEF OnBus, LInv, History, Entry
<1> HIDE DEF f
<1>2. bus \in Seq(Entry) /\ queue \in Seq(Entry) /\ Len(queue) <= Len(bus) /\ now \in Nat \ {0}
  BY DEF LInv, History, Suffix
<1>3. /\ bus' \in Seq(Entry) /\ Len(bus') = Len(bus) + 1
      /\ queue' \in Seq(Entry) /\ Len(queue') = Len(queue) + 1
      /\ \A i \in 1..Len(bus) : bus'[i] = bus[i]
      /\ \A i \in 1..Len(queue) : queue'[i] = queue[i]
      /\ bus'[Len(bus) + 1] = f /\ queue'[Len(queue) + 1] = f
  BY <1>1, <1>2
<1>4. Len(bus) \in Nat /\ Len(queue) \in Nat /\ Seen' = Seen /\ Seen \in 0..Len(bus)
  BY <1>2, <1>3 DEF Seen
<1>5. History'
  <2>1. ASSUME NEW i \in 1..Len(bus') PROVE bus'[i].t <= now /\ (i <= Len(bus) => bus'[i] = bus[i])
    <3>1. CASE i \in 1..Len(bus)
      BY <1>3, <3>1 DEF LInv, History
    <3>2. CASE i = Len(bus) + 1
      BY <1>1, <1>2, <1>3, <1>4, <3>2
    <3> QED BY <1>3, <1>4, <3>1, <3>2
  <2>2. ASSUME NEW i \in 1..Len(bus'), NEW j \in 1..Len(bus'), i <= j
        PROVE  bus'[i].t <= bus'[j].t
    <3>1. CASE j \in 1..Len(bus)
      <4>1. i \in 1..Len(bus)
        BY <2>2, <3>1
      <4> QED BY <1>3, <2>2, <3>1, <4>1 DEF LInv, History
    <3>2. CASE j = Len(bus) + 1
      BY <1>1, <1>3, <2>1, <3>2
    <3> QED BY <1>3, <1>4, <3>1, <3>2
  <2>3. now' = now /\ stamped' = stamped /\ stamped \in BOOLEAN
    BY DEF LInv, History
  <2> QED BY <1>2, <1>3, <2>1, <2>2, <2>3 DEF History
<1>6. Suffix'
  <2>1. ASSUME NEW i \in 1..Len(queue') PROVE queue'[i] = bus'[Seen + i]
    <3>1. CASE i \in 1..Len(queue)
      <4>1. Seen + i \in 1..Len(bus)
        BY <1>2, <1>4, <3>1 DEF Seen
      <4>2. queue[i] = bus[Seen + i]
        BY <3>1 DEF LInv, Suffix
      <4> QED BY <1>3, <3>1, <4>1, <4>2
    <3>2. CASE i = Len(queue) + 1
      <4>1. Seen + i = Len(bus) + 1
        BY <1>4, <3>2 DEF Seen
      <4> QED BY <1>3, <3>2, <4>1
    <3> QED BY <1>3, <1>4, <3>1, <3>2
  <2>2. Len(queue') <= Len(bus')
    BY <1>2, <1>3, <1>4
  <2> QED BY <1>3, <1>4, <2>1, <2>2 DEF Suffix
<1>7. NoLongSilence' => NoLongSilence
  <2> SUFFICES ASSUME NoLongSilence', Wrap # 0, NEW i \in 1..Len(bus), i + 1 <= Len(bus)
               PROVE  bus[i + 1].t - bus[i].t < Wrap
    BY DEF NoLongSilence
  <2>1. i \in 1..Len(bus') /\ i + 1 <= Len(bus') /\ i + 1 \in 1..Len(bus)
    BY <1>3, <1>4
  <2>2. bus'[i + 1].t - bus'[i].t < Wrap
    BY <2>1 DEF NoLongSilence
  <2> QED BY <1>3, <2>1, <2>2
<1>8. Clock'
  <2>1. Seen > 0 => bus'[Seen] = bus[Seen] /\ bus'[1] = bus[1]
    BY <1>3, <1>4
  <2>2. \A t : Raw(t)' = Raw(t)
    BY DEF Raw
  <2>3. logClock' = logClock /\ stamped' = stamped
    OBVIOUS
  <2>4. logClock'.known <=> Seen' > 0
    BY <1>4, <2>3 DEF LInv, Clock
  <2>5. stamped' /\ Seen' > 0 => logClock'.previous = Raw(bus[Seen].t)'
    BY <1>4, <2>1, <2>3 DEF LInv, Clock, Raw
  <2>6. stamped' /\ Seen' > 0 /\ NoLongSilence' => logClock'.elapsed = bus'[Seen'].t - bus'[1].t
    BY <1>4, <1>7, <2>1, <2>3 DEF LInv, Clock
  <2> QED BY <1>4, <2>1, <2>4, <2>5, <2>6 DEF Clock, Raw
<1> QED BY <1>5, <1>6, <1>8 DEF LInv

\* The read loop takes the next frame and its log clock sees it.
LEMMA ReadStep ==
  ASSUME LInv, Read
  PROVE  LInv'
<1> DEFINE f == Head(queue)
<1>1. /\ queue # <<>> /\ queue' = Tail(queue) /\ logClock' = LogObserved(logClock, Raw(f.t))
      /\ UNCHANGED <<stamped, now, bus>>
  BY DEF Read
<1>2. bus \in Seq(Entry) /\ queue \in Seq(Entry) /\ Len(queue) <= Len(bus)
  BY DEF LInv, History, Suffix
<1>3. Len(bus) \in Nat /\ Len(queue) \in Nat /\ Len(queue) > 0 /\ Seen \in 0..(Len(bus) - 1)
  BY <1>1, <1>2 DEF Seen
<1>4. /\ queue' \in Seq(Entry) /\ Len(queue') = Len(queue) - 1
      /\ \A i \in 1..(Len(queue) - 1) : queue'[i] = queue[i + 1]
  BY <1>1, <1>2
<1>5. Seen' = Seen + 1 /\ bus' = bus
  BY <1>1, <1>3, <1>4 DEF Seen
<1>6. f = bus[Seen + 1] /\ f.t \in Nat
  <2>1. f = queue[1] /\ 1 \in 1..Len(queue)
    BY <1>1, <1>2, <1>3
  <2>2. queue[1] = bus[Seen + 1]
    BY <2>1 DEF LInv, Suffix
  <2>3. f \in Entry
    BY <1>2, <2>1
  <2> QED BY <2>1, <2>2, <2>3 DEF Entry
<1> HIDE DEF f
<1>7. History'
  BY <1>1 DEF LInv, History
<1>8. Suffix'
  <2>1. ASSUME NEW i \in 1..Len(queue') PROVE queue'[i] = bus'[Seen' + i]
    <3>1. i + 1 \in 1..Len(queue) /\ i \in 1..(Len(queue) - 1)
      BY <1>3, <1>4
    <3>2. queue[i + 1] = bus[Seen + (i + 1)]
      BY <3>1 DEF LInv, Suffix
    <3>3. Seen' + i = Seen + (i + 1)
      BY <1>3, <1>5
    <3> QED BY <1>4, <1>5, <3>1, <3>2, <3>3
  <2>2. Len(queue') <= Len(bus')
    BY <1>2, <1>3, <1>4, <1>5
  <2> QED BY <1>4, <2>1, <2>2 DEF Suffix
<1>9. NoLongSilence' => NoLongSilence
  BY <1>5 DEF NoLongSilence
<1>10. logClock'.known /\ logClock'.previous = Raw(f.t)
  BY <1>1 DEF LogObserved
<1>11. stamped /\ NoLongSilence => logClock'.elapsed = f.t - bus[1].t
  <2> SUFFICES ASSUME stamped, NoLongSilence PROVE logClock'.elapsed = f.t - bus[1].t
    OBVIOUS
  <2>1. CASE Seen = 0
    <3>1. logClock'.elapsed = 0
      BY <1>1, <2>1 DEF LInv, Clock, LogObserved
    <3>2. f = bus[1]
      BY <1>6, <2>1
    <3> QED BY <1>6, <3>1, <3>2
  <2>2. CASE Seen # 0
    <3>1. PICK a, b, z : a = bus[Seen].t /\ b = f.t /\ z = bus[1].t
      OBVIOUS
    <3>2. Seen \in 1..Len(bus) /\ Seen + 1 \in 1..Len(bus) /\ 1 \in 1..Len(bus)
      BY <1>3, <2>2
    <3>3. a \in Nat /\ b \in Nat /\ z \in Nat
      <4>1. bus[Seen] \in Entry /\ bus[1] \in Entry
        BY <1>2, <3>2
      <4> QED BY <1>6, <3>1, <4>1 DEF Entry
    <3>4. a <= b /\ z <= a
      BY <1>6, <3>1, <3>2 DEF LInv, History
    <3>5. Wrap # 0 => b - a < Wrap
      BY <1>6, <3>1, <3>2 DEF NoLongSilence
    <3>6. logClock.known /\ logClock.previous = Raw(a) /\ logClock.elapsed = a - z
      BY <1>3, <2>2, <3>1 DEF LInv, Clock
    <3>7. PICK e : e = a - z
      OBVIOUS
    <3>8. e \in Nat /\ logClock.elapsed = e
      BY <3>3, <3>4, <3>6, <3>7
    <3>9. LogObserved(logClock, Raw(b)).elapsed = e + (b - a)
      BY <3>3, <3>4, <3>5, <3>6, <3>8, ClockAdds
    <3>10. logClock'.elapsed = e + (b - a)
      BY <1>1, <3>1, <3>9
    <3> QED BY <3>1, <3>3, <3>7, <3>10
  <2> QED BY <2>1, <2>2
<1>12. Clock'
  <2>1. bus'[Seen'] = f /\ bus'[1] = bus[1] /\ Seen' > 0 /\ stamped' = stamped
    BY <1>1, <1>3, <1>5, <1>6
  <2>2. stamped' /\ Seen' > 0 => logClock'.previous = Raw(bus[Seen].t)'
    BY <1>10, <2>1 DEF Raw
  <2>3. logClock'.known <=> Seen' > 0
    BY <1>10, <2>1
  <2>4. stamped' /\ Seen' > 0 /\ NoLongSilence' => logClock'.elapsed = bus'[Seen'].t - bus'[1].t
    BY <1>9, <1>11, <2>1
  <2> QED BY <2>2, <2>3, <2>4 DEF Clock
<1> QED BY <1>7, <1>8, <1>12 DEF LInv

\* The other steps leave the bus, the queue and the log's clock alone.
LEMMA OtherStep ==
  ASSUME LInv, UNCHANGED <<stamped, logClock, queue, bus>>, now' = now \/ now' = now + 1
  PROVE  LInv'
<1>1. now \in Nat \ {0} /\ bus \in Seq(Entry)
  BY DEF LInv, History
<1>2. History'
  <2>1. ASSUME NEW i \in 1..Len(bus) PROVE bus[i].t <= now'
    <3>1. bus[i].t <= now
      BY DEF LInv, History
    <3>2. bus[i] \in Entry
      BY <1>1
    <3>3. bus[i].t \in Nat
      BY <3>2 DEF Entry
    <3> QED BY <1>1, <3>1, <3>3
  <2> QED BY <1>1, <2>1 DEF LInv, History
<1>3. Suffix' /\ Clock'
  BY DEF LInv, Suffix, Clock, Seen, NoLongSilence, Raw
<1> QED BY <1>2, <1>3 DEF LInv

LEMMA LInvStep == LInv /\ [Next]_vars => LInv'
<1> SUFFICES ASSUME LInv, [Next]_vars PROVE LInv'
  OBVIOUS
<1>1. CASE Tick
  BY <1>1, OtherStep DEF Tick
<1>2. ASSUME NEW k \in Key, Receive(k) PROVE LInv'
  BY <1>2, OnBusStep DEF Receive
<1>3. ASSUME NEW k \in Key, Write(k) PROVE LInv'
  BY <1>3, OnBusStep DEF Write
<1>4. CASE WriteReturns
  BY <1>4, OtherStep DEF WriteReturns
<1>5. CASE Record
  BY <1>5, OtherStep DEF Record
<1>6. CASE Read
  BY <1>6, ReadStep
<1>7. CASE Observe
  BY <1>7, OtherStep DEF Observe
<1>8. CASE Snapshot
  BY <1>8, OtherStep DEF Snapshot
<1>9. CASE UNCHANGED vars
  BY <1>9, OtherStep DEF vars
<1> QED BY <1>1, <1>2, <1>3, <1>4, <1>5, <1>6, <1>7, <1>8, <1>9 DEF Next

\* The read loop takes the frames of the bus in their order, and the log's clock has seen
\* the last of them (relativeLogClock.observe).
THEOREM LInvHolds == Spec => []LInv
BY LInvInit, LInvStep, PTL DEF Spec

\* The elapsed time the log shows is the time on the bus since its first frame, as long as
\* no two frames in a row are a period of the adapter's clock apart (relativeLogClock.observe).
THEOREM LogKeepsTime == Spec => [](NoLongSilence => LogElapsed)
<1>1. LInv => (NoLongSilence => LogElapsed)
  BY DEF LInv, Clock, LogElapsed, Seen
<1> QED BY <1>1, LInvHolds, PTL

\* So it is on every adapter whose clock does not wrap, or not while the log is written.
THEOREM LogIsExact == ASSUME Wrap = 0 \/ MaxTime <= Wrap PROVE Spec => []LogElapsed
<1> DEFINE TInv == now <= MaxTime \/ now = 1
<1>1. Init => TInv
  BY DEF Init
<1>2. TInv /\ LInv /\ [Next]_vars => TInv'
  <2> SUFFICES ASSUME TInv, LInv, [Next]_vars PROVE TInv'
    OBVIOUS
  <2>1. now \in Nat /\ MaxTime \in Nat
    BY WindowAssumption DEF LInv, History
  <2>2. now' = now \/ (now < MaxTime /\ now' = now + 1)
    BY DEF Next, Tick, Receive, Write, WriteReturns, Record, Read, Observe, Snapshot, vars
  <2> QED BY <2>1, <2>2
<1>3. TInv /\ LInv => LogElapsed
  <2> SUFFICES ASSUME TInv, LInv PROVE NoLongSilence
    BY DEF LInv, Clock, LogElapsed, Seen
  <2> SUFFICES ASSUME Wrap # 0, NEW i \in 1..Len(bus), i + 1 <= Len(bus)
               PROVE  bus[i + 1].t - bus[i].t < Wrap
    BY DEF NoLongSilence
  <2>1. Len(bus) \in Nat /\ i + 1 \in 1..Len(bus)
    BY DEF LInv, History
  <2>2. bus[i] \in Entry /\ bus[i + 1] \in Entry
    BY <2>1 DEF LInv, History
  <2>3. PICK a, b : a = bus[i].t /\ b = bus[i + 1].t
    OBVIOUS
  <2>4. a \in Nat \ {0} /\ b \in Nat \ {0}
    BY <2>2, <2>3 DEF Entry
  <2>5. b <= now /\ now \in Nat \ {0} /\ Wrap \in Nat /\ MaxTime \in Nat
    BY <2>1, <2>3, WindowAssumption DEF LInv, History
  <2>6. b - a < Wrap
    BY <2>4, <2>5
  <2> QED BY <2>3, <2>6
<1> HIDE DEF TInv
<1> QED BY <1>1, <1>2, <1>3, LInvHolds, PTL DEF Spec

-----------------------------------------------------------------------------
\* A set of natural numbers that is not empty has a least element ...
LEMMA Least ==
  ASSUME NEW T \in SUBSET Nat, T # {}
  PROVE  \E x \in T : \A y \in T : x <= y
<1> DEFINE R == {p \in Nat \X Nat : p[1] < p[2]}
<1>1. IsWellFoundedOn(R, Nat)
  <2>1. R = OpToRel(<, Nat)
    BY DEF OpToRel
  <2> QED BY <2>1, NatLessThanWellFounded
<1>2. \A x, y \in Nat : <<y, x>> \in R <=> y < x
  OBVIOUS
<1> HIDE DEF R
<1>3. PICK x \in T : \A y \in T : ~(<<y, x>> \in R)
  BY <1>1, WFMin
<1>4. \A y \in T : x <= y
  <2> SUFFICES ASSUME NEW y \in T PROVE x <= y
    OBVIOUS
  <2>1. x \in Nat /\ y \in Nat /\ ~(y < x)
    BY <1>2, <1>3
  <2> QED BY <2>1
<1> QED BY <1>4

\* ... hence a set with 0 that has n + 1 with every n has them all.
LEMMA FromZero ==
  ASSUME NEW S \in SUBSET Nat, 0 \in S, \A n \in Nat : n \in S => n + 1 \in S
  PROVE  S = Nat
<1> SUFFICES ASSUME Nat \ S # {} PROVE FALSE
  OBVIOUS
<1>1. PICK x \in Nat \ S : \A y \in Nat \ S : x <= y
  BY Least
<1>2. x # 0 /\ x - 1 \in Nat /\ (x - 1) + 1 = x
  BY <1>1
<1>3. x - 1 \in S
  BY <1>1, <1>2
<1> QED BY <1>1, <1>2, <1>3

-----------------------------------------------------------------------------
\* f is the loop of expirePending over s, up to its n-th round.
Loop(f, n, s, ttl, t) == f = [i \in 0..n |->
  IF i = 0 THEN <<>>
  ELSE IF t - s[i].at <= ttl THEN Append(f[i - 1], s[i])
  ELSE f[i - 1]]

LEMMA LoopStep ==
  ASSUME NEW s, NEW ttl, NEW t, NEW n \in Nat, NEW f, Loop(f, n, s, ttl, t)
  PROVE  \E g : Loop(g, n + 1, s, ttl, t)
<1> DEFINE more == IF t - s[n + 1].at <= ttl THEN Append(f[n], s[n + 1]) ELSE f[n]
           g == [i \in 0..(n + 1) |-> IF i <= n THEN f[i] ELSE more]
<1>1. \A i \in 0..n : f[i] = IF i = 0 THEN <<>>
                             ELSE IF t - s[i].at <= ttl THEN Append(f[i - 1], s[i])
                             ELSE f[i - 1]
  BY DEF Loop
<1>2. \A i \in 0..(n + 1) : g[i] = IF i <= n THEN f[i] ELSE more
  OBVIOUS
<1>3. DOMAIN g = 0..(n + 1) /\ g = [i \in 0..(n + 1) |-> g[i]]
  OBVIOUS
<1> HIDE DEF g
<1>4. ASSUME NEW i \in 0..(n + 1)
      PROVE  g[i] = IF i = 0 THEN <<>>
                    ELSE IF t - s[i].at <= ttl THEN Append(g[i - 1], s[i])
                    ELSE g[i - 1]
  <2>1. CASE i <= n
    <3>1. i \in 0..n /\ g[i] = f[i] /\ (i # 0 => g[i - 1] = f[i - 1])
      BY <1>2, <2>1
    <3> QED BY <1>1, <3>1
  <2>2. CASE i = n + 1
    <3>1. g[i] = more /\ i - 1 = n /\ g[n] = f[n] /\ i # 0
      BY <1>2, <2>2
    <3> QED BY <2>2, <3>1
  <2> QED BY <2>1, <2>2
<1>5. Loop(g, n + 1, s, ttl, t)
  BY <1>3, <1>4 DEF Loop
<1> QED BY <1>5

LEMMA LoopEnds ==
  ASSUME NEW s, NEW ttl, NEW t, NEW n \in Nat
  PROVE  \E f : Loop(f, n, s, ttl, t)
<1> DEFINE N == {k \in Nat : \E f : Loop(f, k, s, ttl, t)}
<1>1. 0 \in N
  <2> DEFINE f == [i \in 0..0 |-> <<>>]
  <2>1. Loop(f, 0, s, ttl, t)
    BY DEF Loop
  <2> QED BY <2>1
<1>2. \A k \in Nat : k \in N => k + 1 \in N
  BY LoopStep
<1>3. N \in SUBSET Nat
  OBVIOUS
<1> HIDE DEF N
<1>4. N = Nat
  BY <1>1, <1>2, <1>3, FromZero
<1> QED BY <1>4 DEF N

LEMMA FreshLoop ==
  ASSUME NEW S, NEW s \in Seq(S), NEW ttl, NEW t
  PROVE  \E f : Loop(f, Len(s), s, ttl, t) /\ Fresh(s, ttl, t) = f[Len(s)]
<1>0. Len(s) \in Nat
  OBVIOUS
<1>1. PICK g : Loop(g, Len(s), s, ttl, t)
  BY <1>0, LoopEnds
<1>2. Loop(CHOOSE f : Loop(f, Len(s), s, ttl, t), Len(s), s, ttl, t)
  BY <1>1
<1>3. Fresh(s, ttl, t) = (CHOOSE f : Loop(f, Len(s), s, ttl, t))[Len(s)]
  BY DEF Fresh, Loop
<1> QED BY <1>2, <1>3

LEMMA LoopBegins ==
  ASSUME NEW s, NEW ttl, NEW t, NEW n \in Nat, NEW f, Loop(f, n, s, ttl, t)
  PROVE  f[0] = <<>>
<1>1. 0 \in 0..n
  OBVIOUS
<1> QED BY <1>1 DEF Loop

LEMMA LoopAt ==
  ASSUME NEW s, NEW ttl, NEW t, NEW n \in Nat, NEW f, Loop(f, n, s, ttl, t), NEW i \in 0..(n - 1)
  PROVE  f[i + 1] = IF t - s[i + 1].at <= ttl THEN Append(f[i], s[i + 1]) ELSE f[i]
<1>1. i + 1 \in 0..n /\ i + 1 # 0 /\ (i + 1) - 1 = i
  OBVIOUS
<1>2. f[i + 1] = IF i + 1 = 0 THEN <<>>
                 ELSE IF t - s[i + 1].at <= ttl THEN Append(f[(i + 1) - 1], s[i + 1])
                 ELSE f[(i + 1) - 1]
  BY <1>1 DEF Loop
<1> QED BY <1>1, <1>2

LEMMA AppendShape ==
  ASSUME NEW S, NEW u \in Seq(S), NEW x \in S
  PROVE  /\ Append(u, x) \in Seq(S) /\ Len(Append(u, x)) = Len(u) + 1 /\ Len(u) \in Nat
         /\ Append(u, x)[Len(u) + 1] = x
         /\ \A i \in 1..Len(u) : Append(u, x)[i] = u[i]
OBVIOUS

\* What expirePending keeps is no longer than what there was, and of the same kind.
LEMMA FreshTyped ==
  ASSUME NEW S, NEW s \in Seq(S), NEW ttl, NEW t
  PROVE  Fresh(s, ttl, t) \in Seq(S) /\ Len(Fresh(s, ttl, t)) <= Len(s)
<1>0. Len(s) \in Nat /\ \A i \in 1..Len(s) : s[i] \in S
  OBVIOUS
<1>1. PICK f : Loop(f, Len(s), s, ttl, t) /\ Fresh(s, ttl, t) = f[Len(s)]
  BY FreshLoop
<1>2. f[0] = <<>>
  BY <1>0, <1>1, LoopBegins
<1> DEFINE Round(i) == IF t - s[i + 1].at <= ttl THEN Append(f[i], s[i + 1]) ELSE f[i]
<1>2a. ASSUME NEW i \in 0..(Len(s) - 1) PROVE f[i + 1] = Round(i)
  BY <1>0, <1>1, LoopAt
<1> DEFINE N == {n \in Nat : n <= Len(s) => f[n] \in Seq(S) /\ Len(f[n]) <= n}
<1>3. 0 \in N
  <2>1. f[0] \in Seq(S) /\ Len(f[0]) <= 0
    BY <1>2
  <2> QED BY <2>1
<1>4. ASSUME NEW n \in Nat, n \in N PROVE n + 1 \in N
  <2> SUFFICES ASSUME n + 1 <= Len(s) PROVE f[n + 1] \in Seq(S) /\ Len(f[n + 1]) <= n + 1
    OBVIOUS
  <2>1. f[n] \in Seq(S) /\ Len(f[n]) <= n /\ s[n + 1] \in S
    BY <1>0, <1>4
  <2>2. f[n + 1] = Append(f[n], s[n + 1]) \/ f[n + 1] = f[n]
    <3>1. n \in 0..(Len(s) - 1)
      BY <1>0
    <3>2. f[n + 1] = Round(n)
      BY <1>2a, <3>1
    <3> QED BY <3>2
  <2>3. Append(f[n], s[n + 1]) \in Seq(S) /\ Len(Append(f[n], s[n + 1])) = Len(f[n]) + 1
        /\ Len(f[n]) \in Nat
    BY <2>1, AppendShape
  <2>4. CASE f[n + 1] = Append(f[n], s[n + 1])
    <3>1. f[n + 1] \in Seq(S) /\ Len(f[n + 1]) = Len(f[n]) + 1
      BY <2>3, <2>4
    <3> QED BY <2>1, <2>3, <3>1
  <2>5. CASE f[n + 1] = f[n]
    BY <2>1, <2>3, <2>5
  <2> QED BY <2>2, <2>4, <2>5
<1>5. N \in SUBSET Nat
  OBVIOUS
<1> HIDE DEF N
<1>6. Len(s) \in N
  BY <1>0, <1>3, <1>4, <1>5, FromZero
<1> QED BY <1>0, <1>1, <1>6 DEF N

\* u is s up to n without its first k.
Dropped(u, s, n, k) == Len(u) = n - k /\ \A j \in 1..(n - k) : u[j] = s[k + j]

\* The times of s do not decrease.
InTime(s) == \A i, j \in 1..Len(s) : i <= j => s[i].at <= s[j].at

\* Of a list in order of time it keeps the end.
LEMMA FreshEnd ==
  ASSUME NEW S, NEW s \in Seq(S), \A x \in S : x.at \in Nat, InTime(s), NEW ttl \in Nat, NEW t \in Nat
  PROVE  \E k \in 0..Len(s) : Dropped(Fresh(s, ttl, t), s, Len(s), k)
<1>0. Len(s) \in Nat /\ \A i \in 1..Len(s) : s[i] \in S /\ s[i].at \in Nat
  OBVIOUS
<1>1. PICK f : Loop(f, Len(s), s, ttl, t) /\ Fresh(s, ttl, t) = f[Len(s)]
  BY FreshLoop
<1>2. f[0] = <<>>
  BY <1>0, <1>1, LoopBegins
<1> DEFINE Round(i) == IF t - s[i + 1].at <= ttl THEN Append(f[i], s[i + 1]) ELSE f[i]
<1>2a. ASSUME NEW i \in 0..(Len(s) - 1) PROVE f[i + 1] = Round(i)
  BY <1>0, <1>1, LoopAt
<1> DEFINE Has(n, k) == /\ f[n] \in Seq(S) /\ Dropped(f[n], s, n, k)
                        /\ \A j \in (k + 1)..n : t - s[j].at <= ttl
           N == {n \in Nat : n <= Len(s) => \E k \in 0..n : Has(n, k)}
<1>3. 0 \in N
  <2>1. Has(0, 0)
    BY <1>2 DEF Dropped
  <2> QED BY <2>1
<1>4. ASSUME NEW n \in Nat, n \in N PROVE n + 1 \in N
  <2> SUFFICES ASSUME n + 1 <= Len(s) PROVE \E k \in 0..(n + 1) : Has(n + 1, k)
    OBVIOUS
  <2>0. n <= Len(s) /\ n \in 0..(Len(s) - 1) /\ n + 1 \in 1..Len(s)
    BY <1>0
  <2>1. PICK k \in 0..n : Has(n, k)
    BY <1>4, <2>0
  <2>2. f[n] \in Seq(S) /\ Len(f[n]) = n - k /\ (\A j \in 1..(n - k) : f[n][j] = s[k + j])
        /\ \A j \in (k + 1)..n : t - s[j].at <= ttl
    BY <2>1 DEF Dropped
  <2>3. CASE t - s[n + 1].at <= ttl
    <3>0. f[n + 1] = Round(n)
      BY <1>2a, <2>0
    <3>1. f[n + 1] = Append(f[n], s[n + 1]) /\ s[n + 1] \in S
      BY <1>0, <2>0, <2>3, <3>0
    <3>1a. /\ f[n + 1] \in Seq(S) /\ Len(f[n + 1]) = Len(f[n]) + 1 /\ f[n + 1][Len(f[n]) + 1] = s[n + 1]
           /\ \A i \in 1..Len(f[n]) : f[n + 1][i] = f[n][i]
      <4>1. f[n] \in Seq(S)
        BY <2>2
      <4> DEFINE u == f[n]
                 x == s[n + 1]
                 v == f[n + 1]
      <4>2. u \in Seq(S) /\ x \in S /\ v = Append(u, x)
        BY <3>1, <4>1
      <4> HIDE DEF u, x, v
      <4>3. /\ v \in Seq(S) /\ Len(v) = Len(u) + 1 /\ v[Len(u) + 1] = x
            /\ \A i \in 1..Len(u) : v[i] = u[i]
        BY <4>2, AppendShape
      <4> QED BY <4>3 DEF u, x, v
    <3>2. f[n + 1] \in Seq(S) /\ Len(f[n + 1]) = n + 1 - k
          /\ \A j \in 1..(n + 1 - k) : f[n + 1][j] = s[k + j]
      <4>1. f[n + 1] \in Seq(S) /\ Len(f[n + 1]) = n + 1 - k
        BY <2>2, <3>1a
      <4>2. ASSUME NEW j \in 1..(n + 1 - k) PROVE f[n + 1][j] = s[k + j]
        <5>1. CASE j \in 1..(n - k)
          BY <2>2, <3>1a, <5>1
        <5>2. CASE j = n - k + 1
          <6>1. k + j = n + 1 /\ j = Len(f[n]) + 1
            BY <2>2, <5>2
          <6> QED BY <3>1a, <6>1
        <5> QED BY <5>1, <5>2
      <4> QED BY <4>1, <4>2
    <3>3. \A j \in (k + 1)..(n + 1) : t - s[j].at <= ttl
      <4> SUFFICES ASSUME NEW j \in (k + 1)..(n + 1) PROVE t - s[j].at <= ttl
        OBVIOUS
      <4>1. j = n + 1 \/ j \in (k + 1)..n
        OBVIOUS
      <4> QED BY <2>2, <2>3, <4>1
    <3> QED BY <3>2, <3>3 DEF Dropped
  <2>4. CASE ~(t - s[n + 1].at <= ttl)
    <3>1. k = n
      <4> SUFFICES ASSUME k # n PROVE FALSE
        OBVIOUS
      <4>1. n \in (k + 1)..n /\ n \in 1..Len(s) /\ n <= n + 1
        BY <2>0
      <4>2. s[n].at <= s[n + 1].at /\ t - s[n].at <= ttl
        BY <2>0, <2>2, <4>1 DEF InTime
      <4>3. s[n].at \in Nat /\ s[n + 1].at \in Nat
        BY <1>0, <2>0, <4>1
      <4>4. PICK a, b : a = s[n].at /\ b = s[n + 1].at
        OBVIOUS
      <4>5. a \in Nat /\ b \in Nat /\ a <= b /\ t - a <= ttl /\ ~(t - b <= ttl)
        BY <2>4, <4>2, <4>3, <4>4
      <4> QED BY <4>5
    <3>2. f[n + 1] = f[n]
      <4>1. f[n + 1] = Round(n)
        BY <1>2a, <2>0
      <4> QED BY <2>4, <4>1
    <3>3. Len(f[n + 1]) = (n + 1) - (n + 1)
      BY <2>2, <3>1, <3>2
    <3>4. Has(n + 1, n + 1)
      BY <2>2, <3>2, <3>3 DEF Dropped
    <3> QED BY <3>4
  <2> QED BY <2>3, <2>4
<1>5. N \in SUBSET Nat
  OBVIOUS
<1> HIDE DEF N
<1>6. Len(s) \in N
  BY <1>0, <1>3, <1>4, <1>5, FromZero
<1> QED BY <1>0, <1>1, <1>6 DEF N

-----------------------------------------------------------------------------
\* Types.
Time == Nat \ {0}
Cost == Nat \ {0}

DevType == [known : BOOLEAN, lastRaw : Nat, last : Nat, lastHost : Nat]
PendingTx == [key : Key, at : Time, occ : Cost, confirmed : BOOLEAN]
EarlyTx == [key : Key, raw : Time, at : Time, occ : Cost]
Meter == [host : WindowType, hard : WindowType, started : BOOLEAN, dev : DevType,
          pending : Seq(PendingTx), earlyTx : Seq(EarlyTx), slip : BOOLEAN]

LEMMA Slotted ==
  /\ Slots \in Nat /\ SlotLen \in Nat /\ Slots > 0 /\ SlotLen > 0 /\ MaxPending \in Nat /\ MaxPending > 0
  /\ Window \in Nat /\ Window = Slots * SlotLen
  /\ Wrap \in Nat /\ Offset \in Nat /\ PendingTTL \in Nat /\ EchoTTL \in Nat
BY WindowAssumption DEF Window

\* A slot that nothing is in is not occupied.
Balanced(s) == \A i \in Index : s[i].frames = 0 <=> s[i].occupied = 0

\* How far the window moves.
Shift(w, t) == CeilDiv(t - w.origin - Window, SlotLen)

LEMMA ShiftIs ==
  ASSUME NEW w \in WindowType, NEW t \in Nat, t - w.origin > Window
  PROVE  /\ Shift(w, t) \in Nat
         /\ w.origin + Shift(w, t) * SlotLen \in Nat
         /\ Shift(w, t) * SlotLen >= t - w.origin - Window
         /\ Shift(w, t) * SlotLen < t - w.origin - Window + SlotLen
<1> DEFINE d == t - w.origin - Window
<1>1. d \in Nat /\ w.origin \in Nat
  BY Slotted DEF WindowType
<1> HIDE DEF d
<1>2. PICK n : n = d + SlotLen - 1
  OBVIOUS
<1>3. n \in Nat /\ SlotLen \in Nat \ {0}
  BY <1>1, <1>2, Slotted
<1>4. PICK q \in Nat, r \in 0..(SlotLen - 1) : n = SlotLen * q + r /\ n \div SlotLen = q
  <2> DEFINE q == n \div SlotLen
             r == n % SlotLen
  <2>1. q \in Nat /\ r \in 0..(SlotLen - 1) /\ n = SlotLen * q + r
    BY <1>3
  <2> QED BY <2>1
<1>5. Shift(w, t) = q
  BY <1>2, <1>4 DEF Shift, CeilDiv, d
<1>6. q * SlotLen \in Nat /\ q * SlotLen = SlotLen * q
  BY <1>3, <1>4, Slotted
<1>7. q * SlotLen >= d /\ q * SlotLen < d + SlotLen
  BY <1>1, <1>2, <1>3, <1>4, <1>6, Slotted
<1>8. w.origin + q * SlotLen \in Nat
  BY <1>1, <1>6
<1> QED BY <1>3, <1>4, <1>5, <1>7, <1>8 DEF d

LEMMA EmptyTyped == Empty \in [Index -> Slot] /\ Balanced(Empty)
BY DEF Empty, Slot, Balanced

\* The three ways a window reaches up to a time: it is there, some slots are given up, or all.
LEMMA RotatedCases ==
  ASSUME NEW w \in WindowType, NEW t \in Nat
  PROVE  /\ Rotated(w, t) \in WindowType
         /\ w.origin # 0 /\ t - w.origin <= Window => Rotated(w, t) = w
         /\ w.origin = 0 => Rotated(w, t).origin = t /\ Rotated(w, t).slots = w.slots
         /\ w.origin # 0 /\ t - w.origin > Window =>
              \/ Rotated(w, t) = [origin |-> t, slots |-> Empty]
              \/ \E k \in 0..(Slots - 1) :
                   /\ Rotated(w, t).origin = w.origin + k * SlotLen
                   /\ k * SlotLen >= t - w.origin - Window
                   /\ \A i \in Index : Rotated(w, t).slots[i] =
                        IF i + k < Slots THEN w.slots[i + k] ELSE Empty[i]
<1>0. w.origin \in Nat /\ w.slots \in [Index -> Slot] /\ w = [origin |-> w.origin, slots |-> w.slots]
  BY DEF WindowType
<1>1. CASE w.origin = 0
  <2>1. Rotated(w, t) = [w EXCEPT !.origin = t]
    BY <1>1 DEF Rotated
  <2> QED BY <1>0, <1>1, <2>1 DEF WindowType
<1>2. CASE w.origin # 0 /\ t - w.origin <= Window
  <2>1. Rotated(w, t) = w
    BY <1>2 DEF Rotated
  <2>2. ~(t - w.origin > Window)
    BY <1>0, <1>2, Slotted
  <2> QED BY <1>2, <2>1, <2>2
<1>3. CASE w.origin # 0 /\ t - w.origin > Window
  <2> DEFINE k == Shift(w, t)
  <2>1. k \in Nat /\ w.origin + k * SlotLen \in Nat /\ k * SlotLen >= t - w.origin - Window
    BY <1>3, ShiftIs
  <2>2. ~(t - w.origin <= Window)
    BY <1>0, <1>3, Slotted
  <2>3. CASE k >= Slots
    <3>1. Rotated(w, t) = [origin |-> t, slots |-> Empty]
      BY <1>3, <2>2, <2>3 DEF Rotated, Shift
    <3> QED BY <1>3, <2>2, <3>1, EmptyTyped DEF WindowType
  <2>4. CASE ~(k >= Slots)
    <3> DEFINE s == [i \in Index |-> IF i + k < Slots THEN w.slots[i + k] ELSE Empty[i]]
    <3>1. Rotated(w, t) = [origin |-> w.origin + k * SlotLen, slots |-> s]
      BY <1>3, <2>2, <2>4 DEF Rotated, Shift
    <3> HIDE DEF k
    <3>2. k \in 0..(Slots - 1)
      BY <2>1, <2>4, Slotted
    <3>3. s \in [Index -> Slot]
      <4>1. \A i \in Index : i + k < Slots => i + k \in Index
        BY <3>2, Slotted DEF Index
      <4> QED BY <1>0, <4>1, EmptyTyped
    <3>4. \A i \in Index : s[i] = IF i + k < Slots THEN w.slots[i + k] ELSE Empty[i]
      OBVIOUS
    <3> HIDE DEF s
    <3>5. Rotated(w, t) \in WindowType
      BY <2>1, <3>1, <3>3 DEF WindowType
    <3> QED BY <1>3, <2>1, <2>2, <3>1, <3>2, <3>4, <3>5
  <2> QED BY <2>3, <2>4
<1> QED BY <1>0, <1>1, <1>2, <1>3, Slotted

LEMMA RotatedBalanced ==
  ASSUME NEW w \in WindowType, NEW t \in Nat, Balanced(w.slots)
  PROVE  Balanced(Rotated(w, t).slots)
<1>1. CASE w.origin # 0 /\ t - w.origin > Window
  <2>1. CASE Rotated(w, t) = [origin |-> t, slots |-> Empty]
    BY <2>1, EmptyTyped
  <2>2. CASE \E k \in 0..(Slots - 1) :
                   /\ Rotated(w, t).origin = w.origin + k * SlotLen
                   /\ k * SlotLen >= t - w.origin - Window
                   /\ \A i \in Index : Rotated(w, t).slots[i] =
                        IF i + k < Slots THEN w.slots[i + k] ELSE Empty[i]
    <3> PICK k \in 0..(Slots - 1) : \A i \in Index : Rotated(w, t).slots[i] =
                        IF i + k < Slots THEN w.slots[i + k] ELSE Empty[i]
      BY <2>2
    <3>1. \A i \in Index : i + k < Slots => i + k \in Index
      BY Slotted DEF Index
    <3> QED BY <3>1, EmptyTyped DEF Balanced
  <2> QED BY <1>1, <2>1, <2>2, RotatedCases
<1>2. CASE ~(w.origin # 0 /\ t - w.origin > Window)
  <2>1. w.origin \in Nat
    BY DEF WindowType
  <2>2. w.origin = 0 \/ t - w.origin <= Window
    BY <1>2, <2>1, Slotted
  <2>3. Rotated(w, t).slots = w.slots
    BY <2>2, RotatedCases
  <2> QED BY <2>3
<1> QED BY <1>1, <1>2

\* The slot of a time.
LEMMA PlaceIn ==
  ASSUME NEW w \in WindowType, NEW t \in Nat
  PROVE  /\ Place(w, t) \in Index
         /\ t >= w.origin /\ t - w.origin < Window =>
              /\ Place(w, t) * SlotLen <= t - w.origin
              /\ t - w.origin < Place(w, t) * SlotLen + SlotLen
<1> DEFINE d == t - w.origin
           i == IF t < w.origin THEN 0 ELSE d \div SlotLen
<1>0. w.origin \in Nat
  BY DEF WindowType
<1>1. Place(w, t) = IF i < Slots THEN i ELSE Slots - 1
  BY DEF Place
<1>2. t >= w.origin => d \in Nat
  BY <1>0
<1>3. ASSUME t >= w.origin
      PROVE  /\ i \in Nat /\ i * SlotLen <= d /\ d < i * SlotLen + SlotLen
             /\ d < Window => i < Slots
  <2> HIDE DEF d
  <2>1. d \in Nat /\ i = d \div SlotLen
    BY <1>0, <1>2, <1>3
  <2>2. PICK q, r : q = d \div SlotLen /\ r = d % SlotLen
    OBVIOUS
  <2>3. q \in Nat /\ r \in 0..(SlotLen - 1) /\ d = SlotLen * q + r
    BY <2>1, <2>2, Slotted
  <2>4. q * SlotLen = SlotLen * q /\ q * SlotLen \in Nat
    BY <2>3, Slotted
  <2>5. ASSUME q >= Slots PROVE d >= Window
    <3>1. PICK c \in Nat : q = Slots + c
      <4>1. q - Slots \in Nat /\ q = Slots + (q - Slots)
        BY <2>3, <2>5, Slotted
      <4> QED BY <4>1
    <3>2. q * SlotLen = Slots * SlotLen + c * SlotLen /\ c * SlotLen \in Nat
      BY <3>1, Slotted
    <3> QED BY <2>3, <2>4, <3>2, Slotted
  <2> QED BY <2>1, <2>2, <2>3, <2>4, <2>5, Slotted
<1> HIDE DEF d
<1>4. i \in Nat
  BY <1>0, <1>3
<1> HIDE DEF i
<1>5. Place(w, t) \in Index
  BY <1>1, <1>4, Slotted DEF Index
<1> QED BY <1>0, <1>1, <1>3, <1>5, Slotted DEF d

LEMMA AddedTyped ==
  ASSUME NEW w \in WindowType, NEW t \in Nat, NEW occ \in Cost
  PROVE  LET a == Added(w, t, occ) IN
         /\ a \in WindowType /\ a.origin = w.origin
         /\ \A i \in Index : a.slots[i] =
              IF i = Place(w, t)
              THEN [occupied |-> w.slots[i].occupied + occ, frames |-> w.slots[i].frames + 1]
              ELSE w.slots[i]
         /\ Balanced(w.slots) => Balanced(a.slots)
<1> DEFINE p == Place(w, t)
           x == [occupied |-> w.slots[p].occupied + occ, frames |-> w.slots[p].frames + 1]
           a == Added(w, t, occ)
<1>0. p \in Index /\ w.slots \in [Index -> Slot] /\ w.origin \in Nat
  BY PlaceIn DEF WindowType
<1>1. a = [w EXCEPT !.slots = [w.slots EXCEPT ![p] = x]]
  BY DEF Added
<1> HIDE DEF p
<1>2. x \in Slot
  BY <1>0 DEF Slot, Cost
<1> HIDE DEF a
<1>3. a.origin = w.origin /\ a.slots = [w.slots EXCEPT ![p] = x] /\ a \in WindowType
  BY <1>0, <1>1, <1>2 DEF WindowType
<1>4. \A i \in Index : a.slots[i] = IF i = p THEN x ELSE w.slots[i]
  BY <1>0, <1>3
<1>5. x.frames # 0 /\ x.occupied # 0
  BY <1>0 DEF Slot, Cost
<1>6. Balanced(w.slots) => Balanced(a.slots)
  BY <1>4, <1>5 DEF Balanced
<1>7. \A i \in Index : a.slots[i] =
              IF i = p
              THEN [occupied |-> w.slots[i].occupied + occ, frames |-> w.slots[i].frames + 1]
              ELSE w.slots[i]
  BY <1>4
<1> QED BY <1>3, <1>6, <1>7 DEF a, p

-----------------------------------------------------------------------------
\* A slot, with its time and its frames added up: what no transmission in the list accounts
\* for, then the transmissions that were counted in it, one after the other.
Sums(n, c, a, b) ==
  /\ a \in [1..(n + 1) -> Nat] /\ b \in [1..(n + 1) -> Nat]
  /\ a[1] = 0 <=> b[1] = 0
  /\ \A j \in 1..n : a[j + 1] = a[j] + c[j] /\ b[j + 1] = b[j] + (IF c[j] = 0 THEN 0 ELSE 1)

Column(n, c, slot) ==
  \E a, b : Sums(n, c, a, b) /\ a[n + 1] = slot.occupied /\ b[n + 1] = slot.frames

\* The sums grow, and are zero together.
LEMMA SumsGrow ==
  ASSUME NEW n \in Nat, NEW c \in [1..n -> Nat], NEW a, NEW b, Sums(n, c, a, b),
         NEW j \in 1..(n + 1)
  PROVE  /\ a[j] = 0 <=> b[j] = 0
         /\ \A i \in 1..j : a[i] <= a[j] /\ b[i] <= b[j]
<1> DEFINE Good(k) == (a[k] = 0 <=> b[k] = 0) /\ \A i \in 1..k : a[i] <= a[k] /\ b[i] <= b[k]
           N == {k \in Nat : k + 1 <= n + 1 => Good(k + 1)}
<1>0. \A i \in 1..(n + 1) : a[i] \in Nat /\ b[i] \in Nat
  BY DEF Sums
<1>1. 0 \in N
  BY DEF Sums
<1>2. ASSUME NEW k \in Nat, k \in N PROVE k + 1 \in N
  <2> SUFFICES ASSUME (k + 1) + 1 <= n + 1 PROVE Good((k + 1) + 1)
    OBVIOUS
  <2>1. Good(k + 1)
    BY <1>2
  <2> PICK m : m = k + 1
    OBVIOUS
  <2>2. Good(m) /\ m \in 1..n /\ m + 1 \in 1..(n + 1) /\ m \in 1..(n + 1)
    BY <2>1
  <2> HIDE DEF N
  <2>3. PICK x, y, z, u, v : x = a[m] /\ y = b[m] /\ z = c[m] /\ u = a[m + 1] /\ v = b[m + 1]
    OBVIOUS
  <2>4. x \in Nat /\ y \in Nat /\ z \in Nat
    BY <1>0, <2>2, <2>3
  <2>5. u = x + z /\ v = y + (IF z = 0 THEN 0 ELSE 1)
    BY <2>2, <2>3 DEF Sums
  <2>6. u = 0 <=> v = 0
    <3>1. x = 0 <=> y = 0
      BY <2>2, <2>3
    <3> QED BY <2>4, <2>5, <3>1
  <2>7. ASSUME NEW i \in 1..(m + 1) PROVE a[i] <= u /\ b[i] <= v
    <3>1. CASE i = m + 1
      <4>1. a[i] = u /\ b[i] = v
        BY <2>3, <3>1
      <4>2. u \in Nat /\ v \in Nat
        BY <2>4, <2>5
      <4> QED BY <4>1, <4>2
    <3>2. CASE i \in 1..m
      <4>1. a[i] <= x /\ b[i] <= y /\ i \in 1..(n + 1)
        BY <2>2, <2>3, <3>2
      <4>2. PICK p, q : p = a[i] /\ q = b[i]
        OBVIOUS
      <4>3. p \in Nat /\ q \in Nat /\ p <= x /\ q <= y
        BY <1>0, <4>1, <4>2
      <4>4. p <= u /\ q <= v
        BY <2>4, <2>5, <4>3
      <4> QED BY <4>2, <4>4
    <3>3. m \in Nat
      BY <2>2
    <3> QED BY <3>1, <3>2, <3>3
  <2>8. Good(m + 1)
    BY <2>3, <2>6, <2>7
  <2> QED BY <2>8
<1>3. N \in SUBSET Nat
  OBVIOUS
<1>4. \A k \in N : k + 1 <= n + 1 => Good(k + 1)
  OBVIOUS
<1> HIDE DEF N, Good
<1>5. N = Nat
  BY <1>1, <1>2, <1>3, FromZero
<1>6. j - 1 \in N /\ (j - 1) + 1 = j /\ j <= n + 1
  BY <1>5
<1>7. Good((j - 1) + 1)
  BY <1>4, <1>6
<1> QED BY <1>6, <1>7 DEF Good

LEMMA ColumnBalanced ==
  ASSUME NEW n \in Nat, NEW c \in [1..n -> Nat], NEW slot, Column(n, c, slot)
  PROVE  slot.frames = 0 <=> slot.occupied = 0
<1> PICK a, b : Sums(n, c, a, b) /\ a[n + 1] = slot.occupied /\ b[n + 1] = slot.frames
  BY DEF Column
<1>1. n + 1 \in 1..(n + 1)
  OBVIOUS
<1>2. a[n + 1] = 0 <=> b[n + 1] = 0
  BY <1>1, SumsGrow
<1> QED BY <1>2

LEMMA ColumnPlain ==
  ASSUME NEW n \in Nat, NEW c \in [1..n -> Nat], \A j \in 1..n : c[j] = 0,
         NEW slot \in Slot, slot.frames = 0 <=> slot.occupied = 0
  PROVE  Column(n, c, slot)
<1> DEFINE a == [j \in 1..(n + 1) |-> slot.occupied]
           b == [j \in 1..(n + 1) |-> slot.frames]
<1>1. n + 1 \in 1..(n + 1) /\ 1 \in 1..(n + 1) /\ \A j \in 1..n : j \in 1..(n + 1) /\ j + 1 \in 1..(n + 1)
  OBVIOUS
<1>2. slot.occupied \in Nat /\ slot.frames \in Nat
  BY DEF Slot
<1>3. a[n + 1] = slot.occupied /\ b[n + 1] = slot.frames /\ a[1] = slot.occupied /\ b[1] = slot.frames
  BY <1>1
<1>4. \A j \in 1..n : a[j + 1] = a[j] + c[j] /\ b[j + 1] = b[j] + (IF c[j] = 0 THEN 0 ELSE 1)
  BY <1>1, <1>2
<1>5. a \in [1..(n + 1) -> Nat] /\ b \in [1..(n + 1) -> Nat]
  BY <1>2
<1> HIDE DEF a, b
<1>6. Sums(n, c, a, b)
  BY <1>3, <1>4, <1>5 DEF Sums
<1> QED BY <1>3, <1>6 DEF Column

\* The oldest leave the list: what they account for stays in the slot.
LEMMA ColumnDrop ==
  ASSUME NEW n \in Nat, NEW c \in [1..n -> Nat], NEW slot, Column(n, c, slot),
         NEW k \in 0..n, NEW e \in [1..(n - k) -> Nat], \A j \in 1..(n - k) : e[j] = c[k + j]
  PROVE  Column(n - k, e, slot)
<1> PICK a, b : Sums(n, c, a, b) /\ a[n + 1] = slot.occupied /\ b[n + 1] = slot.frames
  BY DEF Column
<1> DEFINE f == [j \in 1..((n - k) + 1) |-> a[k + j]]
           g == [j \in 1..((n - k) + 1) |-> b[k + j]]
<1>1. \A j \in 1..((n - k) + 1) : f[j] = a[k + j] /\ g[j] = b[k + j] /\ k + j \in 1..(n + 1)
  OBVIOUS
<1>2. f \in [1..((n - k) + 1) -> Nat] /\ g \in [1..((n - k) + 1) -> Nat]
  BY <1>1 DEF Sums
<1> HIDE DEF f, g
<1>3. f[1] = 0 <=> g[1] = 0
  <2>1. k + 1 \in 1..(n + 1) /\ 1 \in 1..((n - k) + 1)
    OBVIOUS
  <2>2. a[k + 1] = 0 <=> b[k + 1] = 0
    BY <2>1, SumsGrow
  <2> QED BY <1>1, <2>1, <2>2
<1>4. ASSUME NEW j \in 1..(n - k)
      PROVE  f[j + 1] = f[j] + e[j] /\ g[j + 1] = g[j] + (IF e[j] = 0 THEN 0 ELSE 1)
  <2>1. k + j \in 1..n /\ k + (j + 1) = (k + j) + 1 /\ j \in 1..((n - k) + 1)
        /\ j + 1 \in 1..((n - k) + 1)
    OBVIOUS
  <2>2. a[(k + j) + 1] = a[k + j] + c[k + j]
        /\ b[(k + j) + 1] = b[k + j] + (IF c[k + j] = 0 THEN 0 ELSE 1)
    BY <2>1 DEF Sums
  <2>3. f[j] = a[k + j] /\ f[j + 1] = a[(k + j) + 1] /\ g[j] = b[k + j] /\ g[j + 1] = b[(k + j) + 1]
    <3>1. f[j + 1] = a[k + (j + 1)] /\ g[j + 1] = b[k + (j + 1)] /\ f[j] = a[k + j] /\ g[j] = b[k + j]
      BY <1>1, <2>1
    <3> QED BY <2>1, <3>1
  <2>4. e[j] = c[k + j]
    OBVIOUS
  <2> QED BY <2>2, <2>3, <2>4
<1>5. f[(n - k) + 1] = slot.occupied /\ g[(n - k) + 1] = slot.frames
  <2>1. (n - k) + 1 \in 1..((n - k) + 1) /\ k + ((n - k) + 1) = n + 1
    OBVIOUS
  <2> QED BY <1>1, <2>1
<1>6. Sums(n - k, e, f, g)
  BY <1>2, <1>3, <1>4 DEF Sums
<1> QED BY <1>5, <1>6 DEF Column

\* A new transmission is counted in the slot, or in another.
LEMMA ColumnAppend ==
  ASSUME NEW n \in Nat, NEW c \in [1..n -> Nat], NEW slot \in Slot, Column(n, c, slot),
         NEW e \in [1..(n + 1) -> Nat], \A j \in 1..n : e[j] = c[j], NEW s,
         s.occupied = slot.occupied + e[n + 1],
         s.frames = slot.frames + (IF e[n + 1] = 0 THEN 0 ELSE 1)
  PROVE  Column(n + 1, e, s)
<1> PICK a, b : Sums(n, c, a, b) /\ a[n + 1] = slot.occupied /\ b[n + 1] = slot.frames
  BY DEF Column
<1> DEFINE f == [j \in 1..((n + 1) + 1) |-> IF j <= n + 1 THEN a[j] ELSE s.occupied]
           g == [j \in 1..((n + 1) + 1) |-> IF j <= n + 1 THEN b[j] ELSE s.frames]
<1>0. s.occupied \in Nat /\ s.frames \in Nat
  <2>1. n + 1 \in 1..(n + 1)
    OBVIOUS
  <2>2. e[n + 1] \in Nat /\ slot.occupied \in Nat /\ slot.frames \in Nat
    BY <2>1 DEF Slot
  <2> QED BY <2>2
<1>1. /\ \A j \in 1..(n + 1) : f[j] = a[j] /\ g[j] = b[j]
      /\ f[(n + 1) + 1] = s.occupied /\ g[(n + 1) + 1] = s.frames
  OBVIOUS
<1>2. f \in [1..((n + 1) + 1) -> Nat] /\ g \in [1..((n + 1) + 1) -> Nat]
  BY <1>0 DEF Sums
<1> HIDE DEF f, g
<1>3. f[1] = 0 <=> g[1] = 0
  <2>1. 1 \in 1..(n + 1)
    OBVIOUS
  <2> QED BY <1>1, <2>1 DEF Sums
<1>4. ASSUME NEW j \in 1..(n + 1)
      PROVE  f[j + 1] = f[j] + e[j] /\ g[j + 1] = g[j] + (IF e[j] = 0 THEN 0 ELSE 1)
  <2>1. CASE j \in 1..n
    <3>1. j + 1 \in 1..(n + 1)
      BY <2>1
    <3>2. a[j + 1] = a[j] + c[j] /\ b[j + 1] = b[j] + (IF c[j] = 0 THEN 0 ELSE 1)
      BY <2>1 DEF Sums
    <3> QED BY <1>1, <2>1, <3>1, <3>2
  <2>2. CASE j = n + 1
    BY <1>1, <2>2
  <2> QED BY <2>1, <2>2
<1>5. Sums(n + 1, e, f, g)
  BY <1>2, <1>3, <1>4 DEF Sums
<1> QED BY <1>1, <1>5 DEF Column

\* A frame of which the list knows nothing is counted.
LEMMA ColumnForeign ==
  ASSUME NEW n \in Nat, NEW c \in [1..n -> Nat], NEW slot \in Slot, Column(n, c, slot),
         NEW x \in Cost, NEW s, s.occupied = slot.occupied + x, s.frames = slot.frames + 1
  PROVE  Column(n, c, s)
<1> PICK a, b : Sums(n, c, a, b) /\ a[n + 1] = slot.occupied /\ b[n + 1] = slot.frames
  BY DEF Column
<1> DEFINE f == [j \in 1..(n + 1) |-> a[j] + x]
           g == [j \in 1..(n + 1) |-> b[j] + 1]
<1>0. \A j \in 1..(n + 1) : a[j] \in Nat /\ b[j] \in Nat
  BY DEF Sums
<1>1. \A j \in 1..(n + 1) : f[j] = a[j] + x /\ g[j] = b[j] + 1
  OBVIOUS
<1>2. f \in [1..(n + 1) -> Nat] /\ g \in [1..(n + 1) -> Nat]
  BY <1>0 DEF Cost
<1> HIDE DEF f, g
<1>3. f[1] = 0 <=> g[1] = 0
  <2>1. 1 \in 1..(n + 1)
    OBVIOUS
  <2>2. a[1] \in Nat /\ b[1] \in Nat /\ f[1] = a[1] + x /\ g[1] = b[1] + 1
    BY <1>0, <1>1, <2>1
  <2> QED BY <2>2 DEF Cost
<1>4. ASSUME NEW j \in 1..n
      PROVE  f[j + 1] = f[j] + c[j] /\ g[j + 1] = g[j] + (IF c[j] = 0 THEN 0 ELSE 1)
  <2>1. j \in 1..(n + 1) /\ j + 1 \in 1..(n + 1)
    OBVIOUS
  <2>2. a[j + 1] = a[j] + c[j] /\ b[j + 1] = b[j] + (IF c[j] = 0 THEN 0 ELSE 1)
    BY DEF Sums
  <2>3. f[j] = a[j] + x /\ f[j + 1] = a[j + 1] + x /\ g[j] = b[j] + 1 /\ g[j + 1] = b[j + 1] + 1
        /\ a[j] \in Nat /\ b[j] \in Nat
    BY <1>0, <1>1, <2>1
  <2>4. PICK u, v, z : u = a[j] /\ v = b[j] /\ z = c[j]
    OBVIOUS
  <2>5. u \in Nat /\ v \in Nat /\ z \in Nat /\ x \in Nat
    BY <2>3, <2>4 DEF Cost
  <2>6. f[j] = u + x /\ f[j + 1] = (u + z) + x /\ g[j] = v + 1
        /\ g[j + 1] = (v + (IF z = 0 THEN 0 ELSE 1)) + 1
    BY <2>2, <2>3, <2>4
  <2>7. f[j + 1] = f[j] + z /\ g[j + 1] = g[j] + (IF z = 0 THEN 0 ELSE 1)
    BY <2>5, <2>6
  <2> QED BY <2>4, <2>7
<1>5. f[n + 1] = s.occupied /\ g[n + 1] = s.frames
  <2>1. n + 1 \in 1..(n + 1)
    OBVIOUS
  <2> QED BY <1>1, <2>1
<1>6. Sums(n, c, f, g)
  BY <1>2, <1>3, <1>4 DEF Sums
<1> QED BY <1>5, <1>6 DEF Column

\* A transmission that was counted in the slot is taken out of it.
LEMMA ColumnTake ==
  ASSUME NEW n \in Nat, NEW c \in [1..n -> Nat], NEW slot \in Slot, Column(n, c, slot),
         NEW d \in 1..n, c[d] # 0,
         NEW e \in [1..n -> Nat], \A j \in 1..n : e[j] = IF j = d THEN 0 ELSE c[j]
  PROVE  /\ slot.frames # 0 /\ slot.occupied >= c[d]
         /\ \A s : s.occupied = slot.occupied - c[d] /\ s.frames = slot.frames - 1
                   => Column(n, e, s)
<1> PICK a, b : Sums(n, c, a, b) /\ a[n + 1] = slot.occupied /\ b[n + 1] = slot.frames
  BY DEF Column
<1> DEFINE x == c[d]
           f == [j \in 1..(n + 1) |-> IF j <= d THEN a[j] ELSE a[j] - x]
           g == [j \in 1..(n + 1) |-> IF j <= d THEN b[j] ELSE b[j] - 1]
<1>0. \A j \in 1..(n + 1) : a[j] \in Nat /\ b[j] \in Nat
  BY DEF Sums
<1>0a. x \in Nat /\ x # 0 /\ d \in 1..(n + 1) /\ d + 1 \in 1..(n + 1)
  OBVIOUS
<1>0b. a[d + 1] = a[d] + x /\ b[d + 1] = b[d] + 1
  BY <1>0a DEF Sums
<1>0c. ASSUME NEW j \in 1..(n + 1), ~(j <= d) PROVE a[j] >= x /\ b[j] >= 1
  <2>1. d + 1 \in 1..j
    BY <1>0c
  <2>2. a[d + 1] <= a[j] /\ b[d + 1] <= b[j]
    BY <2>1, SumsGrow
  <2>3. PICK u, v, y, z : u = a[d] /\ v = b[d] /\ y = a[j] /\ z = b[j]
    OBVIOUS
  <2>4. u \in Nat /\ v \in Nat /\ y \in Nat /\ z \in Nat /\ u + x <= y /\ v + 1 <= z
    BY <1>0, <1>0a, <1>0b, <2>2, <2>3
  <2>5. y >= x /\ z >= 1
    BY <1>0a, <2>4
  <2> QED BY <2>3, <2>5
<1>0d. n + 1 \in 1..(n + 1) /\ ~(n + 1 <= d) /\ 1 \in 1..(n + 1) /\ 1 <= d
  OBVIOUS
<1>0e. slot.frames # 0 /\ slot.occupied >= c[d]
  <2>1. a[n + 1] >= x /\ b[n + 1] >= 1
    BY <1>0c, <1>0d
  <2> QED BY <2>1
<1>1. \A j \in 1..(n + 1) : f[j] = (IF j <= d THEN a[j] ELSE a[j] - x)
                            /\ g[j] = (IF j <= d THEN b[j] ELSE b[j] - 1)
  OBVIOUS
<1>2. f \in [1..(n + 1) -> Nat] /\ g \in [1..(n + 1) -> Nat]
  <2>1. ASSUME NEW j \in 1..(n + 1), ~(j <= d) PROVE a[j] - x \in Nat /\ b[j] - 1 \in Nat
    <3>1. PICK u, v : u = a[j] /\ v = b[j]
      OBVIOUS
    <3>2. u \in Nat /\ v \in Nat /\ u >= x /\ v >= 1
      BY <1>0, <1>0c, <2>1, <3>1
    <3>3. u - x \in Nat /\ v - 1 \in Nat
      BY <1>0a, <3>2
    <3> QED BY <3>1, <3>3
  <2> QED BY <1>0, <2>1
<1> HIDE DEF f, g, x
<1>3. f[1] = 0 <=> g[1] = 0
  BY <1>0d, <1>1 DEF Sums
<1>4. ASSUME NEW j \in 1..n
      PROVE  f[j + 1] = f[j] + e[j] /\ g[j + 1] = g[j] + (IF e[j] = 0 THEN 0 ELSE 1)
  <2>1. j \in 1..(n + 1) /\ j + 1 \in 1..(n + 1)
    OBVIOUS
  <2>2. a[j + 1] = a[j] + c[j] /\ b[j + 1] = b[j] + (IF c[j] = 0 THEN 0 ELSE 1)
    BY DEF Sums
  <2>3. PICK u, v, z : u = a[j] /\ v = b[j] /\ z = c[j]
    OBVIOUS
  <2>4. u \in Nat /\ v \in Nat /\ z \in Nat
    BY <1>0, <2>1, <2>3
  <2>5. a[j + 1] = u + z /\ b[j + 1] = v + (IF z = 0 THEN 0 ELSE 1)
    BY <2>2, <2>3
  <2>6. CASE j + 1 <= d
    <3>1. j <= d /\ j # d
      BY <2>6
    <3>2. f[j] = u /\ g[j] = v /\ f[j + 1] = u + z /\ g[j + 1] = v + (IF z = 0 THEN 0 ELSE 1) /\ e[j] = z
      BY <1>1, <2>1, <2>3, <2>5, <2>6, <3>1
    <3> QED BY <3>2
  <2>7. CASE j = d
    <3>1. ~(j + 1 <= d) /\ j <= d /\ z = x
      BY <2>3, <2>7 DEF x
    <3>2. f[j] = u /\ g[j] = v /\ e[j] = 0 /\ f[j + 1] = (u + z) - x
          /\ g[j + 1] = (v + (IF z = 0 THEN 0 ELSE 1)) - 1
      BY <1>1, <2>1, <2>3, <2>5, <2>7, <3>1
    <3> QED BY <1>0a, <2>4, <3>1, <3>2
  <2>8. CASE ~(j <= d)
    <3>1. ~(j + 1 <= d) /\ j # d
      BY <2>8
    <3>2. /\ f[j] = u - x /\ g[j] = v - 1 /\ e[j] = z /\ f[j + 1] = (u + z) - x
          /\ g[j + 1] = (v + (IF z = 0 THEN 0 ELSE 1)) - 1
      BY <1>1, <2>1, <2>3, <2>5, <2>8, <3>1
    <3>3. (u + z) - x = (u - x) + z /\ (v + (IF z = 0 THEN 0 ELSE 1)) - 1 = (v - 1) + (IF z = 0 THEN 0 ELSE 1)
      BY <1>0a, <2>4
    <3> QED BY <3>2, <3>3
  <2>9. j + 1 <= d \/ j = d \/ ~(j <= d)
    OBVIOUS
  <2> QED BY <2>6, <2>7, <2>8, <2>9
<1>5. Sums(n, e, f, g)
  BY <1>2, <1>3, <1>4 DEF Sums
<1>6. ASSUME NEW s, s.occupied = slot.occupied - c[d], s.frames = slot.frames - 1
      PROVE  Column(n, e, s)
  <2>1. f[n + 1] = s.occupied /\ g[n + 1] = s.frames
    BY <1>0d, <1>1, <1>6 DEF x
  <2> QED BY <1>5, <2>1 DEF Column
<1> QED BY <1>0e, <1>6

\* A transmission that is not counted in the slot leaves the list.
LEMMA ColumnSkip ==
  ASSUME NEW n \in Nat, NEW c \in [1..n -> Nat], NEW slot, Column(n, c, slot),
         NEW d \in 1..n, c[d] = 0,
         NEW e \in [1..(n - 1) -> Nat], \A j \in 1..(n - 1) : e[j] = c[IF j < d THEN j ELSE j + 1]
  PROVE  Column(n - 1, e, slot)
<1> PICK a, b : Sums(n, c, a, b) /\ a[n + 1] = slot.occupied /\ b[n + 1] = slot.frames
  BY DEF Column
<1> DEFINE f == [j \in 1..((n - 1) + 1) |-> IF j <= d THEN a[j] ELSE a[j + 1]]
           g == [j \in 1..((n - 1) + 1) |-> IF j <= d THEN b[j] ELSE b[j + 1]]
<1>0. \A j \in 1..(n + 1) : a[j] \in Nat /\ b[j] \in Nat
  BY DEF Sums
<1>1. \A j \in 1..n : f[j] = (IF j <= d THEN a[j] ELSE a[j + 1])
                      /\ g[j] = (IF j <= d THEN b[j] ELSE b[j + 1])
  OBVIOUS
<1>2. f \in [1..((n - 1) + 1) -> Nat] /\ g \in [1..((n - 1) + 1) -> Nat]
  <2>1. \A j \in 1..((n - 1) + 1) : j \in 1..(n + 1) /\ j + 1 \in 1..(n + 1)
    OBVIOUS
  <2> QED BY <1>0, <2>1
<1> HIDE DEF f, g
<1>3. f[1] = 0 <=> g[1] = 0
  <2>1. 1 \in 1..n /\ 1 <= d
    OBVIOUS
  <2> QED BY <1>1, <2>1 DEF Sums
<1>3a. a[d + 1] = a[d] /\ b[d + 1] = b[d]
  <2>1. a[d + 1] = a[d] + c[d] /\ b[d + 1] = b[d] + (IF c[d] = 0 THEN 0 ELSE 1) /\ d \in 1..(n + 1)
    BY DEF Sums
  <2> QED BY <1>0, <2>1
<1>4. ASSUME NEW j \in 1..(n - 1)
      PROVE  f[j + 1] = f[j] + e[j] /\ g[j + 1] = g[j] + (IF e[j] = 0 THEN 0 ELSE 1)
  <2>1. j \in 1..n /\ j + 1 \in 1..n
    OBVIOUS
  <2>2. CASE j < d
    <3>1. a[j + 1] = a[j] + c[j] /\ b[j + 1] = b[j] + (IF c[j] = 0 THEN 0 ELSE 1)
      BY <2>1 DEF Sums
    <3>2. j <= d /\ j + 1 <= d
      BY <2>2
    <3> QED BY <1>1, <2>1, <2>2, <3>1, <3>2
  <2>3. CASE ~(j < d)
    <3>1. a[(j + 1) + 1] = a[j + 1] + c[j + 1]
          /\ b[(j + 1) + 1] = b[j + 1] + (IF c[j + 1] = 0 THEN 0 ELSE 1)
      BY <2>1 DEF Sums
    <3>2. ~(j + 1 <= d) /\ e[j] = c[j + 1]
      BY <2>3
    <3>3. f[j + 1] = a[(j + 1) + 1] /\ g[j + 1] = b[(j + 1) + 1]
      BY <1>1, <2>1, <3>2
    <3>4. f[j] = a[j + 1] /\ g[j] = b[j + 1]
      <4>1. CASE j = d
        BY <1>1, <1>3a, <2>1, <4>1
      <4>2. CASE j # d
        <5>1. ~(j <= d)
          BY <2>3, <4>2
        <5> QED BY <1>1, <2>1, <5>1
      <4> QED BY <4>1, <4>2
    <3> QED BY <3>1, <3>2, <3>3, <3>4
  <2> QED BY <2>2, <2>3
<1>5. f[(n - 1) + 1] = slot.occupied /\ g[(n - 1) + 1] = slot.frames
  <2>1. n \in 1..n /\ (n - 1) + 1 = n
    OBVIOUS
  <2>2. CASE n = d
    BY <1>1, <1>3a, <2>1, <2>2
  <2>3. CASE n # d
    <3>1. ~(n <= d)
      BY <2>3
    <3> QED BY <1>1, <2>1, <3>1
  <2> QED BY <2>2, <2>3
<1>6. Sums(n - 1, e, f, g)
  BY <1>2, <1>3, <1>4 DEF Sums
<1> QED BY <1>5, <1>6 DEF Column

-----------------------------------------------------------------------------
\* What each operation of the meter does to its parts.

LEMMA HostRotatedIs ==
  ASSUME NEW m \in Meter, NEW t \in Nat, NEW n, n = HostRotated(m, t)
  PROVE  /\ n \in Meter /\ n.host = Rotated(m.host, t) /\ n.hard = m.hard /\ n.dev = m.dev
         /\ n.pending = m.pending /\ n.earlyTx = m.earlyTx /\ n.slip = m.slip
<1>1. m.host \in WindowType /\ m.started \in BOOLEAN
  BY DEF Meter
<1>2. Rotated(m.host, t) \in WindowType
  BY <1>1, RotatedCases
<1>3. PICK r, s : r = Rotated(m.host, t) /\ s = (m.started \/ m.host.origin = 0)
  OBVIOUS
<1>4. n = [m EXCEPT !.host = r, !.started = s]
  BY <1>3 DEF HostRotated
<1>5. r \in WindowType /\ s \in BOOLEAN
  BY <1>1, <1>2, <1>3
<1> QED BY <1>3, <1>4, <1>5 DEF Meter

\* A frame counted by the host; without a slip it falls into the window.
Counted(m, n, w, t, occ) ==
  /\ n \in Meter /\ n.hard = m.hard /\ n.dev = m.dev
  /\ n.pending = m.pending /\ n.earlyTx = m.earlyTx /\ (m.slip => n.slip)
  /\ w \in WindowType /\ (n.host = w \/ n.host = Added(w, t, occ))
  /\ ~n.slip => t >= w.origin /\ t - w.origin < Window /\ n.host = Added(w, t, occ)

LEMMA AddHostIs ==
  ASSUME NEW m \in Meter, NEW t \in Nat, NEW occ \in Cost
  PROVE  Counted(m, AddHost(m, t, occ), Rotated(m.host, t), t, occ)
<1> PICK n, w : n = AddHost(m, t, occ) /\ w = Rotated(m.host, t)
  OBVIOUS
<1> SUFFICES Counted(m, n, w, t, occ)
  OBVIOUS
<1> DEFINE h == HostRotated(m, t)
           edge == t < h.host.origin \/ t - h.host.origin >= Window
           timed == IF edge THEN Slip(h) ELSE h
<1>1. /\ h \in Meter /\ h.host = w /\ h.hard = m.hard /\ h.dev = m.dev
      /\ h.pending = m.pending /\ h.earlyTx = m.earlyTx /\ h.slip = m.slip
  BY HostRotatedIs
<1>2. n = IF h.host.origin - t >= SlotLen THEN timed
          ELSE [timed EXCEPT !.host = Added(timed.host, t, occ)]
  BY DEF AddHost
<1>3. w \in WindowType /\ w.origin \in Nat
  BY <1>1 DEF Meter, WindowType
<1>4. Added(w, t, occ) \in WindowType
  BY <1>3, AddedTyped
<1> HIDE DEF h
<1>5. /\ timed \in Meter /\ timed.host = w /\ timed.hard = m.hard /\ timed.dev = m.dev
      /\ timed.pending = m.pending /\ timed.earlyTx = m.earlyTx
      /\ m.slip => timed.slip
      /\ ~timed.slip => ~edge
  BY <1>1 DEF Slip, Meter
<1>6. edge <=> t < w.origin \/ t - w.origin >= Window
  BY <1>1
<1> HIDE DEF timed, edge
<1>7. CASE h.host.origin - t >= SlotLen
  <2>1. edge
    BY <1>1, <1>3, <1>6, <1>7, Slotted
  <2> QED BY <1>2, <1>3, <1>5, <1>7, <2>1 DEF Counted
<1>8. CASE ~(h.host.origin - t >= SlotLen)
  <2>1. n = [timed EXCEPT !.host = Added(w, t, occ)]
    BY <1>2, <1>5, <1>8
  <2>2. /\ n \in Meter /\ n.hard = timed.hard /\ n.dev = timed.dev /\ n.pending = timed.pending
        /\ n.earlyTx = timed.earlyTx /\ n.slip = timed.slip /\ n.host = Added(w, t, occ)
    BY <1>4, <1>5, <2>1 DEF Meter
  <2>3. ~edge => t >= w.origin /\ t - w.origin < Window
    BY <1>3, <1>6, Slotted
  <2> QED BY <1>3, <1>5, <2>2, <2>3 DEF Counted
<1> QED BY <1>7, <1>8

\* A transmission is taken out, or there is nothing to take.
Taken(w, i, occ) == [w.slots EXCEPT ![i] = [occupied |-> w.slots[i].occupied - occ,
                                            frames   |-> w.slots[i].frames - 1]]

LEMMA TakenTyped ==
  ASSUME NEW w \in WindowType, NEW i \in Index, NEW occ \in Cost,
         w.slots[i].frames # 0, ~(w.slots[i].occupied < occ)
  PROVE  Taken(w, i, occ) \in [Index -> Slot]
<1>1. w.slots \in [Index -> Slot] /\ w.slots[i] \in Slot
  BY DEF WindowType
<1>2. PICK x, y : x = w.slots[i].occupied /\ y = w.slots[i].frames
  OBVIOUS
<1>3. x \in Nat /\ y \in Nat /\ y # 0 /\ ~(x < occ) /\ occ \in Nat
  BY <1>1, <1>2 DEF Slot, Cost
<1>4. x - occ \in Nat /\ y - 1 \in Nat
  BY <1>3
<1>5. [occupied |-> x - occ, frames |-> y - 1] \in Slot
  BY <1>4 DEF Slot
<1> QED BY <1>1, <1>2, <1>5 DEF Taken

LEMMA RemoveHostIs ==
  ASSUME NEW m \in Meter, NEW p, p.at \in Nat, p.occ \in Cost, NEW n, n = RemoveHost(m, p),
         NEW w, w = Rotated(m.host, p.at), NEW i, i = Place(w, p.at)
  PROVE  /\ n \in Meter /\ n.hard = m.hard /\ n.dev = m.dev
         /\ n.pending = m.pending /\ n.earlyTx = m.earlyTx /\ n.slip = m.slip
         /\ i \in Index /\ w \in WindowType
         /\ p.at < w.origin \/ w.slots[i].frames = 0 \/ w.slots[i].occupied < p.occ => n.host = w
         /\ ~(p.at < w.origin \/ w.slots[i].frames = 0 \/ w.slots[i].occupied < p.occ) =>
              n.host.origin = w.origin /\ n.host.slots = Taken(w, i, p.occ)
<1> DEFINE h == HostRotated(m, p.at)
           none == p.at < w.origin \/ w.slots[i].frames = 0 \/ w.slots[i].occupied < p.occ
<1>1. /\ h \in Meter /\ h.host = w /\ h.hard = m.hard /\ h.dev = m.dev
      /\ h.pending = m.pending /\ h.earlyTx = m.earlyTx /\ h.slip = m.slip
  BY HostRotatedIs
<1>2. n = IF none THEN h
          ELSE [h EXCEPT !.host.slots[i] = [occupied |-> h.host.slots[i].occupied - p.occ,
                                            frames   |-> h.host.slots[i].frames - 1]]
  BY <1>1 DEF RemoveHost
<1> HIDE DEF h
<1>3. w \in WindowType /\ i \in Index
  BY <1>1, PlaceIn DEF Meter
<1>4. CASE none
  BY <1>1, <1>2, <1>3, <1>4
<1>5. CASE ~none
  <2>1. n = [h EXCEPT !.host = [w EXCEPT !.slots = Taken(w, i, p.occ)]]
    BY <1>1, <1>2, <1>5 DEF Taken
  <2>2. Taken(w, i, p.occ) \in [Index -> Slot]
    BY <1>3, <1>5, TakenTyped
  <2> DEFINE v == [w EXCEPT !.slots = Taken(w, i, p.occ)]
  <2>3. v \in WindowType /\ v.origin = w.origin /\ v.slots = Taken(w, i, p.occ)
    BY <1>3, <2>2 DEF WindowType
  <2>4. n = [h EXCEPT !.host = v]
    BY <2>1
  <2> HIDE DEF v
  <2>5. /\ n \in Meter /\ n.host = v /\ n.hard = h.hard /\ n.dev = h.dev
        /\ n.pending = h.pending /\ n.earlyTx = h.earlyTx /\ n.slip = h.slip
    BY <1>1, <2>3, <2>4 DEF Meter
  <2> QED BY <1>1, <1>3, <1>5, <2>3, <2>5
<1> QED BY <1>4, <1>5

\* When the window does not move.
LEMMA RemoveInPlace ==
  ASSUME NEW m \in Meter, NEW p, p.at \in Nat, p.occ \in Cost, NEW n, n = RemoveHost(m, p),
         Rotated(m.host, p.at) = m.host
  PROVE  \E i \in Index :
           /\ i = Place(m.host, p.at)
           /\ p.at < m.host.origin \/ m.host.slots[i].frames = 0 \/ m.host.slots[i].occupied < p.occ
                => n.host = m.host
           /\ ~(p.at < m.host.origin \/ m.host.slots[i].frames = 0 \/ m.host.slots[i].occupied < p.occ)
                => n.host.origin = m.host.origin /\ n.host.slots = Taken(m.host, i, p.occ)
<1>1. PICK w, i : w = Rotated(m.host, p.at) /\ i = Place(w, p.at)
  OBVIOUS
<1>2. /\ i \in Index
      /\ p.at < w.origin \/ w.slots[i].frames = 0 \/ w.slots[i].occupied < p.occ => n.host = w
      /\ ~(p.at < w.origin \/ w.slots[i].frames = 0 \/ w.slots[i].occupied < p.occ) =>
           n.host.origin = w.origin /\ n.host.slots = Taken(w, i, p.occ)
  BY <1>1, RemoveHostIs
<1>3. w = m.host
  BY <1>1
<1> QED BY <1>1, <1>2, <1>3

LEMMA StampTimeTyped ==
  ASSUME NEW dev \in DevType, NEW raw \in Nat
  PROVE  StampTime(dev, raw) \in Nat
<1>1. PICK a, b : a = dev.last /\ b = dev.lastRaw
  OBVIOUS
<1>2. a \in Nat /\ b \in Nat /\ Wrap \in Nat /\ Window \in Nat
  BY <1>1, Slotted DEF DevType
<1>3. CASE ~dev.known \/ Restarted(dev, raw)
  BY <1>3 DEF StampTime
<1>4. CASE dev.known /\ ~Restarted(dev, raw) /\ raw < b /\ Wrapped(dev, raw)
  <2>1. StampTime(dev, raw) = a + Wrap - b + raw
    BY <1>1, <1>4 DEF StampTime
  <2>2. b < Wrap
    BY <1>1, <1>4 DEF Wrapped
  <2> QED BY <1>2, <2>1, <2>2
<1>5. CASE dev.known /\ ~Restarted(dev, raw) /\ ~(raw < b /\ Wrapped(dev, raw))
  <2>1. StampTime(dev, raw) = a + raw - b
    BY <1>1, <1>5 DEF StampTime
  <2>2. raw < b => b - raw <= a
    BY <1>1, <1>5 DEF Restarted, Earlier
  <2> QED BY <1>2, <2>1, <2>2
<1> QED BY <1>1, <1>3, <1>4, <1>5 DEF DevType

\* A frame the adapter stamped leaves the host's window and the lists alone.
HardOnly(m, n) ==
  /\ n \in Meter /\ n.host = m.host /\ n.pending = m.pending /\ n.earlyTx = m.earlyTx
  /\ m.slip => n.slip
  /\ Balanced(m.hard.slots) => Balanced(n.hard.slots)

LEMMA AddHardwareIs ==
  ASSUME NEW m \in Meter, NEW raw \in Nat, NEW t \in Nat, NEW occ \in Cost
  PROVE  HardOnly(m, AddHardware(m, raw, t, occ))
<1> DEFINE n == AddHardware(m, raw, t, occ)
           aged  == IF m.dev.known THEN [m EXCEPT !.hard = Rotated(m.hard, HardwareNow(m.dev, t))]
                    ELSE m
           at    == StampTime(m.dev, raw)
           clock == IF Earlier(m.dev, raw) THEN m.dev
                    ELSE [known |-> TRUE, lastRaw |-> raw, last |-> at, lastHost |-> t]
           kept  == IF Restarted(m.dev, raw) THEN Unused ELSE aged.hard
           hard  == Rotated(kept, at)
           jump  == m.dev.known /\ Wrap > 0 /\ raw - m.dev.lastRaw > Wrap \div 2
           timed == [aged EXCEPT !.dev = clock, !.hard = hard, !.slip = aged.slip \/ jump]
           moved == [hard EXCEPT !.origin = at]
<1>1. n = IF at >= hard.origin
          THEN [timed EXCEPT !.hard = Added(timed.hard, at, occ), !.started = TRUE]
          ELSE IF Frames(hard) # 0 THEN Slip(timed)
          ELSE [timed EXCEPT !.hard = Added([timed.hard EXCEPT !.origin = at], at, occ), !.started = TRUE]
  BY DEF AddHardware
<1> HIDE DEF n
<1>2. m.dev \in DevType /\ m.hard \in WindowType /\ m.slip \in BOOLEAN
  BY DEF Meter
<1>3. at \in Nat
  BY <1>2, StampTimeTyped
<1>4. HardwareNow(m.dev, t) \in Nat
  <2>1. PICK a, b : a = m.dev.last /\ b = m.dev.lastHost
    OBVIOUS
  <2>2. a \in Nat /\ b \in Nat
    BY <1>2, <2>1 DEF DevType
  <2>3. HardwareNow(m.dev, t) = a + (IF t > b THEN t - b ELSE 0)
    BY <2>1 DEF HardwareNow
  <2> QED BY <2>2, <2>3
<1>5. /\ aged \in Meter /\ aged.host = m.host /\ aged.pending = m.pending
      /\ aged.earlyTx = m.earlyTx /\ aged.slip = m.slip
      /\ Balanced(m.hard.slots) => Balanced(aged.hard.slots)
  <2>1. PICK r : r = Rotated(m.hard, HardwareNow(m.dev, t))
    OBVIOUS
  <2>2. r \in WindowType /\ (Balanced(m.hard.slots) => Balanced(r.slots))
    <3>1. r \in WindowType
      BY <1>2, <1>4, <2>1, RotatedCases
    <3>2. Balanced(m.hard.slots) => Balanced(r.slots)
      BY <1>2, <1>4, <2>1, RotatedBalanced
    <3> QED BY <3>1, <3>2
  <2>3. aged = m \/ aged = [m EXCEPT !.hard = r]
    BY <2>1
  <2> HIDE DEF aged
  <2> QED BY <2>2, <2>3 DEF Meter
<1>6. clock \in DevType
  BY <1>2, <1>3 DEF DevType
<1> HIDE DEF aged, at, clock
<1>7. kept \in WindowType /\ (Balanced(m.hard.slots) => Balanced(kept.slots))
  <2>1. Unused \in WindowType /\ Balanced(Unused.slots)
    BY EmptyTyped DEF Unused, WindowType
  <2>2. aged.hard \in WindowType
    BY <1>5 DEF Meter
  <2> QED BY <1>5, <2>1, <2>2
<1> HIDE DEF kept
<1>8. hard \in WindowType /\ (Balanced(m.hard.slots) => Balanced(hard.slots))
  <2>1. hard \in WindowType
    BY <1>3, <1>7, RotatedCases
  <2>2. Balanced(kept.slots) => Balanced(hard.slots)
    BY <1>3, <1>7, RotatedBalanced
  <2> QED BY <1>7, <2>1, <2>2
<1> HIDE DEF hard
<1>9. jump \in BOOLEAN
  OBVIOUS
<1> HIDE DEF jump
<1>10. /\ timed \in Meter /\ timed.host = m.host /\ timed.pending = m.pending
       /\ timed.earlyTx = m.earlyTx /\ (m.slip => timed.slip) /\ timed.hard = hard
  BY <1>2, <1>5, <1>6, <1>8, <1>9 DEF Meter
<1> HIDE DEF timed
<1>11. moved \in WindowType /\ moved.slots = hard.slots
  BY <1>3, <1>8 DEF WindowType
<1> HIDE DEF moved
<1>12. ASSUME NEW u \in WindowType, u.slots = hard.slots, n = [timed EXCEPT !.hard = Added(u, at, occ), !.started = TRUE]
       PROVE  HardOnly(m, n)
  <2>1. PICK v : v = Added(u, at, occ)
    OBVIOUS
  <2>2. v \in WindowType /\ (Balanced(u.slots) => Balanced(v.slots))
    BY <1>3, <2>1, AddedTyped
  <2>3. n = [timed EXCEPT !.hard = v, !.started = TRUE]
    BY <1>12, <2>1
  <2>4. /\ n \in Meter /\ n.host = timed.host /\ n.pending = timed.pending
        /\ n.earlyTx = timed.earlyTx /\ n.slip = timed.slip /\ n.hard = v
    BY <1>10, <2>2, <2>3 DEF Meter
  <2> QED BY <1>8, <1>10, <1>12, <2>2, <2>4 DEF HardOnly
<1>13. ASSUME at >= hard.origin PROVE HardOnly(m, n)
  BY <1>1, <1>8, <1>10, <1>12, <1>13
<1>14. ASSUME ~(at >= hard.origin), Frames(hard) # 0 PROVE HardOnly(m, n)
  <2>1. n = Slip(timed)
    BY <1>1, <1>14
  <2> QED BY <1>8, <1>10, <2>1 DEF Slip, HardOnly, Meter
<1>15. ASSUME ~(at >= hard.origin), ~(Frames(hard) # 0) PROVE HardOnly(m, n)
  <2>1. n = [timed EXCEPT !.hard = Added(moved, at, occ), !.started = TRUE]
    BY <1>1, <1>10, <1>15 DEF moved
  <2> QED BY <1>11, <1>12, <2>1
<1> QED BY <1>13, <1>14, <1>15 DEF n

LEMMA ExpiredIs ==
  ASSUME NEW m \in Meter, NEW t \in Nat, NEW n, n = Expired(m, t)
  PROVE  /\ n \in Meter /\ n.host = m.host /\ n.hard = m.hard /\ n.dev = m.dev /\ n.slip = m.slip
         /\ n.pending = Fresh(m.pending, EchoTTL, t) /\ Len(n.pending) <= Len(m.pending)
         /\ n.earlyTx = Fresh(m.earlyTx, PendingTTL, t) /\ Len(n.earlyTx) <= Len(m.earlyTx)
<1>1. m.pending \in Seq(PendingTx) /\ m.earlyTx \in Seq(EarlyTx)
  BY DEF Meter
<1>2. PICK p, e : p = Fresh(m.pending, EchoTTL, t) /\ e = Fresh(m.earlyTx, PendingTTL, t)
  OBVIOUS
<1>3. p \in Seq(PendingTx) /\ Len(p) <= Len(m.pending)
  BY <1>1, <1>2, FreshTyped
<1>4. e \in Seq(EarlyTx) /\ Len(e) <= Len(m.earlyTx)
  BY <1>1, <1>2, FreshTyped
<1>5. n = [m EXCEPT !.pending = p, !.earlyTx = e]
  BY <1>2 DEF Expired
<1>6. /\ n \in Meter /\ n.host = m.host /\ n.hard = m.hard /\ n.dev = m.dev /\ n.slip = m.slip
      /\ n.pending = p /\ n.earlyTx = e
  BY <1>3, <1>4, <1>5 DEF Meter
<1> QED BY <1>2, <1>3, <1>4, <1>6

-----------------------------------------------------------------------------
\* The books of the host's window: each slot is what the pending transmissions counted in
\* it occupy, and a rest that is empty or is not.

Hit(p, w, i) == IF ~p.confirmed /\ p.at >= w.origin /\ Place(w, p.at) = i THEN p.occ ELSE 0
Charges(q, w, i) == [j \in 1..Len(q) |-> Hit(q[j], w, i)]
Books(w, q) == \A i \in Index : Column(Len(q), Charges(q, w, i), w.slots[i])

\* None of them is timed at the window's end or later.
Within(w, q) == \A j \in 1..Len(q) : ~q[j].confirmed => q[j].at - w.origin < Window

LEMMA ListTyped ==
  ASSUME NEW q \in Seq(PendingTx)
  PROVE  /\ Len(q) \in Nat
         /\ \A j \in 1..Len(q) : /\ q[j] \in PendingTx /\ q[j].at \in Nat /\ q[j].at # 0
                                 /\ q[j].occ \in Nat /\ q[j].occ # 0 /\ q[j].occ \in Cost
                                 /\ q[j].confirmed \in BOOLEAN /\ q[j].key \in Key
<1>1. \A j \in 1..Len(q) : q[j] \in PendingTx
  OBVIOUS
<1> QED BY <1>1 DEF PendingTx, Time, Cost

LEMMA ChargesTyped ==
  ASSUME NEW q \in Seq(PendingTx), NEW w, NEW i
  PROVE  /\ Charges(q, w, i) \in [1..Len(q) -> Nat]
         /\ \A j \in 1..Len(q) : Charges(q, w, i)[j] = Hit(q[j], w, i)
BY ListTyped DEF Charges, Hit

LEMMA BooksBalanced ==
  ASSUME NEW w, NEW q \in Seq(PendingTx), Books(w, q)
  PROVE  Balanced(w.slots)
<1> SUFFICES ASSUME NEW i \in Index PROVE w.slots[i].frames = 0 <=> w.slots[i].occupied = 0
  BY DEF Balanced
<1>1. Column(Len(q), Charges(q, w, i), w.slots[i]) /\ Len(q) \in Nat
      /\ Charges(q, w, i) \in [1..Len(q) -> Nat]
  BY ListTyped, ChargesTyped DEF Books
<1> QED BY <1>1, ColumnBalanced

\* Slots are disjoint.
LEMMA OneSlot ==
  ASSUME NEW a \in Nat, NEW b \in Nat, NEW d \in Nat,
         a * SlotLen <= d, d < a * SlotLen + SlotLen, b * SlotLen <= d
  PROVE  b <= a
<1> SUFFICES ASSUME ~(b <= a) PROVE FALSE
  OBVIOUS
<1>1. PICK c \in Nat : b = a + 1 + c
  <2>1. b - a - 1 \in Nat /\ b = a + 1 + (b - a - 1)
    OBVIOUS
  <2> QED BY <2>1
<1>2. b * SlotLen = a * SlotLen + SlotLen + c * SlotLen /\ c * SlotLen \in Nat
  BY <1>1, Slotted
<1>3. a * SlotLen \in Nat
  BY Slotted
<1>4. PICK x, y : x = a * SlotLen /\ y = c * SlotLen
  OBVIOUS
<1>5. x \in Nat /\ y \in Nat /\ d < x + SlotLen /\ x + SlotLen + y <= d
  BY <1>2, <1>3, <1>4
<1> QED BY <1>5, Slotted

\* Where a time is found after the window has moved by k slots.
LEMMA PlaceShift ==
  ASSUME NEW w \in WindowType, NEW r \in WindowType, NEW k \in Nat,
         r.origin = w.origin + k * SlotLen, NEW t \in Nat, t - w.origin < Window
  PROVE  /\ t >= r.origin => t >= w.origin /\ Place(w, t) = Place(r, t) + k
         /\ t >= w.origin /\ ~(t >= r.origin) => Place(w, t) < k
<1>0. PICK o, c, v : o = w.origin /\ c = k * SlotLen /\ v = r.origin
  OBVIOUS
<1>1. o \in Nat /\ c \in Nat /\ v = o + c /\ Window \in Nat /\ SlotLen \in Nat
  BY <1>0, Slotted DEF WindowType
<1>2. PICK x, y : x = Place(w, t) /\ y = Place(r, t)
  OBVIOUS
<1>3. x \in Nat /\ y \in Nat
  <2>1. x \in Index /\ y \in Index
    BY <1>2, PlaceIn
  <2> QED BY <2>1, Slotted DEF Index
<1>4. PICK a, b : a = x * SlotLen /\ b = y * SlotLen
  OBVIOUS
<1>5. a \in Nat /\ b \in Nat
  BY <1>3, <1>4, Slotted
<1>6. t >= o => a <= t - o /\ t - o < a + SlotLen
  <2> SUFFICES ASSUME t >= o PROVE a <= t - o /\ t - o < a + SlotLen
    OBVIOUS
  <2>1. t >= w.origin /\ t - w.origin < Window
    BY <1>0
  <2>2. Place(w, t) * SlotLen <= t - w.origin /\ t - w.origin < Place(w, t) * SlotLen + SlotLen
    BY <2>1, PlaceIn
  <2> QED BY <1>0, <1>2, <1>4, <2>2
<1>7. ASSUME t >= v PROVE t >= o /\ x = y + k
  <2>1. t >= o /\ t - v < Window
    BY <1>0, <1>1, <1>7
  <2>2. b <= t - v /\ t - v < b + SlotLen
    <3>1. t >= r.origin /\ t - r.origin < Window
      BY <1>0, <1>7, <2>1
    <3>2. Place(r, t) * SlotLen <= t - r.origin /\ t - r.origin < Place(r, t) * SlotLen + SlotLen
      BY <3>1, PlaceIn
    <3> QED BY <1>0, <1>2, <1>4, <3>2
  <2>3. (y + k) * SlotLen = b + c /\ y + k \in Nat
    BY <1>0, <1>3, <1>4, Slotted
  <2>4. PICK d : d = t - o
    OBVIOUS
  <2>5. d \in Nat /\ a <= d /\ d < a + SlotLen /\ b + c <= d /\ d < (b + c) + SlotLen
    BY <1>1, <1>5, <1>6, <2>1, <2>2, <2>4
  <2>6. x * SlotLen <= d /\ d < x * SlotLen + SlotLen
        /\ (y + k) * SlotLen <= d /\ d < (y + k) * SlotLen + SlotLen
    BY <1>4, <2>3, <2>5
  <2>7. y + k <= x
    BY <1>3, <2>3, <2>5, <2>6, OneSlot
  <2>8. x <= y + k
    BY <1>3, <2>3, <2>5, <2>6, OneSlot
  <2> QED BY <1>3, <2>1, <2>7, <2>8
<1>8. ASSUME t >= o, ~(t >= v) PROVE x < k
  <2> SUFFICES ASSUME ~(x < k) PROVE FALSE
    OBVIOUS
  <2>1. PICK e \in Nat : x = k + e
    <3>1. x - k \in Nat /\ x = k + (x - k)
      BY <1>3
    <3> QED BY <3>1
  <2>2. a = c + e * SlotLen /\ e * SlotLen \in Nat
    BY <1>0, <1>4, <2>1, Slotted
  <2>3. a <= t - o /\ t < o + c
    BY <1>1, <1>6, <1>8
  <2>4. PICK g : g = e * SlotLen
    OBVIOUS
  <2> QED BY <1>1, <2>2, <2>3, <2>4
<1> QED BY <1>0, <1>2, <1>7, <1>8

\* The window moves: what it still reaches keeps its slot, the rest is given up.
LEMMA BooksRotate ==
  ASSUME NEW w \in WindowType, NEW q \in Seq(PendingTx), NEW t \in Nat,
         w.origin # 0 \/ q = <<>>, Books(w, q), Within(w, q), NEW r, r = Rotated(w, t)
  PROVE  Books(r, q) /\ Within(r, q) /\ (w.origin # 0 => r.origin # 0) /\ (w.origin = 0 => r.origin = t)
<1>0. /\ Len(q) \in Nat /\ r \in WindowType /\ w.origin \in Nat /\ r.origin \in Nat
      /\ \A j \in 1..Len(q) : q[j].at \in Nat
  BY ListTyped, RotatedCases DEF WindowType
<1>1. CASE w.origin = 0
  <2>1. r.origin = t /\ r.slots = w.slots /\ q = <<>> /\ Len(q) = 0
    BY <1>1, RotatedCases
  <2>2. Balanced(r.slots)
    BY <2>1, BooksBalanced
  <2>3. ASSUME NEW i \in Index PROVE Column(Len(q), Charges(q, r, i), r.slots[i])
    <3>1. r.slots[i] \in Slot /\ (r.slots[i].frames = 0 <=> r.slots[i].occupied = 0)
      BY <1>0, <2>2 DEF WindowType, Balanced
    <3>2. Charges(q, r, i) \in [1..Len(q) -> Nat]
      BY ChargesTyped
    <3>3. \A j \in 1..Len(q) : Charges(q, r, i)[j] = 0
      BY <2>1
    <3> QED BY <1>0, <3>1, <3>2, <3>3, ColumnPlain
  <2> QED BY <1>1, <2>1, <2>3 DEF Books, Within
<1>2. CASE w.origin # 0 /\ t - w.origin <= Window
  <2>1. r = w
    BY <1>2, RotatedCases
  <2> QED BY <1>2, <2>1
<1>3. CASE w.origin # 0 /\ t - w.origin > Window
  <2>1. CASE r = [origin |-> t, slots |-> Empty]
    <3>0. r.origin = t /\ r.slots = Empty /\ Balanced(Empty)
      BY <2>1, EmptyTyped
    <3>1. ASSUME NEW j \in 1..Len(q), ~q[j].confirmed PROVE q[j].at < t
      <4>1. PICK a, o : a = q[j].at /\ o = w.origin
        OBVIOUS
      <4>2. a \in Nat /\ o \in Nat /\ a - o < Window /\ t - o > Window /\ Window \in Nat
        BY <1>0, <1>3, <3>1, <4>1, Slotted DEF Within
      <4> QED BY <4>1, <4>2
    <3>2. ASSUME NEW i \in Index PROVE Column(Len(q), Charges(q, r, i), r.slots[i])
      <4>1. r.slots[i] \in Slot /\ (r.slots[i].frames = 0 <=> r.slots[i].occupied = 0)
        BY <1>0, <3>0 DEF WindowType, Balanced
      <4>2. ASSUME NEW j \in 1..Len(q) PROVE Hit(q[j], r, i) = 0
        <5>1. ~q[j].confirmed => ~(q[j].at >= r.origin)
          BY <1>0, <3>0, <3>1
        <5> QED BY <5>1 DEF Hit
      <4>3. Charges(q, r, i) \in [1..Len(q) -> Nat] /\ \A j \in 1..Len(q) : Charges(q, r, i)[j] = 0
        BY <4>2, ChargesTyped
      <4> QED BY <1>0, <4>1, <4>3, ColumnPlain
    <3>3. Within(r, q)
      <4>1. ASSUME NEW j \in 1..Len(q), ~q[j].confirmed PROVE q[j].at - r.origin < Window
        <5>1. PICK a, o : a = q[j].at /\ o = r.origin
          OBVIOUS
        <5>2. a \in Nat /\ o \in Nat /\ a < o /\ Window \in Nat /\ Window > 0
          <6>1. Window > 0
            BY Slotted
          <6> QED BY <1>0, <3>0, <3>1, <4>1, <5>1, <6>1, Slotted
        <5> QED BY <5>1, <5>2
      <4> QED BY <4>1 DEF Within
    <3>4. r.origin # 0
      BY <1>0, <1>3, <3>0, Slotted
    <3> QED BY <1>3, <3>2, <3>3, <3>4 DEF Books
  <2>2. CASE \E k \in 0..(Slots - 1) :
                   /\ r.origin = w.origin + k * SlotLen
                   /\ k * SlotLen >= t - w.origin - Window
                   /\ \A i \in Index : r.slots[i] = IF i + k < Slots THEN w.slots[i + k] ELSE Empty[i]
    <3> PICK k \in 0..(Slots - 1) :
                   /\ r.origin = w.origin + k * SlotLen
                   /\ \A i \in Index : r.slots[i] = IF i + k < Slots THEN w.slots[i + k] ELSE Empty[i]
      BY <2>2
    <3>1. k \in Nat /\ k * SlotLen \in Nat /\ r.origin >= w.origin
      <4>1. k * SlotLen \in Nat
        BY Slotted
      <4> QED BY <1>0, <4>1
    <3>2. ASSUME NEW i \in Index, NEW j \in 1..Len(q)
          PROVE  Hit(q[j], r, i) = IF i + k < Slots THEN Hit(q[j], w, i + k) ELSE 0
      <4>1. PICK p : p = q[j]
        OBVIOUS
      <4>2. p.at \in Nat /\ (~p.confirmed => p.at - w.origin < Window)
        BY <1>0, <4>1 DEF Within
      <4>3. CASE p.confirmed
        BY <4>1, <4>3 DEF Hit
      <4>4. CASE ~p.confirmed
        <5>1. PICK x, y : x = Place(w, p.at) /\ y = Place(r, p.at)
          OBVIOUS
        <5>2. /\ p.at >= r.origin => p.at >= w.origin /\ x = y + k
              /\ p.at >= w.origin /\ ~(p.at >= r.origin) => x < k
          BY <1>0, <3>1, <4>2, <4>4, <5>1, PlaceShift
        <5>3. x \in 0..(Slots - 1) /\ y \in 0..(Slots - 1) /\ i \in 0..(Slots - 1)
          <6>1. x \in Index /\ y \in Index
            BY <1>0, <4>2, <5>1, PlaceIn
          <6> QED BY <6>1 DEF Index
        <5>4. p.at >= r.origin /\ y = i <=> p.at >= w.origin /\ x = i + k
          BY <3>1, <5>2, <5>3, Slotted
        <5>5. p.at >= w.origin /\ x = i + k => i + k < Slots
          BY <5>3, Slotted
        <5>6. Hit(p, r, i) = IF p.at >= r.origin /\ y = i THEN p.occ ELSE 0
          BY <4>4, <5>1 DEF Hit
        <5>7. Hit(p, w, i + k) = IF p.at >= w.origin /\ x = i + k THEN p.occ ELSE 0
          BY <4>4, <5>1 DEF Hit
        <5> QED BY <4>1, <5>4, <5>5, <5>6, <5>7
      <4> QED BY <4>3, <4>4
    <3>3. ASSUME NEW i \in Index PROVE Column(Len(q), Charges(q, r, i), r.slots[i])
      <4>1. CASE i + k < Slots
        <5>1. i + k \in Index
          BY <3>1, <4>1, Slotted DEF Index
        <5>2. Charges(q, r, i) = Charges(q, w, i + k)
          BY <3>2, <4>1 DEF Charges
        <5> QED BY <4>1, <5>1, <5>2 DEF Books
      <4>2. CASE ~(i + k < Slots)
        <5>1. r.slots[i] = Empty[i] /\ r.slots[i] \in Slot
              /\ (r.slots[i].frames = 0 <=> r.slots[i].occupied = 0)
          BY <4>2, EmptyTyped DEF Balanced
        <5>2. Charges(q, r, i) \in [1..Len(q) -> Nat] /\ \A j \in 1..Len(q) : Charges(q, r, i)[j] = 0
          BY <3>2, <4>2, ChargesTyped
        <5> QED BY <1>0, <5>1, <5>2, ColumnPlain
      <4> QED BY <4>1, <4>2
    <3>4. Within(r, q)
      <4>1. ASSUME NEW j \in 1..Len(q), ~q[j].confirmed PROVE q[j].at - r.origin < Window
        <5>1. PICK a, o, v : a = q[j].at /\ o = w.origin /\ v = r.origin
          OBVIOUS
        <5>2. a \in Nat /\ o \in Nat /\ v \in Nat /\ o <= v /\ a - o < Window /\ Window \in Nat
          BY <1>0, <3>1, <4>1, <5>1, Slotted DEF Within
        <5> QED BY <5>1, <5>2
      <4> QED BY <4>1 DEF Within
    <3>5. r.origin # 0
      BY <1>0, <1>3, <3>1
    <3> QED BY <1>3, <3>3, <3>4, <3>5 DEF Books
  <2> QED BY <1>3, <2>1, <2>2, RotatedCases
<1>4. t - w.origin <= Window \/ t - w.origin > Window
  BY <1>0, Slotted
<1> QED BY <1>1, <1>2, <1>3, <1>4

\* The oldest transmissions expire.
LEMMA BooksDrop ==
  ASSUME NEW w, NEW q \in Seq(PendingTx), Books(w, q), Within(w, q),
         NEW u \in Seq(PendingTx), NEW k \in 0..Len(q), Dropped(u, q, Len(q), k)
  PROVE  Books(w, u) /\ Within(w, u)
<1>0. Len(q) \in Nat /\ Len(u) = Len(q) - k /\ \A j \in 1..(Len(q) - k) : u[j] = q[k + j]
  BY ListTyped DEF Dropped
<1>1. ASSUME NEW i \in Index PROVE Column(Len(u), Charges(u, w, i), w.slots[i])
  <2> DEFINE c == Charges(q, w, i)
             e == Charges(u, w, i)
  <2>1. c \in [1..Len(q) -> Nat] /\ \A j \in 1..Len(q) : c[j] = Hit(q[j], w, i)
    BY ChargesTyped
  <2>2. e \in [1..Len(u) -> Nat] /\ \A j \in 1..Len(u) : e[j] = Hit(u[j], w, i)
    BY ChargesTyped
  <2>3. Column(Len(q), c, w.slots[i])
    BY DEF Books
  <2> HIDE DEF c, e
  <2>4. ASSUME NEW j \in 1..(Len(q) - k) PROVE e[j] = c[k + j]
    <3>1. k + j \in 1..Len(q) /\ j \in 1..Len(u)
      BY <1>0
    <3> QED BY <1>0, <2>1, <2>2, <3>1
  <2>5. e \in [1..(Len(q) - k) -> Nat]
    BY <1>0, <2>2
  <2>6. Column(Len(q) - k, e, w.slots[i])
    BY <1>0, <2>1, <2>3, <2>4, <2>5, ColumnDrop
  <2> QED BY <1>0, <2>6 DEF e
<1>2. ASSUME NEW j \in 1..Len(u), ~u[j].confirmed PROVE u[j].at - w.origin < Window
  <2>1. k + j \in 1..Len(q) /\ j \in 1..(Len(q) - k)
    BY <1>0
  <2> QED BY <1>0, <1>2, <2>1 DEF Within
<1> QED BY <1>1, <1>2 DEF Books, Within

\* A frame is counted that no pending transmission stands for.
LEMMA BooksForeign ==
  ASSUME NEW w \in WindowType, NEW q \in Seq(PendingTx), Books(w, q), Within(w, q),
         NEW t \in Nat, NEW occ \in Cost, NEW a, a = Added(w, t, occ)
  PROVE  Books(a, q) /\ Within(a, q) /\ a.origin = w.origin
<1>1. /\ a.origin = w.origin
      /\ \A i \in Index : a.slots[i] =
              IF i = Place(w, t)
              THEN [occupied |-> w.slots[i].occupied + occ, frames |-> w.slots[i].frames + 1]
              ELSE w.slots[i]
  BY AddedTyped
<1>2. ASSUME NEW i \in Index PROVE Column(Len(q), Charges(q, a, i), a.slots[i])
  <2>1. Charges(q, a, i) = Charges(q, w, i)
    BY <1>1 DEF Charges, Hit, Place
  <2>2. /\ Len(q) \in Nat /\ Charges(q, w, i) \in [1..Len(q) -> Nat] /\ w.slots[i] \in Slot
        /\ Column(Len(q), Charges(q, w, i), w.slots[i])
    BY ListTyped, ChargesTyped DEF Books, WindowType
  <2>3. CASE i = Place(w, t)
    <3>0. a.slots[i] = [occupied |-> w.slots[i].occupied + occ, frames |-> w.slots[i].frames + 1]
      BY <1>1, <2>3
    <3>1. a.slots[i].occupied = w.slots[i].occupied + occ /\ a.slots[i].frames = w.slots[i].frames + 1
      BY <3>0
    <3>2. Column(Len(q), Charges(q, w, i), a.slots[i])
      BY <2>2, <3>1, ColumnForeign
    <3> QED BY <2>1, <3>2
  <2>4. CASE i # Place(w, t)
    BY <1>1, <2>1, <2>2, <2>4
  <2> QED BY <2>3, <2>4
<1> QED BY <1>1, <1>2 DEF Books, Within

\* A transmission is counted and joins the list.
LEMMA BooksAppend ==
  ASSUME NEW w \in WindowType, NEW q \in Seq(PendingTx), Books(w, q), Within(w, q),
         NEW p \in PendingTx, ~p.confirmed, p.at >= w.origin, p.at - w.origin < Window,
         NEW a, a = Added(w, p.at, p.occ), NEW u, u = Append(q, p)
  PROVE  Books(a, u) /\ Within(a, u)
<1>0. p.at \in Nat /\ p.occ \in Cost /\ p.occ \in Nat /\ p.occ # 0
  BY DEF PendingTx, Time, Cost
<1>1. /\ a.origin = w.origin
      /\ \A i \in Index : a.slots[i] =
              IF i = Place(w, p.at)
              THEN [occupied |-> w.slots[i].occupied + p.occ, frames |-> w.slots[i].frames + 1]
              ELSE w.slots[i]
  BY <1>0, AddedTyped
<1>2. /\ u \in Seq(PendingTx) /\ Len(u) = Len(q) + 1 /\ Len(q) \in Nat
      /\ u[Len(q) + 1] = p /\ \A i \in 1..Len(q) : u[i] = q[i]
  BY AppendShape
<1>3. ASSUME NEW i \in Index PROVE Column(Len(u), Charges(u, a, i), a.slots[i])
  <2> DEFINE c == Charges(q, w, i)
             e == Charges(u, a, i)
  <2>1. c \in [1..Len(q) -> Nat] /\ \A j \in 1..Len(q) : c[j] = Hit(q[j], w, i)
    BY ChargesTyped
  <2>2. e \in [1..Len(u) -> Nat] /\ \A j \in 1..Len(u) : e[j] = Hit(u[j], a, i)
    <3>1. u \in Seq(PendingTx)
      BY <1>2
    <3>2. e \in [1..Len(u) -> Nat]
      BY <3>1, ChargesTyped
    <3>3. \A j \in 1..Len(u) : e[j] = Hit(u[j], a, i)
      BY DEF Charges
    <3> QED BY <3>2, <3>3
  <2>3. Column(Len(q), c, w.slots[i]) /\ w.slots[i] \in Slot
    BY DEF Books, WindowType
  <2> HIDE DEF c, e
  <2>4. \A z : Hit(z, a, i) = Hit(z, w, i)
    BY <1>1 DEF Hit, Place
  <2>5. \A j \in 1..Len(q) : e[j] = c[j]
    <3> SUFFICES ASSUME NEW j \in 1..Len(q) PROVE e[j] = c[j]
      OBVIOUS
    <3>1. j \in 1..Len(u)
      BY <1>2
    <3> QED BY <1>2, <2>1, <2>2, <2>4, <3>1
  <2>6. e[Len(q) + 1] = IF Place(w, p.at) = i THEN p.occ ELSE 0
    <3>1. Len(q) + 1 \in 1..Len(u)
      BY <1>2
    <3>2. e[Len(q) + 1] = Hit(p, w, i)
      BY <1>2, <2>2, <2>4, <3>1
    <3> QED BY <3>2 DEF Hit
  <2>7. e \in [1..(Len(q) + 1) -> Nat]
    BY <1>2, <2>2
  <2>8. /\ a.slots[i].occupied = w.slots[i].occupied + e[Len(q) + 1]
        /\ a.slots[i].frames = w.slots[i].frames + (IF e[Len(q) + 1] = 0 THEN 0 ELSE 1)
    <3>1. w.slots[i].occupied \in Nat /\ w.slots[i].frames \in Nat
      BY <2>3 DEF Slot
    <3>2. CASE i = Place(w, p.at)
      <4>1. a.slots[i] = [occupied |-> w.slots[i].occupied + p.occ, frames |-> w.slots[i].frames + 1]
        BY <1>1, <3>2
      <4>2. e[Len(q) + 1] = p.occ
        BY <2>6, <3>2
      <4> QED BY <1>0, <4>1, <4>2
    <3>3. CASE i # Place(w, p.at)
      <4>1. a.slots[i] = w.slots[i]
        BY <1>1, <3>3
      <4>2. e[Len(q) + 1] = 0
        BY <2>6, <3>3
      <4> QED BY <3>1, <4>1, <4>2
    <3> QED BY <3>2, <3>3
  <2>9. Column(Len(q) + 1, e, a.slots[i])
    BY <1>2, <2>1, <2>3, <2>5, <2>7, <2>8, ColumnAppend
  <2> QED BY <1>2, <2>9 DEF e
<1>4. ASSUME NEW j \in 1..Len(u), ~u[j].confirmed PROVE u[j].at - a.origin < Window
  <2>1. CASE j \in 1..Len(q)
    BY <1>1, <1>2, <1>4, <2>1 DEF Within
  <2>2. CASE j = Len(q) + 1
    BY <1>1, <1>2, <2>2
  <2> QED BY <1>2, <2>1, <2>2
<1> QED BY <1>3, <1>4 DEF Books, Within

\* q with its d-th transmission confirmed.
Confirmed(q, d) == [q EXCEPT ![d].confirmed = TRUE]

LEMMA ConfirmedTyped ==
  ASSUME NEW q \in Seq(PendingTx), NEW d \in 1..Len(q)
  PROVE  /\ Confirmed(q, d) \in Seq(PendingTx) /\ Len(Confirmed(q, d)) = Len(q)
         /\ Confirmed(q, d)[d].confirmed /\ \A j \in 1..Len(q) : j # d => Confirmed(q, d)[j] = q[j]
         /\ \A j \in 1..Len(q) : Confirmed(q, d)[j].at = q[j].at
<1>1. q[d] \in PendingTx
  OBVIOUS
<1>2. PICK x : x = [q[d] EXCEPT !.confirmed = TRUE]
  OBVIOUS
<1>3. x \in PendingTx /\ x.confirmed /\ x.at = q[d].at
  BY <1>1, <1>2 DEF PendingTx
<1>4. Confirmed(q, d) = [q EXCEPT ![d] = x]
  BY <1>2 DEF Confirmed
<1> QED BY <1>3, <1>4

\* What the slots charge once it is confirmed.
LEMMA ChargesConfirmed ==
  ASSUME NEW q \in Seq(PendingTx), NEW d \in 1..Len(q), NEW w, NEW v, v.origin = w.origin, NEW i
  PROVE  \A j \in 1..Len(q) : Charges(Confirmed(q, d), v, i)[j] =
                              IF j = d THEN 0 ELSE Charges(q, w, i)[j]
<1> SUFFICES ASSUME NEW j \in 1..Len(q)
             PROVE  Charges(Confirmed(q, d), v, i)[j] = IF j = d THEN 0 ELSE Charges(q, w, i)[j]
  OBVIOUS
<1>1. Confirmed(q, d) \in Seq(PendingTx) /\ j \in 1..Len(Confirmed(q, d))
  BY ConfirmedTyped
<1>2. Charges(Confirmed(q, d), v, i)[j] = Hit(Confirmed(q, d)[j], v, i)
  BY <1>1, ChargesTyped
<1>3. Charges(q, w, i)[j] = Hit(q[j], w, i)
  BY ChargesTyped
<1>4. \A z : Hit(z, v, i) = Hit(z, w, i)
  BY DEF Hit, Place
<1>5. CASE j = d
  <2>1. Confirmed(q, d)[j].confirmed
    BY <1>5, ConfirmedTyped
  <2> QED BY <1>2, <1>5, <2>1 DEF Hit
<1>6. CASE j # d
  <2>1. Confirmed(q, d)[j] = q[j]
    BY <1>6, ConfirmedTyped
  <2> QED BY <1>2, <1>3, <1>4, <1>6, <2>1
<1> QED BY <1>5, <1>6

LEMMA WithinConfirmed ==
  ASSUME NEW q \in Seq(PendingTx), NEW d \in 1..Len(q), NEW w, NEW v, v.origin = w.origin, Within(w, q)
  PROVE  Within(v, Confirmed(q, d))
<1> SUFFICES ASSUME NEW j \in 1..Len(Confirmed(q, d)), ~Confirmed(q, d)[j].confirmed
             PROVE  Confirmed(q, d)[j].at - v.origin < Window
  BY DEF Within
<1>1. j \in 1..Len(q) /\ j # d
  BY ConfirmedTyped
<1>2. Confirmed(q, d)[j] = q[j]
  BY <1>1, ConfirmedTyped
<1> QED BY <1>1, <1>2 DEF Within

\* It is confirmed by an echo without a stamp: it stays where it is counted.
LEMMA BooksKeep ==
  ASSUME NEW w \in WindowType, NEW q \in Seq(PendingTx), NEW d \in 1..Len(q),
         Books(w, q), Within(w, q)
  PROVE  Books(w, Confirmed(q, d)) /\ Within(w, Confirmed(q, d))
<1>0. Len(q) \in Nat /\ Confirmed(q, d) \in Seq(PendingTx) /\ Len(Confirmed(q, d)) = Len(q)
  BY ListTyped, ConfirmedTyped
<1>1. ASSUME NEW i \in Index
      PROVE  Column(Len(q), Charges(Confirmed(q, d), w, i), w.slots[i])
  <2> DEFINE c == Charges(q, w, i)
             e == Charges(Confirmed(q, d), w, i)
             s == w.slots[i]
  <2>1. c \in [1..Len(q) -> Nat]
    BY ChargesTyped
  <2>2. e \in [1..Len(q) -> Nat]
    BY <1>0, ChargesTyped
  <2>3. \A j \in 1..Len(q) : e[j] = IF j = d THEN 0 ELSE c[j]
    <3>1. PICK v : v = w
      OBVIOUS
    <3>2. v.origin = w.origin
      BY <3>1
    <3>3. \A j \in 1..Len(q) : Charges(Confirmed(q, d), v, i)[j] = IF j = d THEN 0 ELSE Charges(q, w, i)[j]
      BY <3>2, ChargesConfirmed
    <3> QED BY <3>1, <3>3
  <2>4. Column(Len(q), c, s) /\ s \in Slot
    BY DEF Books, WindowType
  <2> HIDE DEF c, e, s
  <2>5. CASE c[d] = 0
    <3>1. e = c
      BY <2>1, <2>2, <2>3, <2>5
    <3> QED BY <2>4, <3>1 DEF e, s
  <2>6. CASE c[d] # 0
    <3>1. /\ s.frames # 0 /\ s.occupied >= c[d]
          /\ \A z : z.occupied = s.occupied - c[d] /\ z.frames = s.frames - 1 => Column(Len(q), e, z)
      BY <1>0, <2>1, <2>2, <2>3, <2>4, <2>6, ColumnTake
    <3>2. PICK x, a, b : x = c[d] /\ a = s.occupied /\ b = s.frames
      OBVIOUS
    <3>3. x \in Nat /\ x # 0 /\ a \in Nat /\ b \in Nat /\ b # 0 /\ a >= x
      BY <2>1, <2>4, <2>6, <3>1, <3>2 DEF Slot
    <3> DEFINE z == [occupied |-> a - x, frames |-> b - 1]
    <3>4. z \in Slot /\ z.occupied = a - x /\ z.frames = b - 1
      BY <3>3 DEF Slot
    <3>5. a = z.occupied + x /\ b = z.frames + 1 /\ x \in Cost
      BY <3>3, <3>4 DEF Cost
    <3> HIDE DEF z
    <3>6. Column(Len(q), e, z)
      BY <3>1, <3>2, <3>4
    <3>7. Column(Len(q), e, s)
      BY <1>0, <2>2, <3>2, <3>4, <3>5, <3>6, ColumnForeign
    <3> QED BY <3>7 DEF e, s
  <2> QED BY <2>5, <2>6
<1>2. Within(w, Confirmed(q, d))
  BY WithinConfirmed
<1> QED BY <1>0, <1>1, <1>2 DEF Books

\* It leaves the list once it is confirmed.
LEMMA RemoveAtIs ==
  ASSUME NEW S, NEW q \in Seq(S), NEW d \in 1..Len(q)
  PROVE  /\ RemoveAt(q, d) \in Seq(S) /\ Len(RemoveAt(q, d)) = Len(q) - 1
         /\ \A j \in 1..(Len(q) - 1) : RemoveAt(q, d)[j] = q[IF j < d THEN j ELSE j + 1]
<1>0. Len(q) \in Nat /\ d \in Nat /\ d >= 1 /\ d <= Len(q)
  OBVIOUS
<1>1. PICK a, b : a = SubSeq(q, 1, d - 1) /\ b = SubSeq(q, d + 1, Len(q))
  OBVIOUS
<1>2. a \in Seq(S) /\ Len(a) = d - 1 /\ \A j \in 1..(d - 1) : a[j] = q[j]
  <2>1. \A j \in 1..(d - 1) : q[j] \in S
    OBVIOUS
  <2> QED BY <1>0, <1>1, <2>1
<1>3. b \in Seq(S) /\ Len(b) = Len(q) - d /\ \A j \in 1..(Len(q) - d) : b[j] = q[d + j]
  <2>1. \A j \in (d + 1)..Len(q) : q[j] \in S
    OBVIOUS
  <2>2. b \in Seq(S) /\ Len(b) = Len(q) - d
    BY <1>0, <1>1, <2>1
  <2>3. ASSUME NEW j \in 1..(Len(q) - d) PROVE b[j] = q[d + j]
    <3>1. b[j] = q[(d + 1) + j - 1]
      BY <1>0, <1>1
    <3>2. (d + 1) + j - 1 = d + j
      OBVIOUS
    <3> QED BY <3>1, <3>2
  <2> QED BY <2>2, <2>3
<1>4. RemoveAt(q, d) = a \o b
  BY <1>1 DEF RemoveAt
<1>5. a \o b \in Seq(S) /\ Len(a \o b) = Len(q) - 1
  <2>1. a \in Seq(S) /\ b \in Seq(S)
    BY <1>2, <1>3
  <2>2. a \o b \in Seq(S) /\ Len(a \o b) = Len(a) + Len(b)
    BY <2>1
  <2>3. Len(a) + Len(b) = Len(q) - 1
    BY <1>0, <1>2, <1>3
  <2> QED BY <2>2, <2>3
<1>6. ASSUME NEW j \in 1..(Len(q) - 1) PROVE (a \o b)[j] = q[IF j < d THEN j ELSE j + 1]
  <2>1. CASE j < d
    <3>1. j \in 1..Len(a) /\ j \in 1..(d - 1)
      BY <1>0, <1>2, <2>1
    <3>2. (a \o b)[j] = a[j]
      BY <1>2, <1>3, <3>1
    <3> QED BY <1>2, <2>1, <3>1, <3>2
  <2>2. CASE ~(j < d)
    <3>1. j - Len(a) \in 1..Len(b) /\ j - Len(a) = j - d + 1 /\ j - Len(a) \in 1..(Len(q) - d)
      BY <1>0, <1>2, <1>3, <2>2
    <3>2. (a \o b)[j] = b[j - Len(a)]
      <4>1. a \in Seq(S) /\ b \in Seq(S) /\ j \in (Len(a) + 1)..(Len(a) + Len(b))
        BY <1>0, <1>2, <1>3, <2>2
      <4> QED BY <4>1
    <3>3. b[j - Len(a)] = q[d + (j - Len(a))] /\ d + (j - Len(a)) = j + 1
      BY <1>0, <1>3, <3>1
    <3> QED BY <2>2, <3>2, <3>3
  <2> QED BY <2>1, <2>2
<1> QED BY <1>4, <1>5, <1>6

LEMMA BooksSkip ==
  ASSUME NEW w \in WindowType, NEW q \in Seq(PendingTx), NEW d \in 1..Len(q), q[d].confirmed,
         Books(w, q), Within(w, q), NEW u, u = RemoveAt(q, d)
  PROVE  Books(w, u) /\ Within(w, u)
<1>0. /\ Len(q) \in Nat /\ u \in Seq(PendingTx) /\ Len(u) = Len(q) - 1
      /\ \A j \in 1..(Len(q) - 1) : u[j] = q[IF j < d THEN j ELSE j + 1]
  BY ListTyped, RemoveAtIs
<1>0a. \A j \in 1..(Len(q) - 1) : (IF j < d THEN j ELSE j + 1) \in 1..Len(q)
  BY <1>0
<1>1. ASSUME NEW i \in Index PROVE Column(Len(u), Charges(u, w, i), w.slots[i])
  <2> DEFINE c == Charges(q, w, i)
             e == Charges(u, w, i)
  <2>1. c \in [1..Len(q) -> Nat] /\ \A j \in 1..Len(q) : c[j] = Hit(q[j], w, i)
    BY ChargesTyped
  <2>2. e \in [1..Len(u) -> Nat] /\ \A j \in 1..Len(u) : e[j] = Hit(u[j], w, i)
    BY <1>0, ChargesTyped
  <2>3. Column(Len(q), c, w.slots[i])
    BY DEF Books
  <2> HIDE DEF c, e
  <2>4. c[d] = 0
    BY <2>1 DEF Hit
  <2>5. \A j \in 1..(Len(q) - 1) : e[j] = c[IF j < d THEN j ELSE j + 1]
    BY <1>0, <1>0a, <2>1, <2>2
  <2>6. e \in [1..(Len(q) - 1) -> Nat]
    BY <1>0, <2>2
  <2>7. Column(Len(q) - 1, e, w.slots[i])
    <3>1. PICK n, s : n = Len(q) /\ s = w.slots[i]
      OBVIOUS
    <3>2. n \in Nat /\ c \in [1..n -> Nat] /\ Column(n, c, s) /\ d \in 1..n /\ c[d] = 0
      BY <1>0, <2>1, <2>3, <2>4, <3>1
    <3>3. e \in [1..(n - 1) -> Nat] /\ \A j \in 1..(n - 1) : e[j] = c[IF j < d THEN j ELSE j + 1]
      BY <2>5, <2>6, <3>1
    <3>4. Column(n - 1, e, s)
      BY <3>2, <3>3, ColumnSkip
    <3> QED BY <3>1, <3>4
  <2> QED BY <1>0, <2>7 DEF e
<1>2. ASSUME NEW j \in 1..Len(u), ~u[j].confirmed PROVE u[j].at - w.origin < Window
  <2>1. j \in 1..(Len(q) - 1)
    BY <1>0
  <2> QED BY <1>0, <1>0a, <1>2, <2>1 DEF Within
<1> QED BY <1>1, <1>2 DEF Books, Within

\* Its echo was stamped: it is taken out of the very slot it was counted in.
LEMMA BooksRetire ==
  ASSUME NEW q \in Seq(PendingTx), NEW d \in 1..Len(q), ~q[d].confirmed,
         NEW m \in Meter, m.host.origin # 0, Books(m.host, q), Within(m.host, q),
         NEW p, p.at = q[d].at, p.occ = q[d].occ, NEW n, n = RemoveHost(m, p)
  PROVE  Books(n.host, Confirmed(q, d)) /\ Within(n.host, Confirmed(q, d))
         /\ n.host.origin = m.host.origin
<1>0. /\ Len(q) \in Nat /\ Confirmed(q, d) \in Seq(PendingTx) /\ Len(Confirmed(q, d)) = Len(q)
      /\ p.at \in Nat /\ p.occ \in Cost /\ p.occ # 0
  BY ListTyped, ConfirmedTyped
<1>1. m.host \in WindowType /\ m.host.origin \in Nat /\ Rotated(m.host, p.at) = m.host
  <2>1. m.host \in WindowType
    BY DEF Meter
  <2>2. PICK a, o : a = p.at /\ o = m.host.origin
    OBVIOUS
  <2>3. a \in Nat /\ o \in Nat /\ a - o < Window
    BY <1>0, <2>1, <2>2 DEF Within, WindowType
  <2>4. a - o <= Window
    BY <2>3, Slotted
  <2>5. Rotated(m.host, p.at) = m.host
    BY <1>0, <2>1, <2>2, <2>3, <2>4, RotatedCases
  <2> QED BY <2>1, <2>2, <2>3, <2>5
<1>2. \E i \in Index :
        /\ i = Place(m.host, p.at)
        /\ p.at < m.host.origin \/ m.host.slots[i].frames = 0 \/ m.host.slots[i].occupied < p.occ
             => n.host = m.host
        /\ ~(p.at < m.host.origin \/ m.host.slots[i].frames = 0 \/ m.host.slots[i].occupied < p.occ)
             => n.host.origin = m.host.origin /\ n.host.slots = Taken(m.host, i, p.occ)
  BY <1>0, <1>1, RemoveInPlace
<1>3. PICK w, i :
        /\ w = m.host /\ i \in Index /\ i = Place(w, p.at)
        /\ p.at < w.origin \/ w.slots[i].frames = 0 \/ w.slots[i].occupied < p.occ => n.host = w
        /\ ~(p.at < w.origin \/ w.slots[i].frames = 0 \/ w.slots[i].occupied < p.occ)
             => n.host.origin = w.origin /\ n.host.slots = Taken(w, i, p.occ)
  BY <1>2
<1>4. n.host.origin = w.origin
  BY <1>3
<1>5. ASSUME NEW k \in Index
      PROVE  Column(Len(q), Charges(Confirmed(q, d), n.host, k), n.host.slots[k])
  <2> DEFINE c == Charges(q, w, k)
             e == Charges(Confirmed(q, d), n.host, k)
             s == w.slots[k]
  <2>1. c \in [1..Len(q) -> Nat] /\ c[d] = Hit(q[d], w, k)
    BY ChargesTyped
  <2>2. e \in [1..Len(q) -> Nat]
    BY <1>0, ChargesTyped
  <2>3. \A j \in 1..Len(q) : e[j] = IF j = d THEN 0 ELSE c[j]
    BY <1>4, ChargesConfirmed
  <2>4. Column(Len(q), c, s) /\ s \in Slot
    BY <1>1, <1>3 DEF Books, WindowType
  <2>5. c[d] = IF p.at >= w.origin /\ i = k THEN p.occ ELSE 0
    BY <1>3, <2>1 DEF Hit
  <2> HIDE DEF c, e, s
  <2>6. CASE c[d] = 0
    <3>1. e = c
      BY <2>1, <2>2, <2>3, <2>6
    <3>2. p.at < w.origin \/ i # k
      BY <1>0, <1>1, <1>3, <2>5, <2>6
    <3>3. n.host.slots[k] = s
      <4>1. CASE n.host = w
        BY <4>1 DEF s
      <4>2. CASE ~(n.host = w)
        <5>1. n.host.slots = Taken(w, i, p.occ) /\ i # k
          BY <1>3, <3>2, <4>2
        <5> QED BY <1>1, <1>3, <5>1 DEF Taken, s, WindowType
      <4> QED BY <4>1, <4>2
    <3> QED BY <2>4, <3>1, <3>3 DEF e
  <2>7. CASE c[d] # 0
    <3>1. p.at >= w.origin /\ i = k /\ c[d] = p.occ
      BY <2>5, <2>7
    <3>2. /\ s.frames # 0 /\ s.occupied >= c[d]
          /\ \A z : z.occupied = s.occupied - c[d] /\ z.frames = s.frames - 1 => Column(Len(q), e, z)
      BY <1>0, <2>1, <2>2, <2>3, <2>4, <2>7, ColumnTake
    <3>3. ~(s.occupied < p.occ) /\ ~(p.at < w.origin)
      <4>1. s.occupied \in Nat /\ p.occ \in Nat
        BY <1>0, <2>4 DEF Slot, Cost
      <4> QED BY <1>0, <1>1, <1>3, <3>1, <3>2, <4>1
    <3>4. n.host.slots = Taken(w, i, p.occ)
      BY <1>3, <3>1, <3>2, <3>3 DEF s
    <3>5. n.host.slots[k].occupied = s.occupied - c[d] /\ n.host.slots[k].frames = s.frames - 1
      BY <1>1, <1>3, <3>1, <3>4 DEF Taken, s, WindowType
    <3>6. Column(Len(q), e, n.host.slots[k])
      BY <3>2, <3>5
    <3> QED BY <3>6 DEF e
  <2> QED BY <2>6, <2>7
<1>6. Within(n.host, Confirmed(q, d))
  BY <1>3, <1>4, WithinConfirmed
<1> QED BY <1>0, <1>3, <1>4, <1>5, <1>6 DEF Books

-----------------------------------------------------------------------------
\* What every operation of the meter keeps: lists that fit and are in order of time, slots
\* of the adapter's window that are occupied when they have frames, and, as long as no
\* frame fell on an edge, the books of the host's window.
Orderly(m) ==
  /\ m \in Meter
  /\ Len(m.pending) <= MaxPending /\ Len(m.earlyTx) <= MaxPending
  /\ Balanced(m.hard.slots)
  /\ InTime(m.pending)
  /\ m.pending # <<>> => m.host.origin # 0
  /\ ~m.slip => Books(m.host, m.pending) /\ Within(m.host, m.pending)

NotAfter(q, x) == \A j \in 1..Len(q) : q[j].at <= x

LEMMA OriginStays ==
  ASSUME NEW w \in WindowType, NEW t \in Nat
  PROVE  /\ w.origin # 0 => Rotated(w, t).origin # 0
         /\ w.origin = 0 => Rotated(w, t).origin = t
<1>0. w.origin \in Nat
  BY DEF WindowType
<1>1. CASE w.origin # 0 /\ t - w.origin > Window
  <2>1. t # 0
    BY <1>0, <1>1, Slotted
  <2>2. ASSUME NEW k \in 0..(Slots - 1), Rotated(w, t).origin = w.origin + k * SlotLen
        PROVE  Rotated(w, t).origin # 0
    <3>1. k * SlotLen \in Nat
      BY Slotted
    <3> QED BY <1>0, <1>1, <2>2, <3>1
  <2> QED BY <1>1, <2>1, <2>2, RotatedCases
<1>2. CASE w.origin # 0 /\ t - w.origin <= Window
  BY <1>2, RotatedCases
<1>3. CASE w.origin = 0
  BY <1>3, RotatedCases
<1>4. t - w.origin <= Window \/ t - w.origin > Window
  BY <1>0, Slotted
<1> QED BY <1>1, <1>2, <1>3, <1>4

\* The host's window moves on.
LEMMA HostMoves ==
  ASSUME NEW m, Orderly(m), NEW t \in Nat, NEW r, r = Rotated(m.host, t)
  PROVE  /\ r \in WindowType
         /\ m.host.origin # 0 => r.origin # 0
         /\ m.host.origin = 0 => r.origin = t
         /\ ~m.slip => Books(r, m.pending) /\ Within(r, m.pending)
<1>1. m.host \in WindowType /\ m.pending \in Seq(PendingTx)
  BY DEF Orderly, Meter
<1>2. r \in WindowType
  BY <1>1, RotatedCases
<1>3. (m.host.origin # 0 => r.origin # 0) /\ (m.host.origin = 0 => r.origin = t)
  BY <1>1, OriginStays
<1>4. ~m.slip => Books(r, m.pending) /\ Within(r, m.pending)
  <2> SUFFICES ASSUME ~m.slip PROVE Books(r, m.pending) /\ Within(r, m.pending)
    OBVIOUS
  <2>1. Books(m.host, m.pending) /\ Within(m.host, m.pending)
        /\ (m.host.origin # 0 \/ m.pending = <<>>)
    BY DEF Orderly
  <2> QED BY <1>1, <2>1, BooksRotate
<1> QED BY <1>2, <1>3, <1>4

LEMMA InTimeDropped ==
  ASSUME NEW q, Len(q) \in Nat, InTime(q), NEW u, NEW k \in 0..Len(q), Dropped(u, q, Len(q), k)
  PROVE  InTime(u) /\ \A x : NotAfter(q, x) => NotAfter(u, x)
<1>1. Len(u) = Len(q) - k /\ \A j \in 1..(Len(q) - k) : u[j] = q[k + j]
  BY DEF Dropped
<1>2. \A j \in 1..Len(u) : k + j \in 1..Len(q) /\ u[j] = q[k + j]
  BY <1>1
<1>3. InTime(u)
  <2> SUFFICES ASSUME NEW i \in 1..Len(u), NEW j \in 1..Len(u), i <= j PROVE u[i].at <= u[j].at
    BY DEF InTime
  <2>1. k + i \in 1..Len(q) /\ k + j \in 1..Len(q) /\ k + i <= k + j
    BY <1>1, <1>2
  <2> QED BY <1>2, <2>1 DEF InTime
<1>4. ASSUME NEW x, NotAfter(q, x) PROVE NotAfter(u, x)
  BY <1>2, <1>4 DEF NotAfter
<1> QED BY <1>3, <1>4

\* Expiring keeps all of it.
LEMMA ExpiredKeeps ==
  ASSUME NEW m, Orderly(m), NEW t \in Nat, NEW n, n = Expired(m, t)
  PROVE  /\ Orderly(n) /\ n.host = m.host /\ n.hard = m.hard /\ n.dev = m.dev /\ n.slip = m.slip
         /\ \A x : NotAfter(m.pending, x) => NotAfter(n.pending, x)
<1>0. m \in Meter /\ m.pending \in Seq(PendingTx) /\ Len(m.pending) \in Nat /\ Len(m.earlyTx) \in Nat
      /\ \A x \in PendingTx : x.at \in Nat
  BY DEF Orderly, Meter, PendingTx, Time
<1>1. /\ n \in Meter /\ n.host = m.host /\ n.hard = m.hard /\ n.dev = m.dev /\ n.slip = m.slip
      /\ n.pending = Fresh(m.pending, EchoTTL, t) /\ Len(n.pending) <= Len(m.pending)
      /\ Len(n.earlyTx) <= Len(m.earlyTx)
  BY <1>0, ExpiredIs
<1>2. InTime(m.pending) /\ EchoTTL \in Nat
  BY Slotted DEF Orderly
<1>3. PICK k \in 0..Len(m.pending) : Dropped(n.pending, m.pending, Len(m.pending), k)
  <2>1. PICK s : s = m.pending
    OBVIOUS
  <2>2. s \in Seq(PendingTx) /\ InTime(s) /\ \A x \in PendingTx : x.at \in Nat
    BY <1>0, <1>2, <2>1
  <2>3. \E k \in 0..Len(s) : Dropped(Fresh(s, EchoTTL, t), s, Len(s), k)
    BY <1>2, <2>2, FreshEnd
  <2> QED BY <1>1, <2>1, <2>3
<1>4. InTime(n.pending) /\ \A x : NotAfter(m.pending, x) => NotAfter(n.pending, x)
  BY <1>0, <1>2, <1>3, InTimeDropped
<1>5. n.pending \in Seq(PendingTx) /\ n.earlyTx \in Seq(EarlyTx)
  BY <1>1 DEF Meter
<1>6. Len(n.pending) <= MaxPending /\ Len(n.earlyTx) <= MaxPending
  <2>1. Len(n.pending) \in Nat /\ Len(n.earlyTx) \in Nat
    BY <1>5
  <2> QED BY <1>0, <1>1, <2>1, Slotted DEF Orderly
<1>7. ~n.slip => Books(n.host, n.pending) /\ Within(n.host, n.pending)
  <2> SUFFICES ASSUME ~n.slip PROVE Books(n.host, n.pending) /\ Within(n.host, n.pending)
    OBVIOUS
  <2>1. Books(m.host, m.pending) /\ Within(m.host, m.pending)
    BY <1>1 DEF Orderly
  <2>2. Books(m.host, n.pending) /\ Within(m.host, n.pending)
    BY <1>0, <1>3, <1>5, <2>1, BooksDrop
  <2> QED BY <1>1, <2>2
<1>8. n.pending # <<>> => n.host.origin # 0
  <2> SUFFICES ASSUME n.pending # <<>> PROVE m.pending # <<>>
    BY <1>1 DEF Orderly
  <2>1. Len(n.pending) # 0
    BY <1>5
  <2> QED BY <1>0, <1>1, <1>5, <2>1
<1> QED BY <1>1, <1>4, <1>6, <1>7, <1>8 DEF Orderly

LEMMA RemoveHostShape ==
  ASSUME NEW m \in Meter, NEW p, p.at \in Nat, p.occ \in Cost, NEW n, n = RemoveHost(m, p)
  PROVE  /\ n \in Meter /\ n.hard = m.hard /\ n.pending = m.pending /\ n.earlyTx = m.earlyTx
         /\ n.slip = m.slip
         /\ m.host.origin # 0 => n.host.origin # 0
<1>1. PICK w, i : w = Rotated(m.host, p.at) /\ i = Place(w, p.at)
  OBVIOUS
<1>2. /\ n \in Meter /\ n.hard = m.hard
      /\ n.pending = m.pending /\ n.earlyTx = m.earlyTx /\ n.slip = m.slip
      /\ p.at < w.origin \/ w.slots[i].frames = 0 \/ w.slots[i].occupied < p.occ => n.host = w
      /\ ~(p.at < w.origin \/ w.slots[i].frames = 0 \/ w.slots[i].occupied < p.occ) =>
           n.host.origin = w.origin /\ n.host.slots = Taken(w, i, p.occ)
  BY <1>1, RemoveHostIs
<1>3. m.host.origin # 0 => w.origin # 0
  <2>1. m.host \in WindowType
    BY DEF Meter
  <2> QED BY <1>1, <2>1, OriginStays
<1> QED BY <1>2, <1>3

\* What moving a transmission leaves alone.
Moved(m, n) ==
  /\ n \in Meter /\ n.pending = m.pending /\ n.earlyTx = m.earlyTx
  /\ m.slip => n.slip
  /\ m.host.origin # 0 => n.host.origin # 0
  /\ Balanced(m.hard.slots) => Balanced(n.hard.slots)

LEMMA RelocateShape ==
  ASSUME NEW m \in Meter, NEW p, p.at \in Nat, p.occ \in Cost,
         NEW raw \in Nat, NEW t \in Nat, NEW occ \in Cost, NEW n, n = Relocate(m, p, raw, t, occ)
  PROVE  Moved(m, n) /\ n.host = IF raw = 0 THEN m.host ELSE RemoveHost(m, p).host
<1>1. CASE raw = 0
  BY <1>1 DEF Relocate, Moved
<1>2. CASE raw # 0
  <2>1. PICK h : h = RemoveHost(m, p)
    OBVIOUS
  <2>2. n = AddHardware(h, raw, t, occ)
    BY <1>2, <2>1 DEF Relocate
  <2>3. /\ h \in Meter /\ h.hard = m.hard /\ h.pending = m.pending /\ h.earlyTx = m.earlyTx
        /\ h.slip = m.slip
        /\ m.host.origin # 0 => h.host.origin # 0
    BY <2>1, RemoveHostShape
  <2>4. HardOnly(h, n)
    BY <2>2, <2>3, AddHardwareIs
  <2> QED BY <1>2, <2>1, <2>3, <2>4 DEF HardOnly, Moved
<1> QED BY <1>1, <1>2

\* A confirmed transmission is moved from the host's window to the adapter's.
Settled(m, n, q, d) ==
  /\ Moved(m, n)
  /\ ~n.slip => ~m.slip /\ Books(n.host, Confirmed(q, d)) /\ Within(n.host, Confirmed(q, d))

LEMMA RelocateKeeps ==
  ASSUME NEW m \in Meter, m.host.origin # 0, NEW p, NEW q \in Seq(PendingTx), NEW d \in 1..Len(q),
         ~q[d].confirmed, p.at = q[d].at, p.occ = q[d].occ,
         ~m.slip => Books(m.host, q) /\ Within(m.host, q),
         NEW raw \in Nat, NEW t \in Nat, NEW occ \in Cost, NEW n, n = Relocate(m, p, raw, t, occ)
  PROVE  Settled(m, n, q, d)
<1>0. p.at \in Nat /\ p.occ \in Cost /\ m.host \in WindowType /\ m.slip \in BOOLEAN
  BY ListTyped DEF Meter
<1>1. Moved(m, n) /\ n.host = IF raw = 0 THEN m.host ELSE RemoveHost(m, p).host
  BY <1>0, RelocateShape
<1>1a. m.slip => n.slip
  BY <1>1 DEF Moved
<1>2. ASSUME ~n.slip PROVE Books(n.host, Confirmed(q, d)) /\ Within(n.host, Confirmed(q, d))
  <2>1. Books(m.host, q) /\ Within(m.host, q)
    BY <1>1a, <1>2
  <2>2. CASE raw = 0
    <3>1. Books(m.host, Confirmed(q, d)) /\ Within(m.host, Confirmed(q, d))
      BY <1>0, <2>1, BooksKeep
    <3> QED BY <1>1, <2>2, <3>1
  <2>3. CASE raw # 0
    <3>1. PICK h : h = RemoveHost(m, p)
      OBVIOUS
    <3>2. Books(h.host, Confirmed(q, d)) /\ Within(h.host, Confirmed(q, d))
      BY <2>1, <3>1, BooksRetire
    <3> QED BY <1>1, <2>3, <3>1, <3>2
  <2> QED BY <2>2, <2>3
<1> QED BY <1>1, <1>1a, <1>2 DEF Settled

-----------------------------------------------------------------------------
\* The search of a list finds an entry of it, or none.
LEMMA LeastOf ==
  ASSUME NEW T \in SUBSET Nat, T # {}
  PROVE  (CHOOSE x \in T : \A y \in T : x <= y) \in T
BY Least

EarlyOf(q, k) == SelectInSeq(q, LAMBDA e : e.key = k)

LEMMA SelectedEarly ==
  ASSUME NEW q \in Seq(EarlyTx), NEW k, NEW i, i = EarlyOf(q, k)
  PROVE  i = 0 \/ i \in 1..Len(q)
<1> DEFINE T == {j \in 1..Len(q) : q[j].key = k}
<1>1. i = IF T # {} THEN CHOOSE x \in T : \A y \in T : x <= y ELSE 0
  BY DEF EarlyOf, SelectInSeq, Min
<1>2. T \in SUBSET Nat /\ T \subseteq 1..Len(q)
  OBVIOUS
<1> HIDE DEF T
<1> QED BY <1>1, <1>2, LeastOf

WaitingFor(q, k) == SelectInSeq(q, LAMBDA p : p.key = k /\ ~p.confirmed)

LEMMA SelectedEcho ==
  ASSUME NEW q \in Seq(PendingTx), NEW k, NEW i,
         i = WaitingFor(q, k)
  PROVE  i = 0 \/ (i \in 1..Len(q) /\ ~q[i].confirmed)
<1> DEFINE T == {j \in 1..Len(q) : q[j].key = k /\ ~q[j].confirmed}
<1>1. i = IF T # {} THEN CHOOSE x \in T : \A y \in T : x <= y ELSE 0
  BY DEF WaitingFor, SelectInSeq, Min
<1>2. T \in SUBSET Nat /\ \A j \in T : j \in 1..Len(q) /\ ~q[j].confirmed
  OBVIOUS
<1> HIDE DEF T
<1> QED BY <1>1, <1>2, LeastOf

RecentOf(q, k, t) == SelectInSeq(q, LAMBDA p : p.key = k /\ t - p.at <= PendingTTL)

LEMMA SelectedRx ==
  ASSUME NEW q \in Seq(PendingTx), NEW k, NEW t, NEW i,
         i = RecentOf(q, k, t)
  PROVE  i = 0 \/ i \in 1..Len(q)
<1> DEFINE T == {j \in 1..Len(q) : q[j].key = k /\ t - q[j].at <= PendingTTL}
<1>1. i = IF T # {} THEN CHOOSE x \in T : \A y \in T : x <= y ELSE 0
  BY DEF RecentOf, SelectInSeq, Min
<1>2. T \in SUBSET Nat /\ T \subseteq 1..Len(q)
  OBVIOUS
<1> HIDE DEF T
<1> QED BY <1>1, <1>2, LeastOf

\* A list with one more at its end, for which the oldest may have had to leave.
LEMMA PushIs ==
  ASSUME NEW S, NEW q \in Seq(S), NEW p \in S, Len(q) <= MaxPending
  PROVE  /\ Push(q, p) \in Seq(S) /\ Len(Push(q, p)) <= MaxPending
         /\ \E k \in 0..Len(q), u \in Seq(S) : Dropped(u, q, Len(q), k) /\ Push(q, p) = Append(u, p)
<1>0. Len(q) \in Nat /\ MaxPending \in Nat /\ MaxPending > 0
  BY Slotted
<1>1. CASE Len(q) >= MaxPending
  <2>1. Push(q, p) = Append(Tail(q), p)
    BY <1>1 DEF Push
  <2>2. Tail(q) \in Seq(S) /\ Len(Tail(q)) = Len(q) - 1 /\ \A j \in 1..(Len(q) - 1) : Tail(q)[j] = q[1 + j]
    <3>1. q # <<>>
      BY <1>0, <1>1
    <3>2. Tail(q) \in Seq(S) /\ Len(Tail(q)) = Len(q) - 1
      BY <3>1
    <3>3. \A j \in 1..(Len(q) - 1) : Tail(q)[j] = q[1 + j]
      BY <3>1
    <3> QED BY <3>2, <3>3
  <2>3. Push(q, p) \in Seq(S) /\ Len(Push(q, p)) = Len(Tail(q)) + 1
    BY <2>1, <2>2, AppendShape
  <2>4. 1 \in 0..Len(q) /\ Dropped(Tail(q), q, Len(q), 1)
    BY <1>0, <1>1, <2>2 DEF Dropped
  <2>5. Len(Push(q, p)) <= MaxPending
    BY <1>0, <2>2, <2>3
  <2> QED BY <2>1, <2>2, <2>3, <2>4, <2>5
<1>2. CASE ~(Len(q) >= MaxPending)
  <2>1. Push(q, p) = Append(q, p)
    BY <1>2 DEF Push
  <2>2. Push(q, p) \in Seq(S) /\ Len(Push(q, p)) = Len(q) + 1
    BY <2>1, AppendShape
  <2>3. 0 \in 0..Len(q) /\ Dropped(q, q, Len(q), 0)
    BY <1>0 DEF Dropped
  <2>4. Len(Push(q, p)) <= MaxPending
    BY <1>0, <1>2, <2>2
  <2> QED BY <2>1, <2>2, <2>3, <2>4
<1> QED BY <1>1, <1>2

\* A transmission at time t joins the pending ones; w is the window it is counted in.
PushedWell(u, w, p) ==
  /\ u \in Seq(PendingTx) /\ Len(u) <= MaxPending /\ Len(u) \in Nat /\ Len(u) > 0 /\ u[Len(u)] = p
  /\ InTime(u) /\ NotAfter(u, p.at)

LEMMA PushPending ==
  ASSUME NEW m, Orderly(m), NEW p \in PendingTx, ~p.confirmed, NotAfter(m.pending, p.at),
         NEW u, u = Push(m.pending, p)
  PROVE  /\ PushedWell(u, m.host, p)
         /\ p.at >= m.host.origin /\ p.at - m.host.origin < Window /\ ~m.slip =>
              Books(Added(m.host, p.at, p.occ), u) /\ Within(Added(m.host, p.at, p.occ), u)
<1>0. m.pending \in Seq(PendingTx) /\ Len(m.pending) <= MaxPending /\ InTime(m.pending)
      /\ m.host \in WindowType /\ Len(m.pending) \in Nat /\ p.at \in Nat
  BY DEF Orderly, Meter, PendingTx, Time
<1>1. /\ u \in Seq(PendingTx) /\ Len(u) <= MaxPending
      /\ \E k \in 0..Len(m.pending), v \in Seq(PendingTx) :
           Dropped(v, m.pending, Len(m.pending), k) /\ u = Append(v, p)
  BY <1>0, PushIs
<1>2. PICK k \in 0..Len(m.pending), v \in Seq(PendingTx) :
           Dropped(v, m.pending, Len(m.pending), k) /\ u = Append(v, p)
  BY <1>1
<1>3. InTime(v) /\ NotAfter(v, p.at)
  BY <1>0, <1>2, InTimeDropped
<1>4. /\ Len(u) = Len(v) + 1 /\ Len(v) \in Nat /\ u[Len(v) + 1] = p
      /\ \A i \in 1..Len(v) : u[i] = v[i]
  BY <1>2, AppendShape
<1>5. NotAfter(u, p.at)
  <2> SUFFICES ASSUME NEW j \in 1..Len(u) PROVE u[j].at <= p.at
    BY DEF NotAfter
  <2>1. j \in 1..Len(v) \/ j = Len(v) + 1
    BY <1>4
  <2> QED BY <1>0, <1>3, <1>4, <2>1 DEF NotAfter
<1>6. InTime(u)
  <2> SUFFICES ASSUME NEW i \in 1..Len(u), NEW j \in 1..Len(u), i <= j PROVE u[i].at <= u[j].at
    BY DEF InTime
  <2>1. CASE j = Len(v) + 1
    BY <1>4, <1>5, <2>1 DEF NotAfter
  <2>2. CASE j \in 1..Len(v)
    <3>1. i \in 1..Len(v)
      BY <1>4, <2>2
    <3> QED BY <1>3, <1>4, <2>2, <3>1 DEF InTime
  <2> QED BY <1>4, <2>1, <2>2
<1>7. ASSUME p.at >= m.host.origin, p.at - m.host.origin < Window, ~m.slip
      PROVE  Books(Added(m.host, p.at, p.occ), u) /\ Within(Added(m.host, p.at, p.occ), u)
  <2>1. Books(m.host, m.pending) /\ Within(m.host, m.pending)
    BY <1>7 DEF Orderly
  <2>2. Books(m.host, v) /\ Within(m.host, v)
    BY <1>0, <1>2, <2>1, BooksDrop
  <2>3. PICK a : a = Added(m.host, p.at, p.occ)
    OBVIOUS
  <2>4. Books(a, u) /\ Within(a, u)
    BY <1>0, <1>2, <1>7, <2>2, <2>3, BooksAppend
  <2> QED BY <2>3, <2>4
<1>8. PushedWell(u, m.host, p)
  BY <1>1, <1>4, <1>5, <1>6 DEF PushedWell
<1> QED BY <1>7, <1>8

-----------------------------------------------------------------------------
\* What each operation of the meter keeps.
Keeps(m, n) == Orderly(n) /\ \A x : NotAfter(m.pending, x) => NotAfter(n.pending, x)

LEMMA OrderlyParts ==
  ASSUME NEW m, Orderly(m)
  PROVE  /\ m \in Meter /\ m.host \in WindowType /\ m.host.origin \in Nat /\ m.hard \in WindowType
         /\ m.pending \in Seq(PendingTx) /\ Len(m.pending) \in Nat /\ Len(m.pending) <= MaxPending
         /\ m.earlyTx \in Seq(EarlyTx) /\ Len(m.earlyTx) \in Nat /\ Len(m.earlyTx) <= MaxPending
         /\ m.dev \in DevType /\ m.slip \in BOOLEAN
BY DEF Orderly, Meter, WindowType

\* The host counts a frame another node sent, or the log slips.
LEMMA AddHostKeeps ==
  ASSUME NEW m, Orderly(m), NEW t \in Time, NEW occ \in Cost
  PROVE  Keeps(m, AddHost(m, t, occ))
<1>1. PICK n, w : n = AddHost(m, t, occ) /\ w = Rotated(m.host, t)
  OBVIOUS
<1>2. Counted(m, n, w, t, occ)
  BY <1>1, OrderlyParts, AddHostIs DEF Time
<1>3. /\ w \in WindowType /\ (m.host.origin # 0 => w.origin # 0)
      /\ ~m.slip => Books(w, m.pending) /\ Within(w, m.pending)
  BY <1>1, HostMoves DEF Time
<1>4. PICK a : a = Added(w, t, occ)
  OBVIOUS
<1>5. a.origin = w.origin
  BY <1>3, <1>4, AddedTyped DEF Time
<1>6. m.host.origin # 0 => n.host.origin # 0
  BY <1>2, <1>3, <1>4, <1>5 DEF Counted
<1>7. ~n.slip => Books(n.host, m.pending) /\ Within(n.host, m.pending)
  <2> SUFFICES ASSUME ~n.slip PROVE Books(n.host, m.pending) /\ Within(n.host, m.pending)
    OBVIOUS
  <2>1. n.host = a /\ ~m.slip
    BY <1>2, <1>4 DEF Counted
  <2>2. Books(w, m.pending) /\ Within(w, m.pending) /\ m.pending \in Seq(PendingTx)
    BY <1>3, <2>1, OrderlyParts
  <2>3. Books(a, m.pending) /\ Within(a, m.pending)
    BY <1>3, <1>4, <2>2, BooksForeign DEF Time
  <2> QED BY <2>1, <2>3
<1>8. n \in Meter /\ n.hard = m.hard /\ n.pending = m.pending /\ n.earlyTx = m.earlyTx
  BY <1>2 DEF Counted
<1>9. Orderly(n)
  BY <1>6, <1>7, <1>8 DEF Orderly
<1> QED BY <1>1, <1>8, <1>9 DEF Keeps

\* The adapter counts one.
LEMMA AddHardwareKeeps ==
  ASSUME NEW m, Orderly(m), NEW raw \in Nat, NEW t \in Nat, NEW occ \in Cost
  PROVE  Keeps(m, AddHardware(m, raw, t, occ))
<1>1. PICK n : n = AddHardware(m, raw, t, occ)
  OBVIOUS
<1>2. HardOnly(m, n)
  BY <1>1, OrderlyParts, AddHardwareIs
<1>3. Orderly(n)
  BY <1>2 DEF Orderly, HardOnly
<1> QED BY <1>1, <1>2, <1>3 DEF Keeps, HardOnly

LEMMA SlipKeeps ==
  ASSUME NEW m, Orderly(m)
  PROVE  Keeps(m, Slip(m))
<1>1. PICK n : n = Slip(m)
  OBVIOUS
<1>2. /\ n \in Meter /\ n.host = m.host /\ n.hard = m.hard /\ n.pending = m.pending
      /\ n.earlyTx = m.earlyTx /\ n.slip
  <2>1. m \in Meter
    BY OrderlyParts
  <2>2. n = [m EXCEPT !.slip = TRUE]
    BY <1>1 DEF Slip
  <2> QED BY <2>1, <2>2 DEF Meter
<1>3. Orderly(n)
  BY <1>2 DEF Orderly
<1> QED BY <1>1, <1>2, <1>3 DEF Keeps

LEMMA ExpiredToo ==
  ASSUME NEW m, Orderly(m), NEW t \in Nat
  PROVE  Keeps(m, Expired(m, t))
BY ExpiredKeeps DEF Keeps

LEMMA KeepsBoth ==
  ASSUME NEW a, NEW b, NEW c, Keeps(a, b), Keeps(b, c)
  PROVE  Keeps(a, c)
BY DEF Keeps

\* The window moves on, and nothing else happens.
LEMMA HostRotatedKeeps ==
  ASSUME NEW m, Orderly(m), NEW t \in Time
  PROVE  Keeps(m, HostRotated(m, t))
<1>1. PICK n : n = HostRotated(m, t)
  OBVIOUS
<1>2. /\ n \in Meter /\ n.host = Rotated(m.host, t) /\ n.hard = m.hard
      /\ n.pending = m.pending /\ n.earlyTx = m.earlyTx /\ n.slip = m.slip
  <2>1. m \in Meter /\ t \in Nat
    BY OrderlyParts DEF Time
  <2> QED BY <1>1, <2>1, HostRotatedIs
<1>3. PICK r : r = Rotated(m.host, t)
  OBVIOUS
<1>4. /\ (m.host.origin # 0 => r.origin # 0)
      /\ ~m.slip => Books(r, m.pending) /\ Within(r, m.pending)
  BY <1>3, HostMoves DEF Time
<1>5. Orderly(n)
  BY <1>2, <1>3, <1>4 DEF Orderly
<1> QED BY <1>1, <1>2, <1>5 DEF Keeps

LEMMA AgedKeeps ==
  ASSUME NEW m, Orderly(m), NEW t \in Time
  PROVE  Keeps(m, Aged(m, t))
<1>1. PICK h : h = HostRotated(m, t)
  OBVIOUS
<1>2. Orderly(h) /\ Keeps(m, h)
  BY <1>1, HostRotatedKeeps DEF Keeps
<1>3. PICK w : w = Rotated(h.hard, HardwareNow(m.dev, t))
  OBVIOUS
<1>4. PICK n : n = IF m.dev.known THEN [h EXCEPT !.hard = w] ELSE h
  OBVIOUS
<1>5. Aged(m, t) = Expired(n, t)
  BY <1>1, <1>3, <1>4 DEF Aged
<1>6. HardwareNow(m.dev, t) \in Nat
  <2>1. PICK l, s : l = m.dev.last /\ s = m.dev.lastHost
    OBVIOUS
  <2>2. l \in Nat /\ s \in Nat /\ t \in Nat
    BY <2>1, OrderlyParts DEF DevType, Time
  <2>3. l + (IF t > s THEN t - s ELSE 0) \in Nat
    BY <2>2
  <2> QED BY <2>1, <2>3 DEF HardwareNow
<1>7. w \in WindowType /\ Balanced(w.slots)
  <2>1. h.hard \in WindowType /\ Balanced(h.hard.slots)
    BY <1>2, OrderlyParts DEF Orderly
  <2> QED BY <1>3, <1>6, <2>1, RotatedCases, RotatedBalanced
<1>8. Orderly(n) /\ n.pending = h.pending
  <2>1. CASE m.dev.known
    <3>1. n = [h EXCEPT !.hard = w]
      BY <1>4, <2>1
    <3>2. /\ n \in Meter /\ n.hard = w /\ n.host = h.host /\ n.pending = h.pending
          /\ n.earlyTx = h.earlyTx /\ n.slip = h.slip
      <4>1. h \in Meter /\ w \in WindowType
        BY <1>2, <1>7, OrderlyParts
      <4> QED BY <3>1, <4>1 DEF Meter
    <3> QED BY <1>2, <1>7, <3>2 DEF Orderly
  <2>2. CASE ~m.dev.known
    BY <1>2, <1>4, <2>2
  <2> QED BY <2>1, <2>2
<1>9. Keeps(m, n)
  BY <1>2, <1>8 DEF Keeps
<1>10. Keeps(n, Expired(n, t))
  BY <1>8, ExpiredToo DEF Time
<1> QED BY <1>5, <1>9, <1>10, KeepsBoth

\* The list stays in order when one is confirmed, or leaves.
LEMMA ConfirmedInTime ==
  ASSUME NEW q \in Seq(PendingTx), InTime(q), NEW d \in 1..Len(q)
  PROVE  InTime(Confirmed(q, d)) /\ \A x : NotAfter(q, x) => NotAfter(Confirmed(q, d), x)
<1>1. PICK u : u = Confirmed(q, d)
  OBVIOUS
<1>2. Len(u) = Len(q) /\ \A j \in 1..Len(q) : u[j].at = q[j].at
  BY <1>1, ConfirmedTyped
<1>3. InTime(u) /\ \A x : NotAfter(q, x) => NotAfter(u, x)
  BY <1>2 DEF InTime, NotAfter
<1> QED BY <1>1, <1>3

LEMMA RemovedInTime ==
  ASSUME NEW q \in Seq(PendingTx), InTime(q), NEW d \in 1..Len(q)
  PROVE  InTime(RemoveAt(q, d)) /\ \A x : NotAfter(q, x) => NotAfter(RemoveAt(q, d), x)
<1>1. PICK u : u = RemoveAt(q, d)
  OBVIOUS
<1>2. /\ Len(q) \in Nat /\ Len(u) = Len(q) - 1
      /\ \A j \in 1..(Len(q) - 1) : u[j] = q[IF j < d THEN j ELSE j + 1]
  BY <1>1, ListTyped, RemoveAtIs
<1> DEFINE at(j) == IF j < d THEN j ELSE j + 1
<1>3. /\ \A j \in 1..Len(u) : at(j) \in 1..Len(q) /\ u[j] = q[at(j)]
      /\ \A i, j \in 1..Len(u) : i <= j => at(i) <= at(j)
  BY <1>2
<1> HIDE DEF at
<1>4. InTime(u)
  <2> SUFFICES ASSUME NEW i \in 1..Len(u), NEW j \in 1..Len(u), i <= j PROVE u[i].at <= u[j].at
    BY DEF InTime
  <2>1. at(i) \in 1..Len(q) /\ at(j) \in 1..Len(q) /\ at(i) <= at(j)
    BY <1>3
  <2>2. q[at(i)].at <= q[at(j)].at
    BY <2>1 DEF InTime
  <2> QED BY <1>3, <2>2
<1>5. ASSUME NEW x, NotAfter(q, x) PROVE NotAfter(u, x)
  <2> SUFFICES ASSUME NEW j \in 1..Len(u) PROVE u[j].at <= x
    BY DEF NotAfter
  <2>1. at(j) \in 1..Len(q) /\ u[j] = q[at(j)]
    BY <1>3
  <2> QED BY <1>5, <2>1 DEF NotAfter
<1> QED BY <1>1, <1>4, <1>5

LEMMA RemoveConfirmed ==
  ASSUME NEW q \in Seq(PendingTx), NEW d \in 1..Len(q)
  PROVE  RemoveAt(Confirmed(q, d), d) = RemoveAt(q, d)
<1>1. PICK c : c = Confirmed(q, d)
  OBVIOUS
<1>2. /\ c \in Seq(PendingTx) /\ Len(c) = Len(q) /\ d \in 1..Len(c)
      /\ \A j \in 1..Len(q) : j # d => c[j] = q[j]
  BY <1>1, ConfirmedTyped
<1>3. PICK a, b : a = RemoveAt(c, d) /\ b = RemoveAt(q, d)
  OBVIOUS
<1>4. /\ a \in Seq(PendingTx) /\ Len(a) = Len(q) - 1
      /\ \A j \in 1..(Len(q) - 1) : a[j] = c[IF j < d THEN j ELSE j + 1]
  BY <1>2, <1>3, RemoveAtIs
<1>5. /\ b \in Seq(PendingTx) /\ Len(b) = Len(q) - 1
      /\ \A j \in 1..(Len(q) - 1) : b[j] = q[IF j < d THEN j ELSE j + 1]
  BY <1>3, RemoveAtIs
<1>6. ASSUME NEW j \in 1..(Len(q) - 1) PROVE a[j] = b[j]
  <2>1. Len(q) \in Nat /\ (IF j < d THEN j ELSE j + 1) \in 1..Len(q) \ {d}
    BY ListTyped
  <2> QED BY <1>2, <1>4, <1>5, <2>1
<1>7. a = b
  BY <1>4, <1>5, <1>6
<1> QED BY <1>1, <1>3, <1>7

\* A transmission whose echo is known is moved to the time the echo is stamped with,
\* and stays in the list, confirmed, or has left it.
LEMMA RelocateOrderly ==
  ASSUME NEW m \in Meter, m.host.origin # 0, Balanced(m.hard.slots),
         Len(m.pending) <= MaxPending, Len(m.earlyTx) <= MaxPending,
         NEW q \in Seq(PendingTx), InTime(q), NEW d \in 1..Len(q), ~q[d].confirmed,
         m.pending = Confirmed(q, d) \/ m.pending = RemoveAt(q, d),
         ~m.slip => Books(m.host, q) /\ Within(m.host, q),
         NEW raw \in Nat, NEW t \in Nat, NEW occ \in Cost
  PROVE  LET n == Relocate(m, q[d], raw, t, occ) IN
         Orderly(n) /\ \A x : NotAfter(q, x) => NotAfter(n.pending, x)
<1>1. PICK n : n = Relocate(m, q[d], raw, t, occ)
  OBVIOUS
<1>2. PICK c, r : c = Confirmed(q, d) /\ r = RemoveAt(q, d)
  OBVIOUS
<1>3. /\ Moved(m, n)
      /\ ~n.slip => ~m.slip /\ Books(n.host, c) /\ Within(n.host, c)
  <2>1. PICK p : p = q[d]
    OBVIOUS
  <2>2. p.at = q[d].at /\ p.occ = q[d].occ /\ n = Relocate(m, p, raw, t, occ)
    BY <1>1, <2>1
  <2>3. Settled(m, n, q, d)
    BY <2>2, RelocateKeeps
  <2> QED BY <1>2, <2>3 DEF Settled
<1>4. /\ n \in Meter /\ n.pending = m.pending /\ n.earlyTx = m.earlyTx
      /\ n.host.origin # 0 /\ Balanced(n.hard.slots) /\ n.host \in WindowType
  BY <1>3 DEF Moved, Meter
<1>5. /\ InTime(n.pending)
      /\ \A x : NotAfter(q, x) => NotAfter(n.pending, x)
  BY <1>4, ConfirmedInTime, RemovedInTime
<1>6. ASSUME ~n.slip PROVE Books(n.host, n.pending) /\ Within(n.host, n.pending)
  <2>1. Books(n.host, c) /\ Within(n.host, c)
    BY <1>3, <1>6
  <2>2. CASE n.pending = c
    BY <2>1, <2>2
  <2>3. CASE n.pending = r
    <3>1. c \in Seq(PendingTx) /\ d \in 1..Len(c) /\ c[d].confirmed /\ r = RemoveAt(c, d)
      BY <1>2, ConfirmedTyped, RemoveConfirmed
    <3>2. Books(n.host, r) /\ Within(n.host, r)
      BY <1>4, <2>1, <3>1, BooksSkip
    <3> QED BY <2>3, <3>2
  <2> QED BY <1>2, <1>4, <2>2, <2>3
<1>7. Orderly(n)
  BY <1>4, <1>5, <1>6 DEF Orderly
<1> QED BY <1>1, <1>5, <1>7

\* The vendor took the frame: it is counted, and joins the pending ones.
Pushed(m, n, p) ==
  [n EXCEPT !.pending = Push(n.pending, p), !.slip = n.slip \/ Len(n.pending) = MaxPending]

LEMMA RecordedOrderly ==
  ASSUME NEW m, Orderly(m), NEW k \in Key, NEW t \in Time, NotAfter(m.pending, t),
         NEW p \in PendingTx, ~p.confirmed, p.at = t, p.occ = Occupied[k],
         NEW n, n = Expired(AddHost(m, t, Occupied[k]), t), NEW h, h = Pushed(m, n, p)
  PROVE  /\ Orderly(h) /\ h.host.origin # 0 /\ h.earlyTx = n.earlyTx /\ n \in Meter
         /\ PushedWell(h.pending, h.host, p)
<1>0. t \in Nat /\ t # 0 /\ Occupied[k] \in Cost /\ m \in Meter
  BY OrderlyParts, FrameAssumption DEF Time, Cost
<1>1. PICK a, w, o : a = AddHost(m, t, o) /\ w = Rotated(m.host, t) /\ o = Occupied[k]
  OBVIOUS
<1>2. Counted(m, a, w, t, o)
  BY <1>0, <1>1, AddHostIs
<1>3. /\ a \in Meter /\ a.pending = m.pending /\ Orderly(a)
      /\ n = Expired(a, t)
  BY <1>0, <1>1, <1>2, AddHostKeeps DEF Counted, Keeps
<1>4. /\ Orderly(n) /\ n.host = a.host /\ n.slip = a.slip
  BY <1>0, <1>3, ExpiredKeeps
<1>5. n.pending = Fresh(m.pending, EchoTTL, t)
  BY <1>0, <1>3, ExpiredIs
<1>6. PICK r, e : r = HostRotated(m, t) /\ e = Expired(r, t)
  OBVIOUS
<1>7. r \in Meter /\ r.host = w /\ r.pending = m.pending /\ r.slip = m.slip
  BY <1>0, <1>1, <1>6, HostRotatedIs
<1>8. Orderly(r)
  BY <1>6, HostRotatedKeeps DEF Keeps
<1>9. /\ Orderly(e) /\ e.host = w /\ e.slip = m.slip
      /\ \A x : NotAfter(r.pending, x) => NotAfter(e.pending, x)
  BY <1>0, <1>6, <1>7, <1>8, ExpiredKeeps
<1>10. e.pending = n.pending
  BY <1>0, <1>5, <1>6, <1>7, ExpiredIs
<1>11. PICK u : u = Push(e.pending, p)
  OBVIOUS
<1>12. /\ PushedWell(u, w, p)
       /\ t >= w.origin /\ t - w.origin < Window /\ ~m.slip =>
            Books(Added(w, t, o), u) /\ Within(Added(w, t, o), u)
  <2>1. NotAfter(e.pending, p.at)
    BY <1>7, <1>9
  <2>2. /\ PushedWell(u, e.host, p)
        /\ p.at >= e.host.origin /\ p.at - e.host.origin < Window /\ ~e.slip =>
              Books(Added(e.host, p.at, p.occ), u) /\ Within(Added(e.host, p.at, p.occ), u)
    BY <1>9, <1>11, <2>1, PushPending
  <2> QED BY <1>1, <1>9, <2>2
<1>13. /\ h.pending = u /\ h.slip = (n.slip \/ Len(n.pending) = MaxPending)
       /\ h.host = n.host /\ h.hard = n.hard /\ h.earlyTx = n.earlyTx
       /\ h \in Meter /\ n \in Meter
  <2>1. n \in Meter /\ u \in Seq(PendingTx) /\ (n.slip \/ Len(n.pending) = MaxPending) \in BOOLEAN
    BY <1>4, <1>12, OrderlyParts DEF PushedWell
  <2>2. h = [n EXCEPT !.pending = u, !.slip = n.slip \/ Len(n.pending) = MaxPending]
    BY <1>10, <1>11 DEF Pushed
  <2> QED BY <2>1, <2>2 DEF Meter
<1>14. h.host.origin # 0
  <2>1. w.origin # 0 /\ w \in WindowType
    BY <1>0, <1>1, HostMoves
  <2>2. PICK x : x = Added(w, t, o)
    OBVIOUS
  <2>3. x.origin = w.origin
    BY <1>0, <1>1, <2>1, <2>2, AddedTyped
  <2>4. a.host = w \/ a.host = x
    BY <1>2, <2>2 DEF Counted
  <2> QED BY <1>4, <1>13, <2>1, <2>3, <2>4
<1>15. ASSUME ~h.slip PROVE Books(h.host, u) /\ Within(h.host, u)
  <2>1. ~a.slip
    BY <1>4, <1>13, <1>15
  <2>2. t >= w.origin /\ t - w.origin < Window /\ ~m.slip /\ a.host = Added(w, t, o)
    BY <1>2, <2>1 DEF Counted
  <2> QED BY <1>4, <1>12, <1>13, <2>2
<1>16. PushedWell(h.pending, h.host, p)
  BY <1>12, <1>13 DEF PushedWell
<1>17. Orderly(h)
  BY <1>4, <1>12, <1>13, <1>14, <1>15 DEF Orderly, PushedWell
<1> QED BY <1>13, <1>14, <1>16, <1>17

LEMMA RecordTxOrderly ==
  ASSUME NEW m, Orderly(m), NEW k \in Key, NEW t \in Time, NotAfter(m.pending, t)
  PROVE  LET n == RecordTx(m, k, t) IN Orderly(n) /\ NotAfter(n.pending, t)
<1> DEFINE p == [key |-> k, at |-> t, occ |-> Occupied[k], confirmed |-> FALSE]
           n == Expired(AddHost(m, t, Occupied[k]), t)
           i == EarlyOf(n.earlyTx, k)
           h == Pushed(m, n, p)
           c == [h EXCEPT !.earlyTx = RemoveAt(h.earlyTx, i),
                          !.pending[Len(h.pending)].confirmed = TRUE]
           e == n.earlyTx[i]
<1>1. RecordTx(m, k, t) = IF i = 0 THEN h ELSE Relocate(c, p, e.raw, e.at, e.occ)
  BY DEF RecordTx, Pushed, EarlyOf
<1>2. p \in PendingTx /\ ~p.confirmed /\ p.at = t /\ p.occ = Occupied[k]
  BY FrameAssumption DEF PendingTx, Cost
<1> HIDE DEF p
<1>3. /\ Orderly(h) /\ h.host.origin # 0 /\ h.earlyTx = n.earlyTx /\ n \in Meter
      /\ PushedWell(h.pending, h.host, p)
  BY <1>2, RecordedOrderly
<1> HIDE DEF h
<1>3a. n.earlyTx \in Seq(EarlyTx)
  BY <1>3 DEF Meter
<1> HIDE DEF n
<1>4. i = 0 \/ i \in 1..Len(n.earlyTx)
  BY <1>3a, SelectedEarly
<1> HIDE DEF i
<1>5. NotAfter(h.pending, t)
  BY <1>2, <1>3 DEF PushedWell
<1>6. ASSUME i # 0
      PROVE  LET r == Relocate(c, p, e.raw, e.at, e.occ) IN Orderly(r) /\ NotAfter(r.pending, t)
  <2>1. PICK q, d : q = h.pending /\ d = Len(q)
    OBVIOUS
  <2>2. q \in Seq(PendingTx) /\ d \in 1..Len(q) /\ q[d] = p /\ InTime(q) /\ Len(q) <= MaxPending
    BY <1>3, <2>1 DEF PushedWell
  <2>3. PICK z : z = RemoveAt(h.earlyTx, i)
    OBVIOUS
  <2>4. z \in Seq(EarlyTx) /\ Len(z) <= MaxPending
    <3>1. h.earlyTx \in Seq(EarlyTx) /\ i \in 1..Len(h.earlyTx)
          /\ Len(h.earlyTx) \in Nat /\ Len(h.earlyTx) <= MaxPending
      BY <1>3, <1>4, <1>6, OrderlyParts
    <3>2. z \in Seq(EarlyTx) /\ Len(z) = Len(h.earlyTx) - 1
      BY <2>3, <3>1, RemoveAtIs
    <3> QED BY <3>1, <3>2, Slotted
  <2>5. PICK y : y = c
    OBVIOUS
  <2>6. PICK v : v = Confirmed(q, d)
    OBVIOUS
  <2>7. v \in Seq(PendingTx) /\ Len(v) = Len(q)
    BY <2>2, <2>6, ConfirmedTyped
  <2>8. h \in Meter
    BY <1>3, OrderlyParts
  <2>9. y = [h EXCEPT !.earlyTx = z, !.pending = v]
    BY <2>1, <2>3, <2>5, <2>6, <2>8 DEF Confirmed, Meter
  <2>10. /\ y \in Meter /\ y.pending = v /\ y.earlyTx = z /\ y.host = h.host /\ y.hard = h.hard
         /\ y.slip = h.slip
    BY <2>4, <2>7, <2>8, <2>9 DEF Meter
  <2>11. y.host.origin # 0 /\ Balanced(y.hard.slots)
         /\ (~y.slip => Books(y.host, q) /\ Within(y.host, q))
    BY <1>3, <2>1, <2>10 DEF Orderly
  <2>12. e \in EarlyTx /\ e.raw \in Nat /\ e.at \in Nat /\ e.occ \in Cost
    <3>1. e \in EarlyTx
      BY <1>3a, <1>4, <1>6
    <3> QED BY <3>1 DEF EarlyTx, Time
  <2>13. PICK r : r = Relocate(y, q[d], e.raw, e.at, e.occ)
    OBVIOUS
  <2>14. Len(y.pending) <= MaxPending /\ Len(y.earlyTx) <= MaxPending /\ ~q[d].confirmed
         /\ y.pending = Confirmed(q, d)
    BY <1>2, <2>2, <2>4, <2>6, <2>7, <2>10
  <2>15. Orderly(r) /\ \A x : NotAfter(q, x) => NotAfter(r.pending, x)
    BY <2>2, <2>10, <2>11, <2>12, <2>13, <2>14, RelocateOrderly
  <2> QED BY <1>5, <2>1, <2>2, <2>5, <2>13, <2>15
<1> QED BY <1>1, <1>3, <1>5, <1>6

\* An echo is seen: it confirms a transmission, or is early.
LEMMA ObserveEchoKeeps ==
  ASSUME NEW m, Orderly(m), NEW k \in Key, NEW raw \in Nat, NEW t \in Time
  PROVE  Keeps(m, ObserveEcho(m, k, raw, t))
<1> DEFINE n == Expired(m, t)
           i == WaitingFor(n.pending, k)
           e == [key |-> k, raw |-> raw, at |-> t, occ |-> Measured[k]]
           c == [n EXCEPT !.pending[i].confirmed = TRUE]
           early == [n EXCEPT !.earlyTx = Push(n.earlyTx, e)]
<1>1. ObserveEcho(m, k, raw, t) =
        IF i # 0 THEN Relocate(c, n.pending[i], raw, t, Measured[k])
        ELSE IF raw # 0 THEN early ELSE n
  BY DEF ObserveEcho, WaitingFor
<1>0. t \in Nat /\ Measured[k] \in Cost
  BY FrameAssumption DEF Time, Cost
<1>2. Keeps(m, n)
  BY <1>0, ExpiredToo
<1> HIDE DEF n
<1>3. Orderly(n)
  BY <1>2 DEF Keeps
<1>4. /\ n \in Meter /\ n.pending \in Seq(PendingTx) /\ Len(n.pending) <= MaxPending
      /\ n.earlyTx \in Seq(EarlyTx) /\ Len(n.earlyTx) <= MaxPending
  BY <1>3, OrderlyParts
<1>5. i = 0 \/ (i \in 1..Len(n.pending) /\ ~n.pending[i].confirmed)
  BY <1>4, SelectedEcho
<1> HIDE DEF i
<1>6. ASSUME i # 0 PROVE Keeps(n, Relocate(c, n.pending[i], raw, t, Measured[k]))
  <2>1. PICK q, d : q = n.pending /\ d = i
    OBVIOUS
  <2>2. q \in Seq(PendingTx) /\ d \in 1..Len(q) /\ ~q[d].confirmed /\ q # <<>>
    BY <1>4, <1>5, <1>6, <2>1
  <2>3. PICK v, y : v = Confirmed(q, d) /\ y = c
    OBVIOUS
  <2>4. v \in Seq(PendingTx) /\ Len(v) = Len(q)
    BY <2>2, <2>3, ConfirmedTyped
  <2>5. y = [n EXCEPT !.pending = v]
    BY <1>4, <2>1, <2>3 DEF Confirmed, Meter
  <2>6. /\ y \in Meter /\ y.pending = v /\ y.earlyTx = n.earlyTx /\ y.host = n.host
        /\ y.hard = n.hard /\ y.slip = n.slip
    BY <1>4, <2>4, <2>5 DEF Meter
  <2>7. /\ y.host.origin # 0 /\ Balanced(y.hard.slots) /\ InTime(q)
        /\ (~y.slip => Books(y.host, q) /\ Within(y.host, q))
    BY <1>3, <2>1, <2>2, <2>6 DEF Orderly
  <2>8. /\ Len(y.pending) <= MaxPending /\ Len(y.earlyTx) <= MaxPending
        /\ y.pending = Confirmed(q, d)
    BY <1>4, <2>1, <2>3, <2>4, <2>6
  <2>9. PICK r : r = Relocate(y, q[d], raw, t, Measured[k])
    OBVIOUS
  <2>10. Orderly(r) /\ \A x : NotAfter(q, x) => NotAfter(r.pending, x)
    BY <1>0, <2>2, <2>6, <2>7, <2>8, <2>9, RelocateOrderly
  <2>11. Keeps(n, r)
    BY <2>1, <2>10 DEF Keeps
  <2> QED BY <2>1, <2>3, <2>9, <2>11
<1>7. ASSUME raw # 0 PROVE Keeps(n, early)
  <2>1. PICK u : u = Push(n.earlyTx, e)
    OBVIOUS
  <2>2. e \in EarlyTx
    BY <1>0, <1>7 DEF EarlyTx, Time
  <2>3. u \in Seq(EarlyTx) /\ Len(u) <= MaxPending
    BY <1>4, <2>1, <2>2, PushIs
  <2>4. PICK y : y = early
    OBVIOUS
  <2>5. /\ y \in Meter /\ y.pending = n.pending /\ y.earlyTx = u /\ y.host = n.host
        /\ y.hard = n.hard /\ y.slip = n.slip
    <3>1. y = [n EXCEPT !.earlyTx = u]
      BY <2>1, <2>4
    <3> QED BY <1>4, <2>3, <3>1 DEF Meter
  <2>6. Orderly(y)
    BY <1>3, <2>3, <2>5 DEF Orderly
  <2>7. Keeps(n, y)
    BY <2>5, <2>6 DEF Keeps
  <2> QED BY <2>4, <2>7
<1>8. PICK o : o = ObserveEcho(m, k, raw, t)
  OBVIOUS
<1>9. Keeps(n, o) \/ o = n
  BY <1>1, <1>6, <1>7, <1>8
<1>10. Keeps(m, o)
  BY <1>2, <1>9, KeepsBoth
<1> QED BY <1>8, <1>10

\* A frame is received: it is taken for an echo, or counted.
LEMMA ObserveRxKeeps ==
  ASSUME NEW m, Orderly(m), NEW k \in Key, NEW raw \in Nat, NEW t \in Time
  PROVE  Keeps(m, ObserveRx(m, k, raw, t))
<1> DEFINE n == Expired(m, t)
           i == RecentOf(n.pending, k, t)
           p == n.pending[i]
           c == [n EXCEPT !.pending = RemoveAt(n.pending, i)]
<1>1. ObserveRx(m, k, raw, t) =
        IF i # 0 THEN IF p.confirmed THEN c ELSE Relocate(c, p, raw, t, Measured[k])
        ELSE IF raw # 0 THEN AddHardware(n, raw, t, Measured[k])
        ELSE AddHost(n, t, Measured[k])
  BY DEF ObserveRx, RecentOf
<1>0. t \in Nat /\ Measured[k] \in Cost
  BY FrameAssumption DEF Time, Cost
<1>2. Keeps(m, n)
  BY <1>0, ExpiredToo
<1> HIDE DEF n
<1>3. Orderly(n)
  BY <1>2 DEF Keeps
<1>4. /\ n \in Meter /\ n.pending \in Seq(PendingTx) /\ Len(n.pending) <= MaxPending
      /\ n.earlyTx \in Seq(EarlyTx) /\ Len(n.earlyTx) <= MaxPending
  BY <1>3, OrderlyParts
<1>5. i = 0 \/ i \in 1..Len(n.pending)
  BY <1>4, SelectedRx
<1> HIDE DEF i
<1>6. ASSUME i # 0
      PROVE  Keeps(n, IF p.confirmed THEN c ELSE Relocate(c, p, raw, t, Measured[k]))
  <2>1. PICK q, d : q = n.pending /\ d = i
    OBVIOUS
  <2>2. q \in Seq(PendingTx) /\ d \in 1..Len(q) /\ q # <<>> /\ Len(q) \in Nat
    BY <1>4, <1>5, <1>6, <2>1
  <2>3. PICK v, y : v = RemoveAt(q, d) /\ y = c
    OBVIOUS
  <2>4. v \in Seq(PendingTx) /\ Len(v) = Len(q) - 1
    BY <2>2, <2>3, RemoveAtIs
  <2>5. y = [n EXCEPT !.pending = v]
    BY <2>1, <2>3
  <2>6. /\ y \in Meter /\ y.pending = v /\ y.earlyTx = n.earlyTx /\ y.host = n.host
        /\ y.hard = n.hard /\ y.slip = n.slip
    BY <1>4, <2>4, <2>5 DEF Meter
  <2>7. /\ y.host.origin # 0 /\ Balanced(y.hard.slots) /\ InTime(q) /\ y.host \in WindowType
        /\ (~y.slip => Books(y.host, q) /\ Within(y.host, q))
    BY <1>3, <2>1, <2>2, <2>6 DEF Orderly, Meter
  <2>8. Len(y.pending) <= MaxPending /\ Len(y.earlyTx) <= MaxPending
    <3>1. Len(v) <= MaxPending
      BY <1>4, <2>1, <2>2, <2>4, Slotted
    <3> QED BY <1>4, <2>6, <3>1
  <2>9. CASE q[d].confirmed
    <3>1. ASSUME ~y.slip PROVE Books(y.host, v) /\ Within(y.host, v)
      <4>1. Books(y.host, q) /\ Within(y.host, q)
        BY <2>7, <3>1
      <4> QED BY <2>2, <2>3, <2>7, <2>9, <4>1, BooksSkip
    <3>2. InTime(v) /\ \A x : NotAfter(q, x) => NotAfter(v, x)
      BY <2>2, <2>3, <2>7, RemovedInTime
    <3>3. Orderly(y)
      BY <2>6, <2>7, <2>8, <3>1, <3>2 DEF Orderly
    <3>4. Keeps(n, y)
      BY <2>1, <2>6, <3>2, <3>3 DEF Keeps
    <3> QED BY <2>1, <2>3, <2>9, <3>4
  <2>10. CASE ~q[d].confirmed
    <3>1. PICK r : r = Relocate(y, q[d], raw, t, Measured[k])
      OBVIOUS
    <3>2. y.pending = RemoveAt(q, d)
      BY <2>3, <2>6
    <3>3. Orderly(r) /\ \A x : NotAfter(q, x) => NotAfter(r.pending, x)
      BY <1>0, <2>2, <2>6, <2>7, <2>8, <2>10, <3>1, <3>2, RelocateOrderly
    <3>4. Keeps(n, r)
      BY <2>1, <3>3 DEF Keeps
    <3> QED BY <2>1, <2>3, <2>10, <3>1, <3>4
  <2> QED BY <2>9, <2>10
<1>7. Keeps(n, AddHardware(n, raw, t, Measured[k]))
  BY <1>0, <1>3, AddHardwareKeeps
<1>8. Keeps(n, AddHost(n, t, Measured[k]))
  BY <1>0, <1>3, AddHostKeeps
<1>9. PICK o : o = ObserveRx(m, k, raw, t)
  OBVIOUS
<1>10. Keeps(n, o)
  BY <1>1, <1>6, <1>7, <1>8, <1>9
<1>11. Keeps(m, o)
  BY <1>2, <1>10, KeepsBoth
<1> QED BY <1>9, <1>11

-----------------------------------------------------------------------------
\* What the two goroutines carry: their times are past, and no transmission is pending that
\* was recorded after the writer took its time (only the writer records, under opMu).
Writing ==
  /\ writer.pc \in {"idle", "written", "record"}
  /\ writer.pc # "idle" => writer.key \in Key
  /\ writer.pc = "record" => /\ writer.at \in Time /\ writer.at <= now
                             /\ NotAfter(meter.pending, writer.at)

Reading == reader.pc = "observe" => reader.frame \in Entry /\ reader.at \in Time

LogType == logClock \in [known : BOOLEAN, previous : Nat, elapsed : Nat]

MInv ==
  /\ Orderly(meter) /\ now \in 1..MaxTime /\ NotAfter(meter.pending, now)
  /\ Writing /\ Reading /\ LogType

LEMMA NotAfterLater ==
  ASSUME NEW q \in Seq(PendingTx), NEW x \in Nat, NEW y \in Nat, x <= y, NotAfter(q, x)
  PROVE  NotAfter(q, y)
<1> SUFFICES ASSUME NEW j \in 1..Len(q) PROVE q[j].at <= y
  BY DEF NotAfter
<1>1. PICK a : a = q[j].at
  OBVIOUS
<1>2. a \in Nat /\ a <= x
  BY <1>1, ListTyped DEF NotAfter
<1> QED BY <1>1, <1>2

LEMMA RawTyped ==
  ASSUME NEW t \in Nat
  PROVE  Raw(t) \in Nat
<1>1. t + Offset \in Nat /\ Wrap \in Nat
  BY Slotted
<1>2. Wrap # 0 => (t + Offset) % Wrap \in Nat
  BY <1>1
<1> QED BY <1>1, <1>2 DEF Raw

LEMMA LogObservedTyped ==
  ASSUME NEW c \in [known : BOOLEAN, previous : Nat, elapsed : Nat], NEW raw \in Nat
  PROVE  LogObserved(c, raw) \in [known : BOOLEAN, previous : Nat, elapsed : Nat]
<1> DEFINE d == IF raw >= c.previous THEN raw - c.previous
                ELSE IF Wrap > c.previous THEN Wrap - c.previous + raw ELSE 0
<1>1. d \in Nat
  <2>1. PICK p : p = c.previous
    OBVIOUS
  <2>2. p \in Nat /\ Wrap \in Nat
    BY <2>1, Slotted
  <2>3. (IF raw >= p THEN raw - p ELSE IF Wrap > p THEN Wrap - p + raw ELSE 0) \in Nat
    BY <2>2
  <2> QED BY <2>1, <2>3
<1> HIDE DEF d
<1>2. LogObserved(c, raw) = IF ~c.known THEN [known |-> TRUE, previous |-> raw, elapsed |-> 0]
                            ELSE [c EXCEPT !.previous = raw, !.elapsed = c.elapsed + d]
  BY DEF LogObserved, d
<1>3. c.elapsed + d \in Nat
  BY <1>1
<1>4. PICK z : z = c.elapsed + d
  OBVIOUS
<1>5. [c EXCEPT !.previous = raw, !.elapsed = z] \in [known : BOOLEAN, previous : Nat, elapsed : Nat]
  BY <1>3, <1>4
<1>6. [known |-> TRUE, previous |-> raw, elapsed |-> 0] \in [known : BOOLEAN, previous : Nat, elapsed : Nat]
  OBVIOUS
<1> QED BY <1>2, <1>4, <1>5, <1>6

LEMMA MInvInit == Init => MInv
<1> SUFFICES ASSUME Init PROVE MInv
  OBVIOUS
<1>1. Unused \in WindowType /\ Balanced(Unused.slots)
  BY EmptyTyped DEF Unused, WindowType
<1>2. /\ meter.host = Unused /\ meter.hard = Unused /\ meter.pending = <<>> /\ meter.earlyTx = <<>>
      /\ meter \in Meter
  <2>1. meter = [host |-> Unused, hard |-> Unused, started |-> FALSE,
                 dev |-> [known |-> FALSE, lastRaw |-> 0, last |-> 0, lastHost |-> 0],
                 pending |-> <<>>, earlyTx |-> <<>>, slip |-> FALSE]
    BY DEF Init
  <2> QED BY <1>1, <2>1 DEF Meter, DevType
<1>3. InTime(meter.pending) /\ Within(meter.host, meter.pending) /\ \A x : NotAfter(meter.pending, x)
  <2>1. Len(meter.pending) = 0
    BY <1>2
  <2> QED BY <2>1 DEF InTime, Within, NotAfter
<1>4. Books(meter.host, meter.pending)
  <2> SUFFICES ASSUME NEW i \in Index
               PROVE  Column(Len(meter.pending), Charges(meter.pending, meter.host, i), meter.host.slots[i])
    BY DEF Books
  <2>1. PICK q, w, s, n, c : q = meter.pending /\ w = meter.host /\ s = w.slots[i] /\ n = Len(q) /\ c = Charges(q, w, i)
    OBVIOUS
  <2>2. q \in Seq(PendingTx) /\ n = 0 /\ s \in Slot /\ (s.frames = 0 <=> s.occupied = 0)
    BY <1>1, <1>2, <2>1 DEF WindowType, Balanced
  <2>3. c \in [1..n -> Nat] /\ \A j \in 1..n : c[j] = 0
    <3>1. c \in [1..Len(q) -> Nat]
      BY <2>1, <2>2, ChargesTyped
    <3> QED BY <2>1, <2>2, <3>1
  <2>4. Column(n, c, s)
    BY <2>2, <2>3, ColumnPlain
  <2> QED BY <2>1, <2>4
<1>5. Len(meter.pending) <= MaxPending /\ Len(meter.earlyTx) <= MaxPending
  BY <1>2, Slotted
<1>6. Orderly(meter)
  BY <1>1, <1>2, <1>3, <1>4, <1>5 DEF Orderly
<1>7. now \in 1..MaxTime
  BY WindowAssumption DEF Init
<1>8. Writing /\ Reading /\ LogType
  BY DEF Init, Idle, Writing, Reading, LogType
<1> QED BY <1>3, <1>6, <1>7, <1>8 DEF MInv

LEMMA MInvParts ==
  ASSUME MInv
  PROVE  now \in Nat /\ now \in Time /\ meter.pending \in Seq(PendingTx) /\ Orderly(meter)
BY OrderlyParts DEF MInv, Time

\* The reader and the snapshot keep what is in the list.
LEMMA MeterKept ==
  ASSUME MInv, Keeps(meter, meter'), UNCHANGED <<now, writer, logClock>>, Reading'
  PROVE  MInv'
<1>1. Orderly(meter') /\ \A x : NotAfter(meter.pending, x) => NotAfter(meter'.pending, x)
  BY DEF Keeps
<1>2. Orderly(meter)' /\ NotAfter(meter.pending, now)' /\ now' \in 1..MaxTime /\ LogType'
  <2>1. Orderly(meter)'
    BY <1>1 DEF Orderly, Meter, WindowType, Slot, Index, Balanced, InTime, Books, Within
  <2>2. NotAfter(meter.pending, now)'
    BY <1>1 DEF MInv, NotAfter
  <2> QED BY <2>1, <2>2 DEF MInv, LogType
<1>3. Writing'
  BY <1>1 DEF MInv, Writing
<1> QED BY <1>2, <1>3 DEF MInv

LEMMA MInvStep == LInv /\ MInv /\ [Next]_vars => MInv'
<1> SUFFICES ASSUME LInv, MInv, [Next]_vars PROVE MInv'
  OBVIOUS
<1>0. now \in Nat /\ now \in Time /\ meter.pending \in Seq(PendingTx) /\ Orderly(meter)
  BY MInvParts
<1>1. CASE Tick
  <2>1. now' = now + 1 /\ now < MaxTime /\ UNCHANGED <<meter, logClock, writer, reader>>
    BY <1>1 DEF Tick
  <2>2. now' \in 1..MaxTime /\ now' \in Nat /\ now <= now'
    BY <1>0, <2>1, WindowAssumption
  <2>3. NotAfter(meter.pending, now')
    BY <1>0, <2>2, NotAfterLater DEF MInv
  <2>4. Writing'
    <3>1. writer.pc = "record" => writer.at <= now'
      <4> SUFFICES ASSUME writer.pc = "record" PROVE writer.at <= now'
        OBVIOUS
      <4>1. PICK a : a = writer.at
        OBVIOUS
      <4>2. a \in Nat /\ a <= now
        BY <4>1 DEF MInv, Writing, Time
      <4> QED BY <1>0, <2>1, <4>1, <4>2
    <3> QED BY <2>1, <3>1 DEF MInv, Writing
  <2> QED BY <2>1, <2>2, <2>3, <2>4 DEF MInv, Reading, LogType
<1>2. ASSUME NEW k \in Key, Receive(k) PROVE MInv'
  BY <1>2 DEF Receive, MInv, Writing, Reading, LogType
<1>3. ASSUME NEW k \in Key, Write(k) PROVE MInv'
  <2>1. writer' = [pc |-> "written", key |-> k, t |-> now] /\ UNCHANGED <<now, meter, logClock, reader>>
    BY <1>3 DEF Write
  <2>2. Writing'
    BY <2>1 DEF Writing
  <2> QED BY <2>1, <2>2 DEF MInv, Reading, LogType
<1>4. CASE WriteReturns
  <2>1. /\ writer.pc = "written" /\ UNCHANGED <<now, meter, logClock, reader>>
        /\ writer' = [pc |-> "record", key |-> writer.key, t |-> writer.t, at |-> now]
    BY <1>4 DEF WriteReturns
  <2>2. Writing'
    BY <1>0, <2>1 DEF MInv, Writing
  <2> QED BY <2>1, <2>2 DEF MInv, Reading, LogType
<1>5. CASE Record
  <2>1. /\ writer.pc = "record" /\ UNCHANGED <<now, logClock, reader>>
        /\ meter' = RecordTx(meter, writer.key, writer.at) /\ writer' = Idle
    BY <1>5 DEF Record
  <2>2. writer.key \in Key /\ writer.at \in Time /\ writer.at <= now /\ NotAfter(meter.pending, writer.at)
    BY <2>1 DEF MInv, Writing
  <2>3. Orderly(meter') /\ NotAfter(meter'.pending, writer.at)
    BY <1>0, <2>1, <2>2, RecordTxOrderly
  <2>4. NotAfter(meter'.pending, now)
    <3>1. PICK q, a : q = meter'.pending /\ a = writer.at
      OBVIOUS
    <3>2. q \in Seq(PendingTx) /\ a \in Nat /\ a <= now /\ NotAfter(q, a)
      BY <2>2, <2>3, <3>1, OrderlyParts DEF Time
    <3>3. NotAfter(q, now)
      BY <1>0, <3>2, NotAfterLater
    <3> QED BY <3>1, <3>3
  <2>5. Writing'
    BY <2>1 DEF Idle, Writing
  <2> QED BY <2>1, <2>3, <2>4, <2>5 DEF MInv, Reading, LogType
<1>6. CASE Read
  <2>1. /\ queue # <<>> /\ UNCHANGED <<now, meter, writer>>
        /\ reader' = [pc |-> "observe", frame |-> Head(queue), at |-> now]
        /\ logClock' = LogObserved(logClock, Raw(Head(queue).t))
    BY <1>6 DEF Read
  <2>2. Head(queue) \in Entry
    <3>1. queue \in Seq(Entry)
      BY DEF LInv, Suffix
    <3> QED BY <2>1, <3>1
  <2>3. LogType'
    <3>1. PICK t : t = Head(queue).t
      OBVIOUS
    <3>2. t \in Nat
      BY <2>2, <3>1 DEF Entry
    <3>3. Raw(t) \in Nat
      BY <3>2, RawTyped
    <3>4. LogObserved(logClock, Raw(t)) \in [known : BOOLEAN, previous : Nat, elapsed : Nat]
      BY <3>3, LogObservedTyped DEF MInv, LogType
    <3> QED BY <2>1, <3>1, <3>4 DEF LogType
  <2>4. Reading'
    BY <1>0, <2>1, <2>2 DEF Reading
  <2> QED BY <2>1, <2>3, <2>4 DEF MInv, Writing
<1>7. CASE Observe
  <2> DEFINE f == reader.frame
             o == Observed(f, reader.at)
  <2>1. /\ reader.pc = "observe" /\ UNCHANGED <<now, logClock, writer>> /\ reader' = Idle
        /\ meter' = IF stamped /\ Raw(f.t) = 0 THEN Slip(o) ELSE o
    BY <1>7 DEF Observe
  <2>2. f \in Entry /\ reader.at \in Time
    BY <2>1 DEF MInv, Reading
  <2>3. f.key \in Key /\ f.t \in Nat
    BY <2>2 DEF Entry
  <2>4. Raw(f.t) \in Nat
    BY <2>3, RawTyped
  <2> HIDE DEF f
  <2>5. Keeps(meter, o)
    <3>1. Keeps(meter, ObserveEcho(meter, f.key, Raw(f.t), reader.at))
      BY <1>0, <2>2, <2>3, <2>4, ObserveEchoKeeps
    <3>2. Keeps(meter, ObserveRx(meter, f.key, Raw(f.t), reader.at))
      BY <1>0, <2>2, <2>3, <2>4, ObserveRxKeeps
    <3> QED BY <3>1, <3>2 DEF Observed
  <2> HIDE DEF o
  <2>6. Keeps(o, Slip(o))
    BY <2>5, SlipKeeps DEF Keeps
  <2>7. Keeps(meter, Slip(o))
    BY <2>5, <2>6, KeepsBoth
  <2>8. Keeps(meter, meter')
    BY <2>1, <2>5, <2>7
  <2>9. Reading'
    BY <2>1 DEF Idle, Reading
  <2> QED BY <2>1, <2>8, <2>9, MeterKept
<1>8. CASE Snapshot
  <2>1. meter' = Aged(meter, now) /\ UNCHANGED <<now, logClock, writer, reader>>
    BY <1>8 DEF Snapshot
  <2>2. Keeps(meter, Aged(meter, now))
    BY <1>0, AgedKeeps
  <2>3. Reading'
    BY <2>1 DEF MInv, Reading
  <2> QED BY <2>1, <2>2, <2>3, MeterKept
<1>9. CASE UNCHANGED vars
  BY <1>9 DEF vars, MInv, Writing, Reading, LogType
<1> QED BY <1>1, <1>2, <1>3, <1>4, <1>5, <1>6, <1>7, <1>8, <1>9 DEF Next

\* The meter keeps its books: between any two calls each slot of the host's window is what
\* the pending transmissions in it occupy and a rest, until a frame falls on an edge; and
\* no pending transmission is timed after the one about to be recorded (recordTx,
\* observeWithBitCount, snapshot).
THEOREM MeterOrderly == Spec => []MInv
<1>1. LInv /\ MInv /\ [Next]_vars => (LInv /\ MInv)'
  BY LInvStep, MInvStep
<1>2. Init => LInv /\ MInv
  BY LInvInit, MInvInit
<1> QED BY <1>1, <1>2, PTL DEF Spec

\* The types of the meter: no slot is counted below zero, no list outgrows maxPendingTx,
\* whatever is sent, received, echoed early, late or never (removeHostLocked, recordTx,
\* observeWithBitCount).
THEOREM TypeCorrect == Spec => []TypeOK
<1>1. MInv => TypeOK
  <2> SUFFICES ASSUME MInv PROVE TypeOK
    OBVIOUS
  <2>1. Orderly(meter) /\ now \in 1..MaxTime /\ LogType
    BY DEF MInv
  <2>2. meter \in Meter /\ Len(meter.pending) <= MaxPending /\ Len(meter.earlyTx) <= MaxPending
    BY <2>1 DEF Orderly
  <2> QED BY <2>1, <2>2 DEF TypeOK, LogType, Meter, DevType
<1> QED BY <1>1, MeterOrderly, PTL

\* A slot is occupied exactly when it has frames, however often a transmission is moved from
\* the window of the host to that of the adapter (relocatePending, removeHostLocked).
THEOREM SlotsHold == Spec => []SlotsConsistent
<1>1. MInv => SlotsConsistent
  <2> SUFFICES ASSUME MInv, ~meter.slip PROVE Balanced(meter.host.slots) /\ Balanced(meter.hard.slots)
    BY DEF SlotsConsistent, Balanced
  <2>1. /\ Books(meter.host, meter.pending) /\ Balanced(meter.hard.slots)
        /\ meter.pending \in Seq(PendingTx)
    BY OrderlyParts DEF MInv, Orderly
  <2> QED BY <2>1, BooksBalanced
<1> QED BY <1>1, MeterOrderly, PTL
=============================================================================

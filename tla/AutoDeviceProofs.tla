--------------------------- MODULE AutoDeviceProofs ---------------------------
(***************************************************************************)
(* Proofs about AutoDevice, for any goroutines, buses and devices, and any *)
(* list of candidates.                                                     *)
(***************************************************************************)
EXTENDS AutoDevice, SequenceTheorems, TLAPS

\* What initialize takes hold of altogether.
Full(k) == ToSet(Stages(k)) \ {"check"}

\* Where a goroutine works on a device under the device's lock, and on one at all;
\* where an Open is on its way, and where an Open or a Close stops a device.
UnderLock == {"stages", "release", "released"}
WithDevice == UnderLock \cup {"startDevice", "stopDevice"}
Opening == {"initialize", "probe", "stages", "release", "start", "startDevice"}
Stopping == {"stop", "stopDevice", "released"}

\* TypeOK in parts.
ProcTypes ==
  /\ pc \in [Proc -> {"idle", "open", "initialize", "probe", "stages", "release", "start",
                      "startDevice", "close", "closing", "stop", "stopDevice", "released"}]
  /\ calls \in [Proc -> Nat] /\ next \in [Proc -> 1..(Len(Candidates) + 1)]
  /\ at \in [Proc -> Bus \cup {None}] /\ cur \in [Proc -> Device \cup {None}]
  /\ todo \in [Proc -> Seq(Held \cup {"check"})]
BusTypes ==
  /\ open \subseteq Bus /\ overtaken \subseteq Bus
  /\ mu \in [Bus -> Proc \cup {None}] /\ sendMu \in [Bus -> Proc \cup {None}]
  /\ autoMu \in [Bus -> Proc \cup {None}] /\ driver \in [Bus -> Device \cup {None}]
DevTypes ==
  /\ opMu \in [Device -> Proc \cup {None}]
  /\ kind \in [Device -> Kinds \cup ToSet(Candidates) \cup {None}]
  /\ initialized \subseteq Device /\ held \in [Device -> SUBSET Held] /\ inUse \in BOOLEAN
Holders ==
  /\ \A b \in Bus, q \in Proc : mu[b] = q \/ sendMu[b] = q \/ autoMu[b] = q => at[q] = b
  /\ \A d \in Device, q \in Proc : opMu[d] = q => cur[q] = d
Types == ProcTypes /\ BusTypes /\ DevTypes /\ Holders

\* Who holds which lock: the write lock of mu is held by an Open until it ends, also
\* while it stops what it could not start; sendMu by a Close; autoDevice.mu by an Open
\* that tries candidates, which there is only while no device is selected; the lock of
\* a device in its initialize and in its stop.
MuHeld ==
  /\ \A p \in Proc : pc[p] \in Opening => mu[at[p]] = p
  /\ \A p \in Proc, b \in Bus : mu[b] = p => pc[p] \in Opening \cup Stopping
  /\ \A b \in Bus : mu[b] # None => b \notin open
  /\ \A p \in Proc : pc[p] # "idle" => at[p] \in Bus
SendMuHeld ==
  /\ \A p \in Proc : pc[p] = "closing" => sendMu[at[p]] = p
  /\ \A p \in Proc : pc[p] \in Stopping => mu[at[p]] = p \/ sendMu[at[p]] = p
  /\ \A p \in Proc, b \in Bus : sendMu[b] = p => pc[p] \in {"closing"} \cup Stopping /\ mu[b] # p
AutoMuHeld ==
  /\ \A p \in Proc : pc[p] = "probe" \/ (pc[p] \in {"stages", "release"} /\ at[p] \in AutoBus)
                       => autoMu[at[p]] = p
  /\ \A p \in Proc, b \in Bus : autoMu[b] = p =>
       /\ b \in AutoBus /\ mu[b] = p /\ driver[b] = None
       /\ pc[p] \in {"probe", "stages", "release", "stopDevice", "released"}
OpMuHeld ==
  /\ \A p \in Proc : pc[p] \in UnderLock => opMu[cur[p]] = p
  /\ \A p \in Proc, d \in Device : opMu[d] = p => pc[p] \in UnderLock
Locks == MuHeld /\ SendMuHeld /\ AutoMuHeld /\ OpMuHeld

\* Which device a goroutine works on: that of its bus, or one no bus has: a candidate,
\* which is its own, or one that autoDevice.stop has taken from the bus.
Cursors ==
  /\ \A p \in Proc : cur[p] # None <=> pc[p] \in WithDevice
  /\ \A p \in Proc : pc[p] \in WithDevice /\ at[p] \notin AutoBus => cur[p] = driver[at[p]]
  /\ \A p \in Proc, b \in Bus : cur[p] # None /\ driver[b] = cur[p]
                                  => b = at[p] /\ (b \in AutoBus => pc[p] = "startDevice")
  /\ \A p \in Proc : pc[p] \in {"stopDevice", "released"} /\ at[p] \in AutoBus /\ mu[at[p]] = p
                       => driver[at[p]] = None
Candidate == \A p, q \in Proc :
  cur[p] # None /\ at[p] \in AutoBus /\ Probing(p) /\ cur[q] = cur[p] => p = q
\* Buses have devices of their own; a device autoDevice has kept is initialized.
Drivers ==
  /\ \A b, c \in Bus : driver[b] # None /\ driver[b] = driver[c] => b = c
  /\ \A b \in Bus : driver[b] # None <=> b \notin AutoBus \/ driver[b] \in initialized
Kinded ==
  /\ \A b \in Bus : driver[b] # None => kind[driver[b]] \in BackendName
  /\ \A p \in Proc : cur[p] # None => kind[cur[p]] \in BackendName
Ownership == Cursors /\ Candidate /\ Drivers /\ Kinded

\* Stages still to come are all different, the session is the first of them or not
\* among them, and what cleanup does not let go of is taken last.
Plan(s, k) ==
  /\ \A i, j \in DOMAIN s : s[i] = s[j] /\ s[i] # "check" => i = j
  /\ \A i \in DOMAIN s : s[i] = "session" => i = 1
  /\ s # <<>> /\ k = "Toomoss" => s[Len(s)] = "runtime"
  /\ s # <<>> /\ k = "PCAN" => s[Len(s)] = "port"
\* The session is let go of after the adapter.
PortFirst(s) == \A i, j \in DOMAIN s : s[i] = "session" /\ s[j] = "port" => j < i

\* What a device of kind k holds with stages s to come is what the stages before have
\* taken, and the session comes first; ...
Taking(h, s, k) ==
  /\ Plan(s, k) /\ h \cap ToSet(s) = {} /\ h \cup (ToSet(s) \ {"check"}) = Full(k)
  /\ "session" \in ToSet(s) => h = {}
\* ... and with s to be let go of, no more than s.
LettingGo(h, s) == h \subseteq ToSet(s) /\ PortFirst(s)

\* A device at rest holds everything if it is initialized, and nothing otherwise.
Resting == \A d \in Device :
  /\ opMu[d] = None /\ d \in initialized => held[d] \ {"loop"} = Full(kind[d])
  /\ opMu[d] = None /\ d \notin initialized => held[d] = {}
  /\ opMu[d] # None => d \notin initialized
Working == \A p \in Proc :
  /\ pc[p] = "stages" => Taking(held[cur[p]], todo[p], kind[cur[p]])
  /\ pc[p] \in {"release", "released"} => LettingGo(held[cur[p]], todo[p])
Holdings == Resting /\ Working

\* Somebody is answerable for an initialized device: a goroutine about to stop it, or
\* its bus: while it is open, or an Open or a Close has yet to see to it.
Answers(b) == \/ b \in open \/ mu[b] # None
              \/ \E p \in Proc : sendMu[b] = p /\ pc[p] = "stop"
Answered == \A d \in initialized :
  \/ \E p \in Proc : cur[p] = d /\ pc[p] = "stopDevice"
  \/ \E b \in Bus : driver[b] = d /\ Answers(b)

\* Unless an Open overtook a Close: an open bus, and an Open about to start its device,
\* have an initialized one, and no Close has yet to stop it.
Selected(b) == driver[b] \in initialized /\ ~StopPending(b, driver[b])
Usable == \A b \in Bus \ overtaken :
  /\ b \in open => Selected(b) /\ "loop" \in held[driver[b]]
  /\ \A p \in Proc : at[p] = b /\ pc[p] \in {"start", "startDevice"} => Selected(b)
  /\ \A p \in Proc : at[p] = b /\ pc[p] = "startDevice" => cur[p] = driver[b]

\* The inductive invariant.
IInv == Types /\ Locks /\ Ownership /\ Holdings /\ SessionExclusive /\ Answered /\ Usable

-----------------------------------------------------------------------------
(* Sequences of stages. *)

LEMMA SeqParts ==
  ASSUME NEW S, NEW s \in Seq(S), s # <<>>
  PROVE  /\ Head(s) \in S /\ Tail(s) \in Seq(S) /\ Head(s) = s[1] /\ Len(s) \in Nat \ {0}
         /\ Len(Tail(s)) = Len(s) - 1 /\ DOMAIN s = 1..Len(s)
         /\ DOMAIN Tail(s) = 1..(Len(s) - 1)
         /\ \A i \in 1..(Len(s) - 1) : Tail(s)[i] = s[i + 1]
         /\ ToSet(s) = {Head(s)} \cup ToSet(Tail(s))
<1>1. /\ Head(s) \in S /\ Tail(s) \in Seq(S) /\ Head(s) = s[1] /\ Len(s) \in Nat \ {0}
      /\ Len(Tail(s)) = Len(s) - 1 /\ DOMAIN s = 1..Len(s)
      /\ DOMAIN Tail(s) = 1..(Len(s) - 1)
      /\ \A i \in 1..(Len(s) - 1) : Tail(s)[i] = s[i + 1]
  BY HeadTailProperties
<1>2. \A i \in DOMAIN s : i = 1 \/ (i - 1 \in DOMAIN Tail(s) /\ s[i] = Tail(s)[i - 1])
  BY <1>1
<1>3. ToSet(s) \subseteq {Head(s)} \cup ToSet(Tail(s))
  <2> SUFFICES ASSUME NEW i \in DOMAIN s PROVE s[i] \in {Head(s)} \cup ToSet(Tail(s))
    BY DEF ToSet
  <2> QED BY <1>1, <1>2 DEF ToSet
<1>4. {Head(s)} \cup ToSet(Tail(s)) \subseteq ToSet(s)
  BY <1>1 DEF ToSet
<1> QED BY <1>1, <1>3, <1>4

LEMMA EmptyParts == ToSet(<<>>) = {} /\ Plan(<<>>, "Toomoss") /\ PortFirst(<<>>)
BY DEF ToSet, Plan, PortFirst

\* What each backend goes through.
LEMMA StageTable ==
  /\ Stages("Toomoss") = <<"session", "library", "check", "port", "check", "runtime">>
  /\ Stages("TSMaster") = <<"runtime", "library", "check", "port", "statistics", "check">>
  /\ Stages("PCAN") = <<"runtime", "check", "port">>
  /\ Stages("Vector") = <<"runtime", "check", "driver", "check", "port", "check">>
  /\ Stages("CanalystII") = <<"runtime", "check", "port", "check">>
  /\ Stages("Other") = <<"check">>
  /\ \A k \in BackendName : Stages(k) \in Seq(Held \cup {"check"})
<1>1. /\ Stages("Toomoss") = <<"session", "library", "check", "port", "check", "runtime">>
      /\ <<"session", "library", "check", "port", "check", "runtime">> \in Seq(Held \cup {"check"})
  BY DEF Stages, Backend, Toomoss, TSMaster, PCAN, Vector, CanalystII, Other, Held
<1>2. /\ Stages("TSMaster") = <<"runtime", "library", "check", "port", "statistics", "check">>
      /\ <<"runtime", "library", "check", "port", "statistics", "check">> \in Seq(Held \cup {"check"})
  BY DEF Stages, Backend, Toomoss, TSMaster, PCAN, Vector, CanalystII, Other, Held
<1>3. /\ Stages("PCAN") = <<"runtime", "check", "port">>
      /\ <<"runtime", "check", "port">> \in Seq(Held \cup {"check"})
  BY DEF Stages, Backend, Toomoss, TSMaster, PCAN, Vector, CanalystII, Other, Held
<1>4. /\ Stages("Vector") = <<"runtime", "check", "driver", "check", "port", "check">>
      /\ <<"runtime", "check", "driver", "check", "port", "check">> \in Seq(Held \cup {"check"})
  BY DEF Stages, Backend, Toomoss, TSMaster, PCAN, Vector, CanalystII, Other, Held
<1>5. /\ Stages("CanalystII") = <<"runtime", "check", "port", "check">>
      /\ <<"runtime", "check", "port", "check">> \in Seq(Held \cup {"check"})
  BY DEF Stages, Backend, Toomoss, TSMaster, PCAN, Vector, CanalystII, Other, Held
<1>6. Stages("Other") = <<"check">> /\ <<"check">> \in Seq(Held \cup {"check"})
  BY DEF Stages, Backend, Toomoss, TSMaster, PCAN, Vector, CanalystII, Other, Held
<1> QED BY <1>1, <1>2, <1>3, <1>4, <1>5, <1>6 DEF BackendName

LEMMA CleanupTable ==
  /\ Cleanup("Toomoss") = <<"port", "library", "session">>
  /\ Cleanup("TSMaster") = <<"statistics", "port", "library", "runtime">>
  /\ Cleanup("PCAN") = <<"runtime">>
  /\ Cleanup("Vector") = <<"runtime", "port", "driver">>
  /\ Cleanup("CanalystII") = <<"port", "runtime">>
  /\ Cleanup("Other") = <<>>
  /\ \A k \in BackendName : Cleanup(k) \in Seq(Held \cup {"check"})
<1>1. /\ Cleanup("Toomoss") = <<"port", "library", "session">>
      /\ <<"port", "library", "session">> \in Seq(Held \cup {"check"})
  BY DEF Cleanup, Backend, Toomoss, TSMaster, PCAN, Vector, CanalystII, Other, Held
<1>2. /\ Cleanup("TSMaster") = <<"statistics", "port", "library", "runtime">>
      /\ <<"statistics", "port", "library", "runtime">> \in Seq(Held \cup {"check"})
  BY DEF Cleanup, Backend, Toomoss, TSMaster, PCAN, Vector, CanalystII, Other, Held
<1>3. Cleanup("PCAN") = <<"runtime">> /\ <<"runtime">> \in Seq(Held \cup {"check"})
  BY DEF Cleanup, Backend, Toomoss, TSMaster, PCAN, Vector, CanalystII, Other, Held
<1>4. /\ Cleanup("Vector") = <<"runtime", "port", "driver">>
      /\ <<"runtime", "port", "driver">> \in Seq(Held \cup {"check"})
  BY DEF Cleanup, Backend, Toomoss, TSMaster, PCAN, Vector, CanalystII, Other, Held
<1>5. /\ Cleanup("CanalystII") = <<"port", "runtime">>
      /\ <<"port", "runtime">> \in Seq(Held \cup {"check"})
  BY DEF Cleanup, Backend, Toomoss, TSMaster, PCAN, Vector, CanalystII, Other, Held
<1>6. Cleanup("Other") = <<>> /\ <<>> \in Seq(Held \cup {"check"})
  BY DEF Cleanup, Backend, Toomoss, TSMaster, PCAN, Vector, CanalystII, Other, Held
<1> QED BY <1>1, <1>2, <1>3, <1>4, <1>5, <1>6 DEF BackendName

LEMMA FullTable ==
  /\ Full("Toomoss") = {"session", "library", "port", "runtime"}
  /\ Full("TSMaster") = {"runtime", "library", "port", "statistics"}
  /\ Full("PCAN") = {"runtime", "port"}
  /\ Full("Vector") = {"runtime", "driver", "port"}
  /\ Full("CanalystII") = {"runtime", "port"}
  /\ Full("Other") = {}
<1>1. ToSet(Stages("Toomoss")) = {"session", "library", "check", "port", "runtime"}
  BY StageTable DEF ToSet
<1>2. ToSet(Stages("TSMaster")) = {"runtime", "library", "check", "port", "statistics"}
  BY StageTable DEF ToSet
<1>3. ToSet(Stages("PCAN")) = {"runtime", "check", "port"}
  BY StageTable DEF ToSet
<1>4. ToSet(Stages("Vector")) = {"runtime", "check", "driver", "port"}
  BY StageTable DEF ToSet
<1>5. ToSet(Stages("CanalystII")) = {"runtime", "check", "port"}
  BY StageTable DEF ToSet
<1>6. ToSet(Stages("Other")) = {"check"}
  BY StageTable DEF ToSet
<1> QED BY <1>1, <1>2, <1>3, <1>4, <1>5, <1>6 DEF Full

LEMMA ConcatParts ==
  ASSUME NEW S, NEW s \in Seq(S), NEW t \in Seq(S)
  PROVE  /\ s \o t \in Seq(S) /\ ToSet(s \o t) = ToSet(s) \cup ToSet(t)
         /\ PortFirst(s) /\ PortFirst(t) /\ ("session" \notin ToSet(s) \/ "port" \notin ToSet(t))
              => PortFirst(s \o t)
<1>1. /\ s \o t \in Seq(S) /\ Len(s) \in Nat /\ Len(t) \in Nat
      /\ DOMAIN s = 1..Len(s) /\ DOMAIN t = 1..Len(t) /\ DOMAIN (s \o t) = 1..(Len(s) + Len(t))
      /\ \A i \in 1..Len(s) + Len(t) : (s \o t)[i] = IF i <= Len(s) THEN s[i] ELSE t[i - Len(s)]
  BY ConcatProperties
<1>2. \A i \in DOMAIN s : i \in DOMAIN (s \o t) /\ (s \o t)[i] = s[i]
  BY <1>1
<1>3. \A i \in DOMAIN t : i + Len(s) \in DOMAIN (s \o t) /\ (s \o t)[i + Len(s)] = t[i]
  BY <1>1
<1>4. \A i \in DOMAIN (s \o t) :
        \/ i <= Len(s) /\ i \in DOMAIN s /\ (s \o t)[i] = s[i]
        \/ i > Len(s) /\ i - Len(s) \in DOMAIN t /\ (s \o t)[i] = t[i - Len(s)]
  BY <1>1
<1>5. ToSet(s \o t) = ToSet(s) \cup ToSet(t)
  <2>1. ToSet(s) \subseteq ToSet(s \o t)
    BY <1>2 DEF ToSet
  <2>2. ToSet(t) \subseteq ToSet(s \o t)
    BY <1>3 DEF ToSet
  <2>3. ToSet(s \o t) \subseteq ToSet(s) \cup ToSet(t)
    BY <1>4 DEF ToSet
  <2> QED BY <2>1, <2>2, <2>3
<1>6. ASSUME PortFirst(s), PortFirst(t), "session" \notin ToSet(s) \/ "port" \notin ToSet(t),
             NEW i \in DOMAIN (s \o t), NEW j \in DOMAIN (s \o t),
             (s \o t)[i] = "session", (s \o t)[j] = "port"
      PROVE  j < i
  <2>1. i \in Nat /\ j \in Nat
    BY <1>1
  <2>2. CASE i <= Len(s) /\ j <= Len(s)
    BY <1>4, <1>6, <2>1, <2>2 DEF PortFirst
  <2>3. CASE i > Len(s) /\ j > Len(s)
    <3>1. j - Len(s) < i - Len(s)
      BY <1>4, <1>6, <2>1, <2>3 DEF PortFirst
    <3> QED BY <1>1, <2>1, <3>1
  <2>4. CASE i <= Len(s) /\ j > Len(s)
    BY <1>1, <1>4, <1>6, <2>1, <2>4 DEF ToSet
  <2> QED BY <1>1, <2>1, <2>2, <2>3, <2>4
<1> QED BY <1>1, <1>5, <1>6 DEF PortFirst

LEMMA StopParts ==
  ASSUME NEW s \in Seq(Held \cup {"check"}), PortFirst(s)
  PROVE  /\ <<"runtime">> \o s \in Seq(Held \cup {"check"}) /\ PortFirst(<<"runtime">> \o s)
         /\ ToSet(<<"runtime">> \o s) = {"runtime"} \cup ToSet(s)
         /\ \A e \in {"library", "session"} :
              /\ s \o <<e>> \in Seq(Held \cup {"check"}) /\ PortFirst(s \o <<e>>)
              /\ ToSet(s \o <<e>>) = ToSet(s) \cup {e}
<1>1. ASSUME NEW e \in Held
      PROVE  /\ <<e>> \in Seq(Held \cup {"check"}) /\ PortFirst(<<e>>) /\ ToSet(<<e>>) = {e}
  BY DEF PortFirst, ToSet
<1>2. /\ <<"runtime">> \o s \in Seq(Held \cup {"check"}) /\ PortFirst(<<"runtime">> \o s)
      /\ ToSet(<<"runtime">> \o s) = {"runtime"} \cup ToSet(s)
  <2> DEFINE r == <<"runtime">>
  <2>1. r \in Seq(Held \cup {"check"}) /\ PortFirst(r) /\ ToSet(r) = {"runtime"}
    BY <1>1 DEF Held
  <2> HIDE DEF r
  <2>2. /\ r \o s \in Seq(Held \cup {"check"}) /\ PortFirst(r \o s)
        /\ ToSet(r \o s) = {"runtime"} \cup ToSet(s)
    BY <2>1, ConcatParts
  <2> QED BY <2>2 DEF r
<1>3. ASSUME NEW e \in {"library", "session"}
      PROVE  /\ s \o <<e>> \in Seq(Held \cup {"check"}) /\ PortFirst(s \o <<e>>)
             /\ ToSet(s \o <<e>>) = ToSet(s) \cup {e}
  <2> DEFINE r == <<e>>
  <2>1. r \in Seq(Held \cup {"check"}) /\ PortFirst(r) /\ ToSet(r) = {e}
    BY <1>1 DEF Held
  <2> HIDE DEF r
  <2>2. /\ s \o r \in Seq(Held \cup {"check"}) /\ PortFirst(s \o r)
        /\ ToSet(s \o r) = ToSet(s) \cup {e}
    BY <2>1, ConcatParts
  <2> QED BY <2>2 DEF r
<1> QED BY <1>2, <1>3

\* The stages of a stop, without their order.
LEMMA StopTable ==
  ASSUME NEW was \in BOOLEAN
  PROVE  /\ \A k \in BackendName : Stop(k, was) \in Seq(Held \cup {"check"})
         /\ \A k \in BackendName : PortFirst(Stop(k, was))
         /\ \A k \in BackendName : (IF was THEN Full(k) ELSE {}) \subseteq ToSet(Stop(k, was))
<1>1. <<>> \in Seq(Held \cup {"check"}) /\ ToSet(<<>>) = {} /\ PortFirst(<<>>)
  BY DEF Held, ToSet, PortFirst
<1>2. /\ <<"runtime">> \in Seq(Held \cup {"check"})
      /\ ToSet(<<"runtime">>) = {"runtime"}
      /\ PortFirst(<<"runtime">>)
  BY DEF Held, ToSet, PortFirst
<1>3. /\ <<"session">> \in Seq(Held \cup {"check"})
      /\ ToSet(<<"session">>) = {"session"}
      /\ PortFirst(<<"session">>)
  BY DEF Held, ToSet, PortFirst
<1>4. /\ <<"library">> \in Seq(Held \cup {"check"})
      /\ ToSet(<<"library">>) = {"library"}
      /\ PortFirst(<<"library">>)
  BY DEF Held, ToSet, PortFirst
<1>5. /\ <<"port">> \in Seq(Held \cup {"check"})
      /\ ToSet(<<"port">>) = {"port"}
      /\ PortFirst(<<"port">>)
  BY DEF Held, ToSet, PortFirst
<1>6. /\ <<"port", "library">> \in Seq(Held \cup {"check"})
      /\ ToSet(<<"port", "library">>) = {"port", "library"}
      /\ PortFirst(<<"port", "library">>)
  BY DEF Held, ToSet, PortFirst
<1>7. /\ <<"statistics", "port">> \in Seq(Held \cup {"check"})
      /\ ToSet(<<"statistics", "port">>) = {"statistics", "port"}
      /\ PortFirst(<<"statistics", "port">>)
  BY DEF Held, ToSet, PortFirst
<1>8. /\ <<"port", "driver">> \in Seq(Held \cup {"check"})
      /\ ToSet(<<"port", "driver">>) = {"port", "driver"}
      /\ PortFirst(<<"port", "driver">>)
  BY DEF Held, ToSet, PortFirst
<1>9. ASSUME NEW s \in Seq(Held \cup {"check"}), PortFirst(s)
      PROVE  /\ IfInitialized(was, s) \in Seq(Held \cup {"check"})
             /\ PortFirst(IfInitialized(was, s))
             /\ ToSet(IfInitialized(was, s)) = IF was THEN ToSet(s) ELSE {}
  BY <1>1, <1>9 DEF IfInitialized
<1>10. /\ Stop("Toomoss", was) \in Seq(Held \cup {"check"}) /\ PortFirst(Stop("Toomoss", was))
      /\ (IF was THEN Full("Toomoss") ELSE {}) \subseteq ToSet(Stop("Toomoss", was))
  <2> DEFINE s == IfInitialized(was, <<"port", "library">>)
  <2>1. /\ s \in Seq(Held \cup {"check"}) /\ PortFirst(s)
        /\ ToSet(s) = IF was THEN {"port", "library"} ELSE {}
    BY <1>6, <1>9
  <2>2. /\ <<"runtime">> \o s \in Seq(Held \cup {"check"}) /\ PortFirst(<<"runtime">> \o s)
        /\ ToSet(<<"runtime">> \o s) = {"runtime"} \cup ToSet(s)
    <3> HIDE DEF s
    <3> QED BY <2>1, StopParts
  <2>3. /\ <<"runtime">> \o s \o <<"session">> \in Seq(Held \cup {"check"})
        /\ PortFirst(<<"runtime">> \o s \o <<"session">>)
        /\ ToSet(<<"runtime">> \o s \o <<"session">>) = {"runtime"} \cup ToSet(s) \cup {"session"}
    <3> DEFINE t == <<"runtime">> \o s
    <3>1. t \in Seq(Held \cup {"check"}) /\ PortFirst(t)
      BY <2>2
    <3> HIDE DEF t
    <3>2. /\ t \o <<"session">> \in Seq(Held \cup {"check"}) /\ PortFirst(t \o <<"session">>)
         /\ ToSet(t \o <<"session">>) = ToSet(t) \cup {"session"}
      BY <3>1, StopParts
    <3> QED BY <3>2, <2>2 DEF t
  <2>4. Stop("Toomoss", was) = <<"runtime">> \o s \o <<"session">>
    BY DEF Stop, ToomossStop
  <2> QED BY <2>1, <2>3, <2>4, FullTable
<1>11. /\ Stop("TSMaster", was) \in Seq(Held \cup {"check"}) /\ PortFirst(Stop("TSMaster", was))
      /\ (IF was THEN Full("TSMaster") ELSE {}) \subseteq ToSet(Stop("TSMaster", was))
  <2> DEFINE s == IfInitialized(was, <<"statistics", "port">>)
  <2>1. /\ s \in Seq(Held \cup {"check"}) /\ PortFirst(s)
        /\ ToSet(s) = IF was THEN {"statistics", "port"} ELSE {}
    BY <1>7, <1>9
  <2>2. /\ <<"runtime">> \o s \in Seq(Held \cup {"check"}) /\ PortFirst(<<"runtime">> \o s)
        /\ ToSet(<<"runtime">> \o s) = {"runtime"} \cup ToSet(s)
    <3> HIDE DEF s
    <3> QED BY <2>1, StopParts
  <2>3. /\ <<"runtime">> \o s \o <<"library">> \in Seq(Held \cup {"check"})
        /\ PortFirst(<<"runtime">> \o s \o <<"library">>)
        /\ ToSet(<<"runtime">> \o s \o <<"library">>) = {"runtime"} \cup ToSet(s) \cup {"library"}
    <3> DEFINE t == <<"runtime">> \o s
    <3>1. t \in Seq(Held \cup {"check"}) /\ PortFirst(t)
      BY <2>2
    <3> HIDE DEF t
    <3>2. /\ t \o <<"library">> \in Seq(Held \cup {"check"}) /\ PortFirst(t \o <<"library">>)
         /\ ToSet(t \o <<"library">>) = ToSet(t) \cup {"library"}
      BY <3>1, StopParts
    <3> QED BY <3>2, <2>2 DEF t
  <2>4. Stop("TSMaster", was) = <<"runtime">> \o s \o <<"library">>
    BY DEF Stop, TSMasterStop
  <2> QED BY <2>1, <2>3, <2>4, FullTable
<1>12. /\ Stop("PCAN", was) \in Seq(Held \cup {"check"}) /\ PortFirst(Stop("PCAN", was))
      /\ (IF was THEN Full("PCAN") ELSE {}) \subseteq ToSet(Stop("PCAN", was))
  <2> DEFINE s == IfInitialized(was, <<"port">>)
  <2>1. /\ s \in Seq(Held \cup {"check"}) /\ PortFirst(s)
        /\ ToSet(s) = IF was THEN {"port"} ELSE {}
    BY <1>5, <1>9
  <2>2. /\ <<"runtime">> \o s \in Seq(Held \cup {"check"}) /\ PortFirst(<<"runtime">> \o s)
        /\ ToSet(<<"runtime">> \o s) = {"runtime"} \cup ToSet(s)
    <3> HIDE DEF s
    <3> QED BY <2>1, StopParts
  <2>3. Stop("PCAN", was) = <<"runtime">> \o s
    BY DEF Stop, PCANStop
  <2> QED BY <2>1, <2>2, <2>3, FullTable
<1>13. /\ Stop("Vector", was) \in Seq(Held \cup {"check"}) /\ PortFirst(Stop("Vector", was))
      /\ (IF was THEN Full("Vector") ELSE {}) \subseteq ToSet(Stop("Vector", was))
  <2> DEFINE s == IfInitialized(was, <<"port", "driver">>)
  <2>1. /\ s \in Seq(Held \cup {"check"}) /\ PortFirst(s)
        /\ ToSet(s) = IF was THEN {"port", "driver"} ELSE {}
    BY <1>8, <1>9
  <2>2. /\ <<"runtime">> \o s \in Seq(Held \cup {"check"}) /\ PortFirst(<<"runtime">> \o s)
        /\ ToSet(<<"runtime">> \o s) = {"runtime"} \cup ToSet(s)
    <3> HIDE DEF s
    <3> QED BY <2>1, StopParts
  <2>3. Stop("Vector", was) = <<"runtime">> \o s
    BY DEF Stop, VectorStop
  <2> QED BY <2>1, <2>2, <2>3, FullTable
<1>14. /\ Stop("CanalystII", was) \in Seq(Held \cup {"check"}) /\ PortFirst(Stop("CanalystII", was))
      /\ (IF was THEN Full("CanalystII") ELSE {}) \subseteq ToSet(Stop("CanalystII", was))
  <2> DEFINE s == IfInitialized(was, <<"port">>)
  <2>1. /\ s \in Seq(Held \cup {"check"}) /\ PortFirst(s)
        /\ ToSet(s) = IF was THEN {"port"} ELSE {}
    BY <1>5, <1>9
  <2>2. /\ <<"runtime">> \o s \in Seq(Held \cup {"check"}) /\ PortFirst(<<"runtime">> \o s)
        /\ ToSet(<<"runtime">> \o s) = {"runtime"} \cup ToSet(s)
    <3> HIDE DEF s
    <3> QED BY <2>1, StopParts
  <2>3. Stop("CanalystII", was) = <<"runtime">> \o s
    BY DEF Stop, CanalystIIStop
  <2> QED BY <2>1, <2>2, <2>3, FullTable
<1>15. /\ Stop("Other", was) = <<>> /\ Full("Other") = {}
  BY FullTable DEF Stop
<1> QED BY <1>1, <1>10, <1>11, <1>12, <1>13, <1>14, <1>15 DEF BackendName

\* Before its first stage a device holds nothing.
LEMMA TakingBegins ==
  ASSUME NEW k \in BackendName
  PROVE  Stages(k) \in Seq(Held \cup {"check"}) /\ Taking({}, Stages(k), k)
<1>1. Stages(k) \in Seq(Held \cup {"check"})
  BY StageTable
<1>2. Plan(Stages(k), k)
  <2>1. Plan(<<"session", "library", "check", "port", "check", "runtime">>, "Toomoss")
    BY DEF Plan
  <2>2. Plan(<<"runtime", "library", "check", "port", "statistics", "check">>, "TSMaster")
    BY DEF Plan
  <2>3. Plan(<<"runtime", "check", "port">>, "PCAN")
    BY DEF Plan
  <2>4. Plan(<<"runtime", "check", "driver", "check", "port", "check">>, "Vector")
    BY DEF Plan
  <2>5. Plan(<<"runtime", "check", "port", "check">>, "CanalystII")
    BY DEF Plan
  <2>6. Plan(<<"check">>, "Other")
    BY DEF Plan
  <2> QED BY <2>1, <2>2, <2>3, <2>4, <2>5, <2>6, StageTable DEF BackendName
<1>3. ToSet(Stages(k)) \ {"check"} = Full(k)
  BY DEF Full
<1> QED BY <1>1, <1>2, <1>3 DEF Taking

LEMMA TakingOne ==
  ASSUME NEW k \in BackendName, NEW h \in SUBSET Held,
         NEW s \in Seq(Held \cup {"check"}), s # <<>>, Taking(h, s, k)
  PROVE  /\ Taking(IF Head(s) = "check" THEN h ELSE h \cup {Head(s)}, Tail(s), k)
         /\ Head(s) = "session" => h = {}
         /\ Head(s) = "port" /\ k = "Toomoss" => "session" \in h
<1>1. "check" \notin Held
  BY DEF Held
<1>2. /\ Head(s) \in Held \cup {"check"} /\ Tail(s) \in Seq(Held \cup {"check"})
      /\ Head(s) = s[1] /\ Len(s) \in Nat \ {0} /\ Len(Tail(s)) = Len(s) - 1
      /\ DOMAIN s = 1..Len(s) /\ DOMAIN Tail(s) = 1..(Len(s) - 1)
      /\ \A i \in 1..(Len(s) - 1) : Tail(s)[i] = s[i + 1]
      /\ ToSet(s) = {Head(s)} \cup ToSet(Tail(s))
  BY SeqParts
<1>3. Plan(Tail(s), k)
  BY <1>2 DEF Taking, Plan
<1>4. Head(s) # "check" => Head(s) \notin ToSet(Tail(s))
  BY <1>2 DEF Taking, Plan, ToSet
<1>5. "session" \notin ToSet(Tail(s))
  BY <1>2 DEF Taking, Plan, ToSet
<1> QED BY <1>1, <1>2, <1>3, <1>4, <1>5, FullTable DEF Taking

LEMMA TakingEnds ==
  ASSUME NEW k \in BackendName, NEW h \in SUBSET Held, Taking(h, <<>>, k)
  PROVE  h \ {"loop"} = Full(k)
BY EmptyParts, FullTable DEF Taking, Full, BackendName

\* A stage that takes the runtime cannot fail; the cleanup after another one covers
\* what was taken before.
LEMMA CleanupCovers ==
  ASSUME NEW k \in BackendName, NEW h \in SUBSET Held,
         NEW s \in Seq(Held \cup {"check"}), s # <<>>, Taking(h, s, k), Head(s) # "runtime"
  PROVE  /\ Cleanup(k) \in Seq(Held \cup {"check"}) /\ LettingGo(h, Cleanup(k))
         /\ Head(s) = "session" => LettingGo(h, <<>>)
<1>1. Cleanup(k) \in Seq(Held \cup {"check"})
  BY CleanupTable
<1>2. PortFirst(Cleanup(k))
  <2>1. PortFirst(<<"port", "library", "session">>)
    BY DEF PortFirst
  <2>2. PortFirst(<<"statistics", "port", "library", "runtime">>)
    BY DEF PortFirst
  <2>3. PortFirst(<<"runtime">>)
    BY DEF PortFirst
  <2>4. PortFirst(<<"runtime", "port", "driver">>)
    BY DEF PortFirst
  <2>5. PortFirst(<<"port", "runtime">>)
    BY DEF PortFirst
  <2>6. PortFirst(<<>>)
    BY DEF PortFirst
  <2> QED BY <2>1, <2>2, <2>3, <2>4, <2>5, <2>6, CleanupTable DEF BackendName
<1>3. s[Len(s)] \in ToSet(s) /\ h \subseteq Full(k) \ ToSet(s)
  BY SeqParts DEF Taking, ToSet
<1>4. /\ k = "Toomoss" => "runtime" \notin h
      /\ k = "PCAN" => "port" \notin h
  BY <1>3 DEF Taking, Plan
<1>5. h \subseteq ToSet(Cleanup(k))
  <2>1. CASE k = "Toomoss"
    <3>1. ToSet(<<"port", "library", "session">>) = {"port", "library", "session"}
      BY DEF ToSet
    <3>2. h \subseteq {"port", "library", "session"}
      BY <1>3, <1>4, <2>1, FullTable
    <3> QED BY <2>1, <3>1, <3>2, CleanupTable
  <2>2. CASE k = "TSMaster"
    <3>1. ToSet(<<"statistics", "port", "library", "runtime">>)
            = {"statistics", "port", "library", "runtime"}
      BY DEF ToSet
    <3>2. h \subseteq {"statistics", "port", "library", "runtime"}
      BY <1>3, <1>4, <2>2, FullTable
    <3> QED BY <2>2, <3>1, <3>2, CleanupTable
  <2>3. CASE k = "PCAN"
    <3>1. ToSet(<<"runtime">>) = {"runtime"}
      BY DEF ToSet
    <3>2. h \subseteq {"runtime"}
      BY <1>3, <1>4, <2>3, FullTable
    <3> QED BY <2>3, <3>1, <3>2, CleanupTable
  <2>4. CASE k = "Vector"
    <3>1. ToSet(<<"runtime", "port", "driver">>) = {"runtime", "port", "driver"}
      BY DEF ToSet
    <3>2. h \subseteq {"runtime", "port", "driver"}
      BY <1>3, <1>4, <2>4, FullTable
    <3> QED BY <2>4, <3>1, <3>2, CleanupTable
  <2>5. CASE k = "CanalystII"
    <3>1. ToSet(<<"port", "runtime">>) = {"port", "runtime"}
      BY DEF ToSet
    <3>2. h \subseteq {"port", "runtime"}
      BY <1>3, <1>4, <2>5, FullTable
    <3> QED BY <2>5, <3>1, <3>2, CleanupTable
  <2>6. CASE k = "Other"
    <3>1. ToSet(<<>>) = {}
      BY DEF ToSet
    <3>2. h \subseteq {}
      BY <1>3, <1>4, <2>6, FullTable
    <3> QED BY <2>6, <3>1, <3>2, CleanupTable
  <2> QED BY <2>1, <2>2, <2>3, <2>4, <2>5, <2>6 DEF BackendName
<1>6. Head(s) = "session" => h = {}
  BY TakingOne
<1> QED BY <1>1, <1>2, <1>5, <1>6, EmptyParts DEF LettingGo

LEMMA StopCovers ==
  ASSUME NEW k \in BackendName, NEW was \in BOOLEAN
  PROVE  LettingGo(IF was THEN Full(k) ELSE {}, Stop(k, was))
BY StopTable DEF LettingGo

LEMMA LettingGoOne ==
  ASSUME NEW h \in SUBSET Held, NEW s \in Seq(Held \cup {"check"}), s # <<>>, LettingGo(h, s)
  PROVE  /\ LettingGo(h \ {Head(s)}, Tail(s))
         /\ Head(s) = "session" => "port" \notin h
<1>1. /\ Head(s) = s[1] /\ Len(s) \in Nat \ {0}
      /\ DOMAIN s = 1..Len(s) /\ DOMAIN Tail(s) = 1..(Len(s) - 1)
      /\ \A i \in 1..(Len(s) - 1) : Tail(s)[i] = s[i + 1]
      /\ ToSet(s) = {Head(s)} \cup ToSet(Tail(s))
  BY SeqParts
<1>2. PortFirst(Tail(s))
  BY <1>1 DEF LettingGo, PortFirst
<1>3. Head(s) = "session" => "port" \notin ToSet(s)
  BY <1>1 DEF LettingGo, PortFirst, ToSet
<1> QED BY <1>1, <1>2, <1>3 DEF LettingGo

LEMMA LettingGoEnds ==
  ASSUME NEW h, LettingGo(h, <<>>)
  PROVE  h = {}
BY EmptyParts DEF LettingGo

-----------------------------------------------------------------------------
(* What the steps have in common. *)

\* A part of the invariant holds as long as its variables stay as they are.
LEMMA Kept ==
  /\ ProcTypes /\ UNCHANGED <<pc, calls, at, cur, todo, next>> => ProcTypes'
  /\ BusTypes /\ UNCHANGED <<open, mu, sendMu, driver, autoMu, overtaken>> => BusTypes'
  /\ DevTypes /\ UNCHANGED <<kind, initialized, held, opMu, inUse>> => DevTypes'
  /\ Holders /\ UNCHANGED <<at, cur, mu, sendMu, autoMu, opMu>> => Holders'
  /\ MuHeld /\ UNCHANGED <<pc, at, open, mu>> => MuHeld'
  /\ SendMuHeld /\ UNCHANGED <<pc, at, mu, sendMu>> => SendMuHeld'
  /\ AutoMuHeld /\ UNCHANGED <<pc, at, mu, driver, autoMu>> => AutoMuHeld'
  /\ OpMuHeld /\ UNCHANGED <<pc, cur, opMu>> => OpMuHeld'
  /\ Cursors /\ UNCHANGED <<pc, at, cur, mu, driver>> => Cursors'
  /\ Candidate /\ UNCHANGED <<at, cur, autoMu>> => Candidate'
  /\ Drivers /\ UNCHANGED <<driver, initialized>> => Drivers'
  /\ Kinded /\ UNCHANGED <<cur, driver, kind>> => Kinded'
  /\ Resting /\ UNCHANGED <<kind, initialized, held, opMu>> => Resting'
  /\ Working /\ UNCHANGED <<pc, cur, todo, kind, held>> => Working'
  /\ SessionExclusive /\ UNCHANGED <<kind, held, inUse>> => SessionExclusive'
  /\ Answered /\ UNCHANGED <<pc, cur, open, mu, sendMu, driver, initialized>> => Answered'
  /\ Usable /\ UNCHANGED <<pc, at, cur, open, sendMu, driver, overtaken, initialized, held>>
       => Usable'
<1>1. ProcTypes /\ UNCHANGED <<pc, calls, at, cur, todo, next>> => ProcTypes'
  BY DEF ProcTypes
<1>2. BusTypes /\ UNCHANGED <<open, mu, sendMu, driver, autoMu, overtaken>> => BusTypes'
  BY DEF BusTypes
<1>3. DevTypes /\ UNCHANGED <<kind, initialized, held, opMu, inUse>> => DevTypes'
  BY DEF DevTypes
<1>4. Holders /\ UNCHANGED <<at, cur, mu, sendMu, autoMu, opMu>> => Holders'
  BY DEF Holders
<1>5. MuHeld /\ UNCHANGED <<pc, at, open, mu>> => MuHeld'
  BY DEF MuHeld
<1>6. SendMuHeld /\ UNCHANGED <<pc, at, mu, sendMu>> => SendMuHeld'
  BY DEF SendMuHeld
<1>7. AutoMuHeld /\ UNCHANGED <<pc, at, mu, driver, autoMu>> => AutoMuHeld'
  BY DEF AutoMuHeld
<1>8. OpMuHeld /\ UNCHANGED <<pc, cur, opMu>> => OpMuHeld'
  BY DEF OpMuHeld
<1>9. Cursors /\ UNCHANGED <<pc, at, cur, mu, driver>> => Cursors'
  BY DEF Cursors
<1>10. Candidate /\ UNCHANGED <<at, cur, autoMu>> => Candidate'
  BY DEF Candidate, Probing
<1>11. Drivers /\ UNCHANGED <<driver, initialized>> => Drivers'
  BY DEF Drivers
<1>12. Kinded /\ UNCHANGED <<cur, driver, kind>> => Kinded'
  BY DEF Kinded
<1>13. Resting /\ UNCHANGED <<kind, initialized, held, opMu>> => Resting'
  BY DEF Resting
<1>14. Working /\ UNCHANGED <<pc, cur, todo, kind, held>> => Working'
  BY DEF Working
<1>15. SessionExclusive /\ UNCHANGED <<kind, held, inUse>> => SessionExclusive'
  BY DEF SessionExclusive
<1>16. Answered /\ UNCHANGED <<pc, cur, open, mu, sendMu, driver, initialized>> => Answered'
  BY DEF Answered, Answers
<1>17. Usable /\ UNCHANGED <<pc, at, cur, open, sendMu, driver, overtaken, initialized, held>>
         => Usable'
  BY DEF Usable, Selected, StopPending
<1> QED BY <1>1, <1>2, <1>3, <1>4, <1>5, <1>6, <1>7, <1>8, <1>9, <1>10, <1>11, <1>12, <1>13,
  <1>14, <1>15, <1>16, <1>17

LEMMA CandidateKinds ==
  /\ Len(Candidates) \in Nat
  /\ \A i \in 1..Len(Candidates) : Candidates[i] \in BackendName \cap ToSet(Candidates)
BY KindAssumption DEF ToSet

\* Goroutine p goes to label with bus b and device d.
Moved(p, label, b, d) ==
  /\ pc'[p] = label /\ at'[p] = b /\ cur'[p] = d
  /\ \A q \in Proc \ {p} : /\ pc'[q] = pc[q] /\ at'[q] = at[q]
                           /\ cur'[q] = cur[q] /\ todo'[q] = todo[q]
\* Nothing changes of buses other than b, of devices other than d.
OnlyBus(b) == \A c \in Bus \ {b} :
  /\ mu'[c] = mu[c] /\ sendMu'[c] = sendMu[c] /\ autoMu'[c] = autoMu[c] /\ driver'[c] = driver[c]
  /\ c \in open' <=> c \in open
  /\ c \in overtaken' <=> c \in overtaken
OnlyDevice(d) == \A e \in Device \ {d} :
  /\ kind'[e] = kind[e] /\ held'[e] = held[e] /\ opMu'[e] = opMu[e]
  /\ e \in initialized' <=> e \in initialized

\* A bus stays as it is, a device stays as it is.
SameBus(b) ==
  /\ mu'[b] = mu[b] /\ sendMu'[b] = sendMu[b] /\ autoMu'[b] = autoMu[b] /\ driver'[b] = driver[b]
  /\ b \in open' <=> b \in open
  /\ b \in overtaken' <=> b \in overtaken

LEMMA Went ==
  ASSUME ProcTypes, NEW p \in Proc
  PROVE  \A label : Goto(p, label) =>
           pc'[p] = label /\ \A q \in Proc \ {p} : pc'[q] = pc[q]
BY DEF ProcTypes, Goto

LEMMA Returned ==
  ASSUME ProcTypes, NEW p \in Proc, Return(p)
  PROVE  ProcTypes' /\ Moved(p, "idle", None, None) /\ todo' = todo /\ calls' = calls
BY CandidateKinds DEF ProcTypes, Return, Goto, Moved

LEMMA Finished ==
  ASSUME ProcTypes, BusTypes, NEW p \in Proc, Finish(p), at[p] \in Bus
  PROVE  /\ ProcTypes' /\ Moved(p, "idle", None, None) /\ todo' = todo
         /\ \A c \in Bus : mu'[c] = IF c = at[p] /\ mu[c] = p THEN None ELSE mu[c]
         /\ \A c \in Bus : sendMu'[c] = IF c = at[p] /\ mu[c] # p THEN None ELSE sendMu[c]
         /\ mu' \in [Bus -> Proc \cup {None}] /\ sendMu' \in [Bus -> Proc \cup {None}]
<1>1. ProcTypes' /\ Moved(p, "idle", None, None) /\ todo' = todo
  BY Returned DEF Finish
<1>2. CASE mu[at[p]] = p
  BY <1>1, <1>2 DEF Finish, BusTypes
<1>3. CASE mu[at[p]] # p
  BY <1>1, <1>3 DEF Finish, BusTypes
<1> QED BY <1>2, <1>3

\* What the types say of single goroutines, buses and devices.
Ranges ==
  /\ \A p \in Proc : at[p] \in Bus \cup {None} /\ cur[p] \in Device \cup {None}
  /\ \A p \in Proc : pc[p] \in WithDevice <=> cur[p] \in Device
  /\ \A b \in Bus : /\ mu[b] \in Proc \cup {None} /\ sendMu[b] \in Proc \cup {None}
                    /\ autoMu[b] \in Proc \cup {None} /\ driver[b] \in Device \cup {None}
  /\ \A d \in Device : opMu[d] \in Proc \cup {None}
  /\ open \subseteq Bus /\ initialized \subseteq Device

LEMMA Ranged == Types /\ Cursors => Ranges
BY NoneAssumption DEF Types, ProcTypes, BusTypes, DevTypes, Ranges, Cursors

\* The device a goroutine works on, and the stages it has to go through.
LEMMA Worked ==
  ASSUME ProcTypes, DevTypes, Kinded, NEW p \in Proc, cur[p] \in Device
  PROVE  /\ kind[cur[p]] \in BackendName /\ held[cur[p]] \in SUBSET Held
         /\ todo[p] \in Seq(Held \cup {"check"})
BY NoneAssumption DEF ProcTypes, DevTypes, Kinded

-----------------------------------------------------------------------------
(* One lemma for each action. *)

\* A goroutine is called: it holds no lock and works on no device.
LEMMA CallStep ==
  ASSUME IInv, NEW p \in Proc, Call(p)
  PROVE  IInv'
<1> USE DEF procVars, busVars, devVars
<1>1. /\ ProcTypes /\ BusTypes /\ DevTypes /\ Holders /\ MuHeld /\ SendMuHeld /\ AutoMuHeld
      /\ OpMuHeld
      /\ Cursors /\ Candidate /\ Drivers /\ Kinded /\ Resting /\ Working /\ SessionExclusive
      /\ Answered /\ Usable /\ Ranges
  BY Ranged DEF IInv, Types, Locks, Ownership, Holdings
<1> DEFINE b == at[p]
<1>2. PICK label \in {"open", "close"}, c \in Bus : 
        /\ pc[p] = "idle" /\ Moved(p, label, c, cur[p])
        /\ UNCHANGED <<cur, todo, next, open, mu, sendMu, driver, autoMu, overtaken, kind,
                       initialized, held, opMu, inUse>>
  BY <1>1, Went DEF Call, ProcTypes, BusTypes, DevTypes, MuHeld, Moved, OnlyBus, OnlyDevice,
     SameBus
<1>3. BusTypes' /\ DevTypes' /\ Drivers' /\ Kinded' /\ Resting' /\ SessionExclusive'
  BY <1>1, <1>2, Kept
<1>4. ProcTypes'
  BY <1>2, <1>1 DEF ProcTypes, Call, Goto
<1>5. Holders'
  BY <1>2, <1>1 DEF Holders, MuHeld, SendMuHeld, AutoMuHeld, Opening, Stopping, Moved
<1>6. MuHeld'
  BY <1>2, <1>1 DEF MuHeld, Opening, Stopping, Moved
<1>7. SendMuHeld'
  BY <1>2, <1>1 DEF SendMuHeld, Stopping, Moved
<1>8. AutoMuHeld'
  BY <1>2, <1>1 DEF AutoMuHeld, Moved
<1>9. OpMuHeld'
  BY <1>2, <1>1 DEF OpMuHeld, UnderLock, Moved
<1>10. Cursors'
  BY <1>2, <1>1 DEF Cursors, WithDevice, UnderLock, Moved
<1>11. Candidate'
  BY <1>2, <1>1 DEF Candidate, Probing, WithDevice, UnderLock, Ranges, Moved
<1>12. Working'
  BY <1>2, <1>1 DEF Working, Moved
<1>13. Answered'
  BY <1>2, <1>1 DEF Answered, Answers, Moved
<1>14. Usable'
  BY <1>2, <1>1 DEF Usable, Selected, StopPending, Moved
<1> QED BY <1>3, <1>4, <1>5, <1>6, <1>7, <1>8, <1>9, <1>10, <1>11, <1>12, <1>13, <1>14
  DEF IInv, Types, Locks, Ownership, Holdings

\* Open takes the write lock of mu, or finds the bus open.
LEMMA OpenLockStep ==
  ASSUME IInv, NEW p \in Proc, OpenLock(p)
  PROVE  IInv'
<1> USE DEF procVars, busVars, devVars
<1>1. /\ ProcTypes /\ BusTypes /\ DevTypes /\ Holders /\ MuHeld /\ SendMuHeld /\ AutoMuHeld
      /\ OpMuHeld
      /\ Cursors /\ Candidate /\ Drivers /\ Kinded /\ Resting /\ Working /\ SessionExclusive
      /\ Answered /\ Usable /\ Ranges
  BY Ranged DEF IInv, Types, Locks, Ownership, Holdings
<1> DEFINE b == at[p]
<1>2. /\ pc[p] = "open" /\ b \in Bus /\ mu[b] = None /\ OnlyBus(b)
      /\ \/ b \in open /\ Moved(p, "idle", None, None) /\ SameBus(b)
         \/ b \notin open /\ Moved(p, "initialize", b, cur[p]) /\ mu'[b] = p
      /\ UNCHANGED <<open, sendMu, driver, autoMu, overtaken, kind, initialized, held, opMu, inUse>>
  BY <1>1, Went, Returned DEF OpenLock, ProcTypes, BusTypes, DevTypes, MuHeld, Moved,
     OnlyBus, OnlyDevice, SameBus
<1>3. DevTypes' /\ Drivers' /\ Resting' /\ SessionExclusive'
  BY <1>1, <1>2, Kept
<1>4. ProcTypes'
  <2>1. CASE b \in open
    BY <1>1, <2>1, Returned DEF OpenLock
  <2>2. CASE b \notin open
    BY <1>1, <2>2 DEF OpenLock, ProcTypes, Goto
  <2> QED BY <2>1, <2>2
<1>5. BusTypes'
  BY <1>2, <1>1 DEF BusTypes, OpenLock
<1>6. Holders'
  BY <1>2, <1>1 DEF Holders, SendMuHeld, AutoMuHeld, OpMuHeld, Stopping, UnderLock, Ranges,
     Moved, OnlyBus, SameBus
<1>7. MuHeld'
  BY <1>2, <1>1, NoneAssumption DEF MuHeld, Opening, Stopping, Moved, OnlyBus, SameBus
<1>8. SendMuHeld'
  BY <1>2, <1>1, NoneAssumption DEF SendMuHeld, MuHeld, Stopping, Moved, OnlyBus, SameBus
<1>9. AutoMuHeld'
  BY <1>2, <1>1, NoneAssumption DEF AutoMuHeld, Moved, OnlyBus
<1>10. OpMuHeld'
  BY <1>2, <1>1 DEF OpMuHeld, UnderLock, Moved
<1>11. Cursors'
  BY <1>2, <1>1 DEF Cursors, MuHeld, WithDevice, UnderLock, Moved, OnlyBus, SameBus
<1>12. Candidate'
  BY <1>2, <1>1 DEF Candidate, Probing, Moved
<1>13. Kinded'
  BY <1>2, <1>1 DEF Kinded, Moved
<1>14. Working'
  BY <1>2, <1>1 DEF Working, Moved
<1>15. Answered'
  BY <1>2, <1>1 DEF Answered, Answers, Moved, OnlyBus
<1>16. Usable'
  BY <1>2, <1>1 DEF Usable, Selected, StopPending, Moved
<1> QED BY <1>3, <1>4, <1>5, <1>6, <1>7, <1>8, <1>9, <1>10, <1>11, <1>12, <1>13, <1>14,
     <1>15, <1>16
  DEF IInv, Types, Locks, Ownership, Holdings

\* Open finds a device selected, which is initialized, or begins to try candidates.
LEMMA InitializeAutoStep ==
  ASSUME IInv, NEW p \in Proc, InitializeAuto(p)
  PROVE  IInv'
<1> USE DEF procVars, busVars, devVars
<1>1. /\ ProcTypes /\ BusTypes /\ DevTypes /\ Holders /\ MuHeld /\ SendMuHeld /\ AutoMuHeld
      /\ OpMuHeld
      /\ Cursors /\ Candidate /\ Drivers /\ Kinded /\ Resting /\ Working /\ SessionExclusive
      /\ Answered /\ Usable /\ Ranges
  BY Ranged DEF IInv, Types, Locks, Ownership, Holdings
<1> DEFINE b == at[p]
<1>2. /\ pc[p] = "initialize" /\ b \in Bus /\ b \in AutoBus /\ autoMu[b] = None /\ OnlyBus(b)
      /\ \/ /\ driver[b] # None /\ Moved(p, "start", b, cur[p]) /\ autoMu' = autoMu
            /\ b \in overtaken' <=> StopPending(b, driver[b])
         \/ /\ driver[b] = None /\ Moved(p, "probe", b, cur[p]) /\ autoMu'[b] = p
            /\ overtaken' = overtaken
      /\ UNCHANGED <<calls, at, cur, todo, next, open, mu, sendMu, driver, kind, initialized,
                     held, opMu, inUse>>
  BY <1>1, Went DEF InitializeAuto, ProcTypes, BusTypes, DevTypes, MuHeld, Moved, OnlyBus,
     OnlyDevice, SameBus, Overtake
<1>3. DevTypes' /\ Drivers' /\ Kinded' /\ Resting' /\ SessionExclusive'
  BY <1>1, <1>2, Kept
<1>4. ProcTypes'
  BY <1>2, <1>1 DEF ProcTypes, InitializeAuto, Goto
<1>5. BusTypes'
  BY <1>2, <1>1 DEF BusTypes, InitializeAuto, Overtake
<1>6. Holders'
  BY <1>2, <1>1 DEF Holders, OnlyBus
<1>7. MuHeld'
  BY <1>2, <1>1 DEF MuHeld, Opening, Moved
<1>8. SendMuHeld'
  BY <1>2, <1>1 DEF SendMuHeld, Stopping, Moved
<1>9. AutoMuHeld'
  BY <1>2, <1>1 DEF AutoMuHeld, MuHeld, Opening, Moved, OnlyBus
<1>10. OpMuHeld'
  BY <1>2, <1>1 DEF OpMuHeld, UnderLock, Moved
<1>11. Cursors'
  BY <1>2, <1>1 DEF Cursors, WithDevice, UnderLock, Moved
<1>12. Candidate'
  BY <1>2, <1>1, AutoAssumption DEF Candidate, Probing, WithDevice, UnderLock, OnlyBus,
     Cursors
<1>13. Working'
  BY <1>2, <1>1 DEF Working, Moved
<1>14. Answered'
  BY <1>2, <1>1 DEF Answered, Answers, Moved
<1>15. Usable'
  BY <1>2, <1>1, NoneAssumption DEF Usable, Selected, StopPending, MuHeld, Opening, Moved,
     OnlyBus, Drivers
<1> QED BY <1>3, <1>4, <1>5, <1>6, <1>7, <1>8, <1>9, <1>10, <1>11, <1>12, <1>13, <1>14,
     <1>15
  DEF IInv, Types, Locks, Ownership, Holdings

\* The next candidate has a device nobody has, which holds nothing.
LEMMA ProbeStep ==
  ASSUME IInv, NEW p \in Proc, Probe(p)
  PROVE  IInv'
<1> USE DEF procVars, busVars, devVars
<1>1. /\ ProcTypes /\ BusTypes /\ DevTypes /\ Holders /\ MuHeld /\ SendMuHeld /\ AutoMuHeld
      /\ OpMuHeld
      /\ Cursors /\ Candidate /\ Drivers /\ Kinded /\ Resting /\ Working /\ SessionExclusive
      /\ Answered /\ Usable /\ Ranges
  BY Ranged DEF IInv, Types, Locks, Ownership, Holdings
<1> DEFINE b == at[p]
<1>2. PICK d \in Device : 
        /\ pc[p] = "probe" /\ b \in Bus
        /\ held[d] = {} /\ (\A c \in Bus : driver[c] # d) /\ (\A q \in Proc : cur[q] # d)
        /\ Moved(p, "stages", b, d) /\ OnlyDevice(d) /\ opMu'[d] = p
        /\ kind'[d] \in BackendName /\ todo'[p] = Stages(kind'[d])
        /\ UNCHANGED <<calls, at, open, mu, sendMu, driver, autoMu, overtaken, initialized, held,
                       inUse>>
  BY <1>1, Went, CandidateKinds DEF Probe, ProcTypes, BusTypes, DevTypes, MuHeld, Moved,
     OnlyBus, OnlyDevice, SameBus, Fresh, Unreferenced, Cursors, WithDevice, UnderLock
<1>3. BusTypes' /\ Drivers'
  BY <1>1, <1>2, Kept
<1>4. ProcTypes'
  BY <1>2, <1>1, CandidateKinds, TakingBegins DEF ProcTypes, Probe, Goto, Fresh,
     Unreferenced
<1>5. DevTypes'
  <2>1. Candidates[next[p]] \in ToSet(Candidates)
    BY <1>1, CandidateKinds DEF Probe, ProcTypes
  <2> QED BY <1>1, <2>1 DEF DevTypes, Probe, Fresh, Unreferenced
<1>6. Holders'
  BY <1>2, <1>1 DEF Holders, OpMuHeld, UnderLock, Moved, OnlyDevice
<1>7. MuHeld'
  BY <1>2, <1>1 DEF MuHeld, Opening, Moved
<1>8. SendMuHeld'
  BY <1>2, <1>1 DEF SendMuHeld, Stopping, Moved
<1>9. AutoMuHeld'
  BY <1>2, <1>1 DEF AutoMuHeld, Moved
<1>10. OpMuHeld'
  BY <1>2, <1>1 DEF OpMuHeld, WithDevice, UnderLock, Ranges, Moved, OnlyDevice
<1>11. Cursors'
  BY <1>2, <1>1 DEF Cursors, WithDevice, UnderLock, Moved, AutoMuHeld
<1>12. Candidate'
  BY <1>2, <1>1 DEF Candidate, Probing, Moved
<1>13. Kinded'
  BY <1>2, <1>1 DEF Kinded, Ranges, Moved, OnlyDevice
<1>14. Resting'
  BY <1>2, <1>1 DEF Resting, OnlyDevice, Answered
<1>15. Working'
  <2>1. Taking(held'[d], todo'[p], kind'[d])
    BY <1>2, TakingBegins
  <2>2. \A q \in Proc \ {p} : pc[q] \in UnderLock => cur[q] \in Device \ {d}
    BY <1>1, <1>2 DEF UnderLock, WithDevice, Ranges
  <2> QED BY <1>1, <1>2, <2>1, <2>2 DEF Working, UnderLock, Moved, OnlyDevice
<1>16. SessionExclusive'
  BY <1>2, <1>1 DEF SessionExclusive, OnlyDevice
<1>17. Answered'
  BY <1>2, <1>1 DEF Answered, Answers, Moved
<1>18. Usable'
  BY <1>2, <1>1 DEF Usable, Selected, StopPending, Moved
<1> QED BY <1>3, <1>4, <1>5, <1>6, <1>7, <1>8, <1>9, <1>10, <1>11, <1>12, <1>13, <1>14,
     <1>15, <1>16, <1>17, <1>18
  DEF IInv, Types, Locks, Ownership, Holdings

\* No candidate is left.
LEMMA ProbeFailsStep ==
  ASSUME IInv, NEW p \in Proc, ProbeFails(p)
  PROVE  IInv'
<1> USE DEF procVars, busVars, devVars
<1>1. /\ ProcTypes /\ BusTypes /\ DevTypes /\ Holders /\ MuHeld /\ SendMuHeld /\ AutoMuHeld
      /\ OpMuHeld
      /\ Cursors /\ Candidate /\ Drivers /\ Kinded /\ Resting /\ Working /\ SessionExclusive
      /\ Answered /\ Usable /\ Ranges
  BY Ranged DEF IInv, Types, Locks, Ownership, Holdings
<1> DEFINE b == at[p]
<1>2. /\ pc[p] = "probe" /\ b \in Bus /\ OnlyBus(b) /\ autoMu'[b] = None
      /\ Moved(p, "stop", b, cur[p])
      /\ UNCHANGED <<calls, at, cur, todo, next, open, mu, sendMu, driver, overtaken, kind,
                     initialized, held, opMu, inUse>>
  BY <1>1, Went DEF ProbeFails, ProcTypes, BusTypes, DevTypes, MuHeld, Moved, OnlyBus,
     OnlyDevice, SameBus
<1>3. DevTypes' /\ Drivers' /\ Kinded' /\ Resting' /\ SessionExclusive'
  BY <1>1, <1>2, Kept
<1>4. ProcTypes'
  BY <1>2, <1>1 DEF ProcTypes, ProbeFails, Goto
<1>5. BusTypes'
  BY <1>2, <1>1 DEF BusTypes, ProbeFails
<1>6. Holders'
  BY <1>2, <1>1, NoneAssumption DEF Holders, OnlyBus
<1>7. MuHeld'
  BY <1>2, <1>1 DEF MuHeld, Opening, Stopping, Moved
<1>8. SendMuHeld'
  BY <1>2, <1>1 DEF SendMuHeld, MuHeld, Opening, Stopping, Moved
<1>9. AutoMuHeld'
  BY <1>2, <1>1, NoneAssumption DEF AutoMuHeld, MuHeld, Holders, Moved, OnlyBus
<1>10. OpMuHeld'
  BY <1>2, <1>1 DEF OpMuHeld, UnderLock, Moved
<1>11. Cursors'
  BY <1>2, <1>1 DEF Cursors, WithDevice, UnderLock, Moved
<1>12. Candidate'
  BY <1>2, <1>1, NoneAssumption, AutoAssumption DEF Candidate, Probing, OnlyBus
<1>13. Working'
  BY <1>2, <1>1 DEF Working, Moved
<1>14. Answered'
  BY <1>2, <1>1 DEF Answered, Answers, Moved
<1>15. Usable'
  BY <1>2, <1>1 DEF Usable, Selected, StopPending, SendMuHeld, Stopping, Moved
<1> QED BY <1>3, <1>4, <1>5, <1>6, <1>7, <1>8, <1>9, <1>10, <1>11, <1>12, <1>13, <1>14,
     <1>15
  DEF IInv, Types, Locks, Ownership, Holdings

\* Open begins to initialize the device of its bus, or finds it initialized.
LEMMA InitializeDeviceStep ==
  ASSUME IInv, NEW p \in Proc, InitializeDevice(p)
  PROVE  IInv'
<1> USE DEF procVars, busVars, devVars
<1>1. /\ ProcTypes /\ BusTypes /\ DevTypes /\ Holders /\ MuHeld /\ SendMuHeld /\ AutoMuHeld
      /\ OpMuHeld
      /\ Cursors /\ Candidate /\ Drivers /\ Kinded /\ Resting /\ Working /\ SessionExclusive
      /\ Answered /\ Usable /\ Ranges
  BY Ranged DEF IInv, Types, Locks, Ownership, Holdings
<1> DEFINE b == at[p]
<1> DEFINE d == driver[b]
<1>2. /\ pc[p] = "initialize" /\ b \in Bus \ AutoBus /\ d \in Device /\ opMu[d] = None
      /\ OnlyBus(b) /\ OnlyDevice(d)
      /\ \/ /\ d \in initialized /\ Moved(p, "start", b, cur[p]) /\ opMu' = opMu /\ todo' = todo
            /\ b \in overtaken' <=> StopPending(b, d)
         \/ /\ d \notin initialized /\ Moved(p, "stages", b, d) /\ opMu'[d] = p
            /\ todo'[p] = Stages(kind[d]) /\ overtaken' = overtaken
      /\ UNCHANGED <<calls, at, next, open, mu, sendMu, driver, autoMu, kind, initialized, held,
                     inUse>>
  BY <1>1, Went DEF InitializeDevice, ProcTypes, BusTypes, DevTypes, MuHeld, Moved, OnlyBus,
     OnlyDevice, SameBus, Overtake, Cursors, WithDevice, UnderLock, Drivers
<1>3. Drivers' /\ SessionExclusive'
  BY <1>1, <1>2, Kept
<1>4. ProcTypes'
  <2>1. CASE d \in initialized
    BY <1>1, <1>2, <2>1 DEF ProcTypes, InitializeDevice, Goto
  <2>2. CASE d \notin initialized
    <3>1. Stages(kind[d]) \in Seq(Held \cup {"check"})
      BY <1>1, <1>2, NoneAssumption, TakingBegins DEF Kinded
    <3> QED BY <1>1, <1>2, <2>2, <3>1 DEF ProcTypes, InitializeDevice, Goto
  <2> QED BY <2>1, <2>2
<1>5. BusTypes'
  BY <1>2, <1>1 DEF BusTypes, InitializeDevice, Overtake
<1>6. DevTypes'
  BY <1>2, <1>1 DEF DevTypes, InitializeDevice
<1>7. Holders'
  BY <1>2, <1>1 DEF Holders, OpMuHeld, UnderLock, Moved, OnlyDevice
<1>8. MuHeld'
  BY <1>2, <1>1 DEF MuHeld, Opening, Moved
<1>9. SendMuHeld'
  BY <1>2, <1>1 DEF SendMuHeld, Stopping, Moved
<1>10. AutoMuHeld'
  BY <1>2, <1>1 DEF AutoMuHeld, Moved
<1>11. OpMuHeld'
  BY <1>2, <1>1, NoneAssumption DEF OpMuHeld, WithDevice, UnderLock, Ranges, Moved,
     OnlyDevice
<1>12. Cursors'
  BY <1>2, <1>1 DEF Cursors, WithDevice, UnderLock, Moved, Drivers
<1>13. Candidate'
  BY <1>2, <1>1 DEF Candidate, Probing, Moved, Cursors
<1>14. Kinded'
  BY <1>2, <1>1 DEF Kinded, Moved
<1>15. Resting'
  BY <1>2, <1>1 DEF Resting, OnlyDevice
<1>16. Working'
  <2>1. CASE d \in initialized
    BY <1>1, <1>2, <2>1 DEF Working, Moved
  <2>2. CASE d \notin initialized
    <3>1. kind[d] \in BackendName /\ held[d] = {}
      BY <1>1, <1>2, <2>2, NoneAssumption DEF Kinded, Resting
    <3>2. Taking(held[d], todo'[p], kind[d])
      BY <1>2, <2>2, <3>1, TakingBegins
    <3> QED BY <1>1, <1>2, <2>2, <3>2 DEF Working, Moved
  <2> QED BY <2>1, <2>2
<1>17. Answered'
  BY <1>2, <1>1 DEF Answered, Answers, Moved
<1>18. Usable'
  BY <1>2, <1>1, NoneAssumption DEF Usable, Selected, StopPending, MuHeld, Opening, Moved,
     OnlyBus
<1> QED BY <1>3, <1>4, <1>5, <1>6, <1>7, <1>8, <1>9, <1>10, <1>11, <1>12, <1>13, <1>14,
     <1>15, <1>16, <1>17, <1>18
  DEF IInv, Types, Locks, Ownership, Holdings

\* A stage succeeds: the device holds what it takes.
LEMMA StageStep ==
  ASSUME IInv, NEW p \in Proc, Stage(p)
  PROVE  IInv'
<1> USE DEF procVars, busVars, devVars
<1>1. /\ ProcTypes /\ BusTypes /\ DevTypes /\ Holders /\ MuHeld /\ SendMuHeld /\ AutoMuHeld
      /\ OpMuHeld
      /\ Cursors /\ Candidate /\ Drivers /\ Kinded /\ Resting /\ Working /\ SessionExclusive
      /\ Answered /\ Usable /\ Ranges
  BY Ranged DEF IInv, Types, Locks, Ownership, Holdings
<1> DEFINE b == at[p]
<1> DEFINE d == cur[p]
<1>2. /\ pc[p] = "stages" /\ d \in Device /\ todo[p] # <<>> /\ Moved(p, "stages", b, d)
      /\ OnlyDevice(d) /\ todo'[p] = Tail(todo[p])
      /\ held'[d] = IF Head(todo[p]) = "check" THEN held[d] ELSE held[d] \cup {Head(todo[p])}
      /\ Head(todo[p]) = "session" => ~inUse
      /\ inUse' = (inUse \/ Head(todo[p]) = "session")
      /\ UNCHANGED <<pc, calls, at, cur, next, open, mu, sendMu, driver, autoMu, overtaken, kind,
                     initialized, opMu>>
  <2>1. pc[p] = "stages" /\ d \in Device
    BY <1>1 DEF Stage, Ranges, WithDevice, UnderLock
  <2>2. Moved(p, "stages", b, d) /\ todo'[p] = Tail(todo[p])
    BY <1>1, <2>1 DEF Stage, ProcTypes, Moved
  <2>3. /\ OnlyDevice(d)
        /\ held'[d] = IF Head(todo[p]) = "check" THEN held[d] ELSE held[d] \cup {Head(todo[p])}
    BY <1>1, <2>1 DEF Stage, DevTypes, OnlyDevice
  <2> QED BY <2>1, <2>2, <2>3 DEF Stage, Acquirable
<1>3. BusTypes' /\ Holders' /\ MuHeld' /\ SendMuHeld' /\ AutoMuHeld' /\ OpMuHeld'
      /\ Cursors' /\ Candidate' /\ Drivers' /\ Kinded' /\ Answered'
  BY <1>1, <1>2, Kept
<1>4. ProcTypes'
  BY <1>2, <1>1 DEF ProcTypes, Stage
<1>5. DevTypes'
  <2>1. Head(todo[p]) \in Held \cup {"check"}
    BY <1>1, <1>2, SeqParts DEF ProcTypes
  <2> QED BY <1>1, <1>2, <2>1 DEF Stage, DevTypes
<1>6. Resting'
  BY <1>2, <1>1, NoneAssumption DEF Resting, OpMuHeld, UnderLock, OnlyDevice
<1>7. Working'
  <2>1. kind[d] \in BackendName /\ held[d] \in SUBSET Held /\ todo[p] \in Seq(Held \cup {"check"})
    BY <1>1, <1>2, Worked
  <2>2. \A q \in Proc \ {p} : pc[q] \in UnderLock => cur[q] \in Device \ {d}
    BY <1>1, <1>2, NoneAssumption DEF OpMuHeld, UnderLock, WithDevice, Ranges
  <2>3. Taking(held[d], todo[p], kind[d])
    BY <1>1, <1>2 DEF Working
  <2>4. todo[p] # <<>>
    BY <1>2
  <2>5. Taking(IF Head(todo[p]) = "check" THEN held[d] ELSE held[d] \cup {Head(todo[p])},
               Tail(todo[p]), kind[d])
    BY <2>1, <2>3, <2>4, TakingOne
  <2>6. Taking(held'[d], todo'[p], kind[d])
    BY <1>2, <2>5
  <2> QED BY <1>1, <1>2, <2>2, <2>6 DEF Working, UnderLock, Moved, OnlyDevice
<1>8. SessionExclusive'
  <2>1. kind[d] \in BackendName /\ held[d] \in SUBSET Held /\ todo[p] \in Seq(Held \cup {"check"})
    BY <1>1, <1>2, Worked
  <2>2. Taking(held[d], todo[p], kind[d])
    BY <1>1, <1>2 DEF Working
  <2>3. todo[p] # <<>>
    BY <1>2
  <2>4. /\ Head(todo[p]) = "session" => held[d] = {}
        /\ Head(todo[p]) = "port" /\ kind[d] = "Toomoss" => "session" \in held[d]
    <3> DEFINE k == kind[d]
               h == held[d]
               s == todo[p]
    <3>1. /\ k \in BackendName /\ h \in SUBSET Held /\ s \in Seq(Held \cup {"check"})
          /\ s # <<>> /\ Taking(h, s, k)
      BY <2>1, <2>2, <2>3
    <3> HIDE DEF k, h, s
    <3>2. /\ Head(s) = "session" => h = {}
          /\ Head(s) = "port" /\ k = "Toomoss" => "session" \in h
      BY <3>1, TakingOne
    <3> QED BY <3>2 DEF k, h, s
  <2>5. \A e \in Device : /\ "session" \in held'[e] <=>
                               "session" \in held[e] \/ (e = d /\ Head(todo[p]) = "session")
                          /\ "port" \in held'[e] =>
                               "port" \in held[e] \/ (e = d /\ Head(todo[p]) = "port")
    BY <1>2 DEF OnlyDevice
  <2>6. \A e, f \in Device : "session" \in held'[e] \cap held'[f] => e = f
    BY <1>1, <1>2, <2>5 DEF SessionExclusive
  <2>7. inUse' = \E e \in Device : "session" \in held'[e]
    <3>1. CASE Head(todo[p]) = "session"
      BY <1>2, <2>5, <3>1
    <3>2. CASE Head(todo[p]) # "session"
      BY <1>1, <1>2, <2>5, <3>2 DEF SessionExclusive, DevTypes
    <3> QED BY <3>1, <3>2
  <2>8. \A e \in Device : kind[e] = "Toomoss" /\ "port" \in held'[e] => "session" \in held'[e]
    BY <1>1, <2>4, <2>5 DEF SessionExclusive
  <2> QED BY <1>2, <2>6, <2>7, <2>8 DEF SessionExclusive
<1>9. Usable'
  <2>1. \A e \in Device : held[e] \subseteq held'[e]
    BY <1>2 DEF OnlyDevice
  <2> QED BY <1>1, <1>2, <2>1 DEF Usable, Selected, StopPending, Ranges
<1> QED BY <1>3, <1>4, <1>5, <1>6, <1>7, <1>8, <1>9
  DEF IInv, Types, Locks, Ownership, Holdings

\* A stage fails: cleanup lets go of all that was taken.
LEMMA StageFailsStep ==
  ASSUME IInv, NEW p \in Proc, StageFails(p)
  PROVE  IInv'
<1> USE DEF procVars, busVars, devVars
<1>1. /\ ProcTypes /\ BusTypes /\ DevTypes /\ Holders /\ MuHeld /\ SendMuHeld /\ AutoMuHeld
      /\ OpMuHeld
      /\ Cursors /\ Candidate /\ Drivers /\ Kinded /\ Resting /\ Working /\ SessionExclusive
      /\ Answered /\ Usable /\ Ranges
  BY Ranged DEF IInv, Types, Locks, Ownership, Holdings
<1> DEFINE b == at[p]
<1> DEFINE d == cur[p]
<1>2. /\ pc[p] = "stages" /\ d \in Device /\ todo[p] # <<>> /\ Moved(p, "release", b, d)
      /\ Head(todo[p]) # "runtime"
      /\ todo'[p] = IF Head(todo[p]) = "session" THEN <<>> ELSE Cleanup(kind[d])
      /\ UNCHANGED <<calls, at, cur, next, open, mu, sendMu, driver, autoMu, overtaken, kind,
                     initialized, held, opMu, inUse>>
  BY <1>1, Went DEF StageFails, ProcTypes, BusTypes, DevTypes, MuHeld, Moved, OnlyBus,
     OnlyDevice, SameBus, Acquirable, Cursors, WithDevice, UnderLock
<1>3. BusTypes' /\ DevTypes' /\ Holders' /\ Candidate' /\ Drivers' /\ Kinded'
      /\ Resting' /\ SessionExclusive'
  BY <1>1, <1>2, Kept
<1>4. ProcTypes'
  <2>1. Cleanup(kind[d]) \in Seq(Held \cup {"check"})
    BY <1>1, <1>2, Worked, CleanupTable
  <2> QED BY <1>1, <1>2, <2>1 DEF ProcTypes, StageFails, Goto
<1>5. MuHeld'
  BY <1>2, <1>1 DEF MuHeld, Opening, Moved
<1>6. SendMuHeld'
  BY <1>2, <1>1 DEF SendMuHeld, Stopping, Moved
<1>7. AutoMuHeld'
  BY <1>2, <1>1 DEF AutoMuHeld, Moved
<1>8. OpMuHeld'
  BY <1>2, <1>1 DEF OpMuHeld, UnderLock, Moved
<1>9. Cursors'
  BY <1>2, <1>1 DEF Cursors, WithDevice, UnderLock, Moved
<1>10. Working'
  <2>1. kind[d] \in BackendName /\ held[d] \in SUBSET Held /\ todo[p] \in Seq(Held \cup {"check"})
    BY <1>1, <1>2, Worked
  <2>2. LettingGo(held[d], todo'[p])
    BY <1>1, <1>2, <2>1, CleanupCovers DEF Working
  <2> QED BY <1>1, <1>2, <2>2 DEF Working, Moved
<1>11. Answered'
  BY <1>2, <1>1 DEF Answered, Answers, Moved
<1>12. Usable'
  BY <1>2, <1>1 DEF Usable, Selected, StopPending, Moved
<1> QED BY <1>3, <1>4, <1>5, <1>6, <1>7, <1>8, <1>9, <1>10, <1>11, <1>12
  DEF IInv, Types, Locks, Ownership, Holdings

\* The device is initialized, and the bus has it, unless it is of the wrong mode.
LEMMA InitializedStep ==
  ASSUME IInv, NEW p \in Proc, Initialized(p)
  PROVE  IInv'
<1> USE DEF procVars, busVars, devVars
<1>1. /\ ProcTypes /\ BusTypes /\ DevTypes /\ Holders /\ MuHeld /\ SendMuHeld /\ AutoMuHeld
      /\ OpMuHeld
      /\ Cursors /\ Candidate /\ Drivers /\ Kinded /\ Resting /\ Working /\ SessionExclusive
      /\ Answered /\ Usable /\ Ranges
  BY Ranged DEF IInv, Types, Locks, Ownership, Holdings
<1> DEFINE b == at[p]
<1> DEFINE d == cur[p]
<1>2. /\ pc[p] = "stages" /\ b \in Bus /\ d \in Device /\ todo[p] = <<>>
      /\ OnlyDevice(d) /\ OnlyBus(b) /\ opMu'[d] = None /\ d \in initialized'
      /\ \/ autoMu[b] = p /\ Moved(p, "stopDevice", b, d) /\ SameBus(b)
         \/ /\ Moved(p, "start", b, None) /\ driver'[b] = d /\ autoMu'[b] = None
            /\ b \in overtaken' <=> StopPending(b, d)
      /\ UNCHANGED <<calls, at, todo, next, open, mu, sendMu, kind, held, inUse>>
  BY <1>1, Went DEF Initialized, ProcTypes, BusTypes, DevTypes, MuHeld, Moved, OnlyBus,
     OnlyDevice, SameBus, Unlocked, Probing, Overtake, Cursors, WithDevice, UnderLock
<1>3. SessionExclusive'
  BY <1>1, <1>2, Kept
<1>4. ProcTypes'
  BY <1>2, <1>1 DEF ProcTypes, Initialized, Goto
<1>5. BusTypes'
  BY <1>2, <1>1 DEF BusTypes, Initialized, Overtake
<1>6. DevTypes'
  BY <1>2, <1>1 DEF DevTypes, Initialized, Unlocked
<1>7. Holders'
  BY <1>2, <1>1, NoneAssumption DEF Holders, Moved, OnlyBus, SameBus, OnlyDevice
<1>8. MuHeld'
  BY <1>2, <1>1 DEF MuHeld, Opening, Stopping, Moved
<1>9. SendMuHeld'
  BY <1>2, <1>1 DEF SendMuHeld, MuHeld, Opening, Stopping, Moved
<1>10. AutoMuHeld'
  BY <1>2, <1>1, NoneAssumption DEF AutoMuHeld, MuHeld, Holders, Moved, OnlyBus, SameBus
<1>11. OpMuHeld'
  BY <1>2, <1>1, NoneAssumption DEF OpMuHeld, Holders, WithDevice, UnderLock, Ranges, Moved,
     OnlyDevice
<1>12. Cursors'
  BY <1>2, <1>1 DEF Cursors, MuHeld, WithDevice, UnderLock, Moved, OnlyBus, SameBus,
     AutoMuHeld, Candidate, Probing
<1>13. Candidate'
  BY <1>2, <1>1, NoneAssumption, AutoAssumption DEF Candidate, Probing, Moved, OnlyBus,
     SameBus
<1>14. Drivers'
  <2>1. \A c \in Bus : driver[c] = d => c = b
    BY <1>1, <1>2, NoneAssumption DEF Cursors
  <2>2. CASE autoMu[b] = p /\ SameBus(b)
    <3>1. driver[b] = None /\ b \in AutoBus /\ None \notin initialized'
      BY <1>1, <1>2, <2>2, NoneAssumption DEF AutoMuHeld, OnlyDevice, Initialized, Ranges
    <3>2. \A c \in Bus : driver'[c] = driver[c]
      BY <1>2, <2>2 DEF SameBus, OnlyBus
    <3>3. \A c \in Bus : driver[c] \in initialized' <=> driver[c] \in initialized
      BY <1>1, <1>2, <2>1, <3>1 DEF OnlyDevice, Ranges
    <3> QED BY <1>1, <3>2, <3>3 DEF Drivers
  <2>3. CASE driver'[b] = d
    <3>1. \A c \in Bus \ {b} : driver'[c] = driver[c] /\ driver[c] # d
      BY <1>2, <2>1 DEF OnlyBus
    <3>2. \A c \in Bus \ {b} : driver[c] # None =>
            (driver[c] \in initialized' <=> driver[c] \in initialized)
      BY <1>1, <1>2, <3>1 DEF OnlyDevice, Ranges
    <3>3. d # None /\ d \in initialized' /\ None \notin initialized'
      BY <1>1, <1>2, NoneAssumption DEF Initialized, Ranges
    <3>4. \A c, e \in Bus : driver'[c] # None /\ driver'[c] = driver'[e] => c = e
      BY <1>1, <2>3, <3>1 DEF Drivers
    <3>5. \A c \in Bus : driver'[c] # None <=> c \notin AutoBus \/ driver'[c] \in initialized'
      <4>1. \A c \in Bus \ {b} : driver'[c] # None <=> c \notin AutoBus \/ driver'[c] \in initialized'
        BY <1>1, <3>1, <3>2, <3>3 DEF Drivers
      <4> QED BY <2>3, <3>3, <4>1
    <3> QED BY <3>4, <3>5 DEF Drivers
  <2> QED BY <1>2, <2>2, <2>3
<1>15. Kinded'
  BY <1>2, <1>1 DEF Kinded, Moved, OnlyBus, SameBus
<1>16. Resting'
  <2>1. kind[d] \in BackendName /\ held[d] \in SUBSET Held /\ todo[p] \in Seq(Held \cup {"check"})
    BY <1>1, <1>2, Worked
  <2>2. held[d] \ {"loop"} = Full(kind[d])
    BY <1>1, <1>2, <2>1, TakingEnds DEF Working
  <2> QED BY <1>1, <1>2, <2>2 DEF Resting, OnlyDevice
<1>17. Working'
  BY <1>2, <1>1 DEF Working, Moved
<1>18. Answered'
  <2>1. \A e \in initialized' \ {d} : e \in initialized
    BY <1>2 DEF Initialized
  <2>2. mu[b] # None /\ \A c \in Bus : driver[c] = d => c = b
    BY <1>1, <1>2, NoneAssumption DEF MuHeld, Opening, Cursors
  <2>3. \A c \in Bus : Answers(c) => Answers(c)'
    BY <1>1, <1>2 DEF Answers, Moved
  <2>4. \A q \in Proc : pc[q] = "stopDevice" => pc'[q] = "stopDevice" /\ cur'[q] = cur[q]
    BY <1>2 DEF Moved
  <2>5. \A c \in Bus : driver[c] # None /\ driver[c] # d => driver'[c] = driver[c]
    BY <1>1, <1>2, NoneAssumption DEF OnlyBus, SameBus, AutoMuHeld, Cursors, Moved
  <2>6. \A e \in initialized' \ {d} : \/ \E q \in Proc : cur'[q] = e /\ pc'[q] = "stopDevice"
                                      \/ \E c \in Bus : driver'[c] = e /\ Answers(c)'
    BY <1>1, <2>1, <2>3, <2>4, <2>5, NoneAssumption DEF Answered, Ranges
  <2>7. \/ \E q \in Proc : cur'[q] = d /\ pc'[q] = "stopDevice"
        \/ \E c \in Bus : driver'[c] = d /\ Answers(c)'
    BY <1>2, <2>2 DEF Moved, Answers
  <2> QED BY <2>6, <2>7 DEF Answered
<1>19. Usable'
  BY <1>2, <1>1, NoneAssumption DEF Usable, Selected, StopPending, MuHeld, Opening, Ranges,
     Moved, OnlyBus, OnlyDevice, Cursors
<1> QED BY <1>3, <1>4, <1>5, <1>6, <1>7, <1>8, <1>9, <1>10, <1>11, <1>12, <1>13, <1>14,
     <1>15, <1>16, <1>17, <1>18, <1>19
  DEF IInv, Types, Locks, Ownership, Holdings

\* Open is about to start the device the bus has by now.
LEMMA StartDeviceStep ==
  ASSUME IInv, NEW p \in Proc, StartDevice(p)
  PROVE  IInv'
<1> USE DEF procVars, busVars, devVars
<1>1. /\ ProcTypes /\ BusTypes /\ DevTypes /\ Holders /\ MuHeld /\ SendMuHeld /\ AutoMuHeld
      /\ OpMuHeld
      /\ Cursors /\ Candidate /\ Drivers /\ Kinded /\ Resting /\ Working /\ SessionExclusive
      /\ Answered /\ Usable /\ Ranges
  BY Ranged DEF IInv, Types, Locks, Ownership, Holdings
<1> DEFINE b == at[p]
<1>2. /\ pc[p] = "start" /\ b \in Bus /\ (b \in AutoBus => autoMu[b] = None)
      /\ \/ driver[b] = None /\ Moved(p, "stop", b, None)
         \/ driver[b] # None /\ Moved(p, "startDevice", b, driver[b])
      /\ UNCHANGED <<calls, at, todo, next, open, mu, sendMu, driver, autoMu, overtaken, kind,
                     initialized, held, opMu, inUse>>
  BY <1>1, Went DEF StartDevice, ProcTypes, BusTypes, DevTypes, MuHeld, Moved, OnlyBus,
     OnlyDevice, SameBus
<1>3. BusTypes' /\ DevTypes' /\ Drivers' /\ Resting' /\ SessionExclusive'
  BY <1>1, <1>2, Kept
<1>4. ProcTypes'
  BY <1>2, <1>1 DEF ProcTypes, StartDevice, Goto, BusTypes
<1>5. Holders'
  BY <1>2, <1>1 DEF Holders, OpMuHeld, UnderLock, Moved
<1>6. MuHeld'
  BY <1>2, <1>1 DEF MuHeld, Opening, Stopping, Moved
<1>7. SendMuHeld'
  BY <1>2, <1>1 DEF SendMuHeld, MuHeld, Opening, Stopping, Moved
<1>8. AutoMuHeld'
  BY <1>2, <1>1 DEF AutoMuHeld, Moved
<1>9. OpMuHeld'
  BY <1>2, <1>1 DEF OpMuHeld, UnderLock, Moved
<1>10. Cursors'
  BY <1>2, <1>1 DEF Cursors, WithDevice, UnderLock, Moved, Drivers
<1>11. Candidate'
  BY <1>2, <1>1 DEF Candidate, Probing, Moved, Cursors, AutoMuHeld
<1>12. Kinded'
  BY <1>2, <1>1 DEF Kinded, Moved
<1>13. Working'
  BY <1>2, <1>1 DEF Working, Moved
<1>14. Answered'
  BY <1>2, <1>1 DEF Answered, Answers, Moved
<1>15. Usable'
  BY <1>2, <1>1 DEF Usable, Selected, StopPending, SendMuHeld, Stopping, Moved
<1> QED BY <1>3, <1>4, <1>5, <1>6, <1>7, <1>8, <1>9, <1>10, <1>11, <1>12, <1>13, <1>14,
     <1>15
  DEF IInv, Types, Locks, Ownership, Holdings

\* The bus is open, if its device is still initialized.
LEMMA StartStep ==
  ASSUME IInv, NEW p \in Proc, Start(p)
  PROVE  IInv'
<1> USE DEF procVars, busVars, devVars
<1>1. /\ ProcTypes /\ BusTypes /\ DevTypes /\ Holders /\ MuHeld /\ SendMuHeld /\ AutoMuHeld
      /\ OpMuHeld
      /\ Cursors /\ Candidate /\ Drivers /\ Kinded /\ Resting /\ Working /\ SessionExclusive
      /\ Answered /\ Usable /\ Ranges
  BY Ranged DEF IInv, Types, Locks, Ownership, Holdings
<1> DEFINE b == at[p]
<1> DEFINE d == cur[p]
<1>2. /\ pc[p] = "startDevice" /\ b \in Bus /\ d \in Device /\ opMu[d] = None
      /\ OnlyBus(b) /\ OnlyDevice(d)
      /\ \/ /\ d \in initialized /\ Moved(p, "idle", None, None) /\ b \in open' /\ mu'[b] = None
            /\ held'[d] = held[d] \cup {"loop"}
         \/ /\ d \notin initialized /\ Moved(p, "stop", b, None)
            /\ held' = held /\ open' = open /\ mu' = mu
      /\ UNCHANGED <<sendMu, driver, autoMu, overtaken, kind, initialized, opMu, inUse>>
  BY <1>1, Went, Returned DEF Start, ProcTypes, BusTypes, DevTypes, MuHeld, Moved, OnlyBus,
     OnlyDevice, SameBus, Cursors, WithDevice, UnderLock
<1>3. Drivers'
  BY <1>1, <1>2, Kept
<1>4. ProcTypes'
  <2>1. CASE d \in initialized
    BY <1>1, <2>1, Returned DEF Start
  <2>2. CASE d \notin initialized
    BY <1>1, <2>2 DEF Start, ProcTypes, Goto
  <2> QED BY <2>1, <2>2
<1>5. BusTypes'
  BY <1>2, <1>1 DEF BusTypes, Start
<1>6. DevTypes'
  BY <1>2, <1>1 DEF DevTypes, Start, Held
<1>7. Holders'
  BY <1>2, <1>1 DEF Holders, MuHeld, SendMuHeld, AutoMuHeld, Opening, Ranges, Moved, OnlyBus
<1>8. MuHeld'
  BY <1>2, <1>1, NoneAssumption DEF MuHeld, Holders, Opening, Stopping, Moved, OnlyBus
<1>9. SendMuHeld'
  BY <1>2, <1>1, NoneAssumption DEF SendMuHeld, MuHeld, Opening, Stopping, Moved, OnlyBus
<1>10. AutoMuHeld'
  BY <1>2, <1>1 DEF AutoMuHeld, MuHeld, Opening, Moved, OnlyBus
<1>11. OpMuHeld'
  BY <1>2, <1>1 DEF OpMuHeld, UnderLock, Moved
<1>12. Cursors'
  BY <1>2, <1>1 DEF Cursors, Holders, MuHeld, Opening, WithDevice, UnderLock, Ranges, Moved,
     OnlyBus
<1>13. Candidate'
  BY <1>2, <1>1 DEF Candidate, Probing, Moved
<1>14. Kinded'
  BY <1>2, <1>1 DEF Kinded, Moved
<1>15. Resting'
  <2>1. \A e \in Device : held'[e] \ {"loop"} = held[e] \ {"loop"}
    BY <1>2 DEF OnlyDevice
  <2>2. \A e \in Device \ {d} : held'[e] = held[e]
    BY <1>2 DEF OnlyDevice
  <2>3. d \in initialized \/ held' = held
    BY <1>2
  <2> QED BY <1>1, <1>2, <2>1, <2>2, <2>3 DEF Resting
<1>16. Working'
  <2>1. \A q \in Proc \ {p} : pc[q] \in UnderLock => cur[q] \in Device \ {d}
    BY <1>1, <1>2, NoneAssumption DEF OpMuHeld, UnderLock, WithDevice, Ranges
  <2> QED BY <1>1, <1>2, <2>1 DEF Working, UnderLock, Moved, OnlyDevice
<1>17. SessionExclusive'
  BY <1>2, <1>1 DEF SessionExclusive, OnlyDevice
<1>18. Answered'
  BY <1>2, <1>1 DEF Answered, Answers, Moved, OnlyBus
<1>19. Usable'
  BY <1>2, <1>1 DEF Usable, Selected, StopPending, SendMuHeld, Stopping, Ranges, Moved,
     OnlyBus, OnlyDevice
<1> QED BY <1>3, <1>4, <1>5, <1>6, <1>7, <1>8, <1>9, <1>10, <1>11, <1>12, <1>13, <1>14,
     <1>15, <1>16, <1>17, <1>18, <1>19
  DEF IInv, Types, Locks, Ownership, Holdings

\* Close takes sendMu.
LEMMA CloseLockStep ==
  ASSUME IInv, NEW p \in Proc, CloseLock(p)
  PROVE  IInv'
<1> USE DEF procVars, busVars, devVars
<1>1. /\ ProcTypes /\ BusTypes /\ DevTypes /\ Holders /\ MuHeld /\ SendMuHeld /\ AutoMuHeld
      /\ OpMuHeld
      /\ Cursors /\ Candidate /\ Drivers /\ Kinded /\ Resting /\ Working /\ SessionExclusive
      /\ Answered /\ Usable /\ Ranges
  BY Ranged DEF IInv, Types, Locks, Ownership, Holdings
<1> DEFINE b == at[p]
<1>2. /\ pc[p] = "close" /\ b \in Bus /\ sendMu[b] = None /\ OnlyBus(b) /\ sendMu'[b] = p
      /\ Moved(p, "closing", b, cur[p])
      /\ UNCHANGED <<calls, at, cur, todo, next, open, mu, driver, autoMu, overtaken, kind,
                     initialized, held, opMu, inUse>>
  BY <1>1, Went DEF CloseLock, ProcTypes, BusTypes, DevTypes, MuHeld, Moved, OnlyBus,
     OnlyDevice, SameBus
<1>3. DevTypes' /\ Candidate' /\ Drivers' /\ Kinded' /\ Resting' /\ SessionExclusive'
  BY <1>1, <1>2, Kept
<1>4. ProcTypes'
  BY <1>2, <1>1 DEF ProcTypes, CloseLock, Goto
<1>5. BusTypes'
  BY <1>2, <1>1 DEF BusTypes, CloseLock
<1>6. Holders'
  BY <1>2, <1>1 DEF Holders, OnlyBus
<1>7. MuHeld'
  BY <1>2, <1>1 DEF MuHeld, Opening, Stopping, Moved
<1>8. SendMuHeld'
  BY <1>2, <1>1, NoneAssumption DEF SendMuHeld, MuHeld, Opening, Stopping, Moved, OnlyBus
<1>9. AutoMuHeld'
  BY <1>2, <1>1 DEF AutoMuHeld, Moved
<1>10. OpMuHeld'
  BY <1>2, <1>1 DEF OpMuHeld, UnderLock, Moved
<1>11. Cursors'
  BY <1>2, <1>1 DEF Cursors, WithDevice, UnderLock, Moved
<1>12. Working'
  BY <1>2, <1>1 DEF Working, Moved
<1>13. Answered'
  BY <1>2, <1>1, NoneAssumption DEF Answered, Answers, Moved, OnlyBus
<1>14. Usable'
  BY <1>2, <1>1 DEF Usable, Selected, StopPending, Moved, OnlyBus
<1> QED BY <1>3, <1>4, <1>5, <1>6, <1>7, <1>8, <1>9, <1>10, <1>11, <1>12, <1>13, <1>14
  DEF IInv, Types, Locks, Ownership, Holdings

\* The bus is closed; the Close has yet to stop its device.
LEMMA CloseBusStep ==
  ASSUME IInv, NEW p \in Proc, CloseBus(p)
  PROVE  IInv'
<1> USE DEF procVars, busVars, devVars
<1>1. /\ ProcTypes /\ BusTypes /\ DevTypes /\ Holders /\ MuHeld /\ SendMuHeld /\ AutoMuHeld
      /\ OpMuHeld
      /\ Cursors /\ Candidate /\ Drivers /\ Kinded /\ Resting /\ Working /\ SessionExclusive
      /\ Answered /\ Usable /\ Ranges
  BY Ranged DEF IInv, Types, Locks, Ownership, Holdings
<1> DEFINE b == at[p]
<1>2. /\ pc[p] = "closing" /\ b \in Bus /\ mu[b] = None /\ OnlyBus(b) /\ b \notin open'
      /\ \/ b \in open /\ Moved(p, "stop", b, cur[p]) /\ sendMu' = sendMu
         \/ b \notin open /\ Moved(p, "idle", None, None) /\ sendMu'[b] = None
      /\ UNCHANGED <<mu, driver, autoMu, overtaken, kind, initialized, held, opMu, inUse>>
  BY <1>1, Went, Returned DEF CloseBus, ProcTypes, BusTypes, DevTypes, MuHeld, Moved,
     OnlyBus, OnlyDevice, SameBus, OpenAfter
<1>3. DevTypes' /\ Drivers' /\ Resting' /\ SessionExclusive'
  BY <1>1, <1>2, Kept
<1>4. ProcTypes'
  <2>1. CASE b \notin open
    BY <1>1, <2>1, Returned DEF CloseBus
  <2>2. CASE b \in open
    BY <1>1, <2>2 DEF CloseBus, ProcTypes, Goto
  <2> QED BY <2>1, <2>2
<1>5. BusTypes'
  BY <1>2, <1>1 DEF BusTypes, CloseBus, OpenAfter
<1>6. Holders'
  BY <1>2, <1>1 DEF Holders, AutoMuHeld, OpMuHeld, UnderLock, Ranges, Moved, OnlyBus
<1>7. MuHeld'
  BY <1>2, <1>1 DEF MuHeld, Opening, Stopping, Moved, OnlyBus
<1>8. SendMuHeld'
  BY <1>2, <1>1, NoneAssumption DEF SendMuHeld, MuHeld, Holders, Stopping, Moved, OnlyBus
<1>9. AutoMuHeld'
  BY <1>2, <1>1 DEF AutoMuHeld, Moved
<1>10. OpMuHeld'
  BY <1>2, <1>1 DEF OpMuHeld, UnderLock, Moved
<1>11. Cursors'
  BY <1>2, <1>1 DEF Cursors, WithDevice, UnderLock, Moved
<1>12. Candidate'
  BY <1>2, <1>1 DEF Candidate, Probing, Moved
<1>13. Kinded'
  BY <1>2, <1>1 DEF Kinded, Moved
<1>14. Working'
  BY <1>2, <1>1 DEF Working, Moved
<1>15. Answered'
  BY <1>2, <1>1 DEF Answered, Answers, Moved, OnlyBus, SendMuHeld
<1>16. Usable'
  BY <1>2, <1>1, NoneAssumption DEF Usable, Selected, StopPending, Holders, MuHeld, Opening,
     Moved, OnlyBus
<1> QED BY <1>3, <1>4, <1>5, <1>6, <1>7, <1>8, <1>9, <1>10, <1>11, <1>12, <1>13, <1>14,
     <1>15, <1>16
  DEF IInv, Types, Locks, Ownership, Holdings

\* autoDevice forgets its device: the goroutine has it now.
LEMMA StopAutoStep ==
  ASSUME IInv, NEW p \in Proc, StopAuto(p)
  PROVE  IInv'
<1> USE DEF procVars, busVars, devVars
<1>1. /\ ProcTypes /\ BusTypes /\ DevTypes /\ Holders /\ MuHeld /\ SendMuHeld /\ AutoMuHeld
      /\ OpMuHeld
      /\ Cursors /\ Candidate /\ Drivers /\ Kinded /\ Resting /\ Working /\ SessionExclusive
      /\ Answered /\ Usable /\ Ranges
  BY Ranged DEF IInv, Types, Locks, Ownership, Holdings
<1> DEFINE b == at[p]
<1>2. /\ pc[p] = "stop" /\ b \in Bus /\ b \in AutoBus /\ autoMu[b] = None
      /\ OnlyBus(b) /\ driver'[b] = None
      /\ \/ /\ driver[b] = None /\ Moved(p, "idle", None, None)
            /\ mu'[b] = IF mu[b] = p THEN None ELSE mu[b]
            /\ sendMu'[b] = IF mu[b] = p THEN sendMu[b] ELSE None
         \/ /\ driver[b] # None /\ Moved(p, "stopDevice", b, driver[b])
            /\ mu' = mu /\ sendMu' = sendMu
      /\ UNCHANGED <<open, autoMu, overtaken, kind, initialized, held, opMu, inUse>>
  <2>1. pc[p] = "stop" /\ b \in Bus /\ b \in AutoBus /\ autoMu[b] = None
    BY <1>1 DEF StopAuto, MuHeld
  <2>2. UNCHANGED <<open, autoMu, overtaken, kind, initialized, held, opMu, inUse>>
    BY DEF StopAuto
  <2>3. driver' = [driver EXCEPT ![b] = None]
    BY DEF StopAuto
  <2>4. driver'[b] = None /\ \A c \in Bus \ {b} : driver'[c] = driver[c]
    BY <1>1, <2>1, <2>3 DEF BusTypes
  <2>5. CASE driver[b] = None
    <3>1. Finish(p)
      BY <2>5 DEF StopAuto
    <3>2. /\ Moved(p, "idle", None, None)
          /\ \A c \in Bus : mu'[c] = IF c = b /\ mu[c] = p THEN None ELSE mu[c]
          /\ \A c \in Bus : sendMu'[c] = IF c = b /\ mu[c] # p THEN None ELSE sendMu[c]
      BY <1>1, <2>1, <3>1, Finished
    <3>3. OnlyBus(b)
      BY <2>2, <2>4, <3>2 DEF OnlyBus
    <3> QED BY <2>1, <2>2, <2>4, <2>5, <3>2, <3>3
  <2>6. CASE driver[b] # None
    <3>1. /\ Goto(p, "stopDevice") /\ cur' = [cur EXCEPT ![p] = driver[b]]
          /\ UNCHANGED <<calls, at, todo, next, mu, sendMu>>
      BY <2>6 DEF StopAuto
    <3>2. Moved(p, "stopDevice", b, driver[b])
      BY <1>1, <3>1, Went DEF Moved, ProcTypes
    <3>3. OnlyBus(b)
      BY <2>2, <2>4, <3>1 DEF OnlyBus
    <3> QED BY <2>1, <2>2, <2>4, <2>6, <3>1, <3>2, <3>3
  <2> QED BY <2>5, <2>6
<1>3. DevTypes' /\ Resting' /\ SessionExclusive'
  BY <1>1, <1>2, Kept
<1>4. ProcTypes'
  <2>1. CASE driver[b] = None
    BY <1>1, <1>2, <2>1, Finished DEF StopAuto
  <2>2. CASE driver[b] # None
    BY <1>1, <1>2, <2>2 DEF StopAuto, ProcTypes, BusTypes, Goto
  <2> QED BY <2>1, <2>2
<1>5. BusTypes'
  <2>1. CASE driver[b] = None
    BY <1>1, <1>2, <2>1, Finished DEF StopAuto, BusTypes
  <2>2. CASE ~(driver[b] = None)
    BY <1>1, <1>2, <2>2 DEF StopAuto, BusTypes
  <2> QED BY <2>1, <2>2
<1>6. Holders'
  BY <1>2, <1>1 DEF Holders, SendMuHeld, AutoMuHeld, OpMuHeld, UnderLock, Moved, OnlyBus
<1>7. MuHeld'
  BY <1>2, <1>1, NoneAssumption DEF MuHeld, Holders, Opening, Stopping, Moved, OnlyBus
<1>8. SendMuHeld'
  BY <1>2, <1>1, NoneAssumption DEF SendMuHeld, MuHeld, Holders, Stopping, Moved, OnlyBus
<1>9. AutoMuHeld'
  BY <1>2, <1>1 DEF AutoMuHeld, Moved, OnlyBus
<1>10. OpMuHeld'
  BY <1>2, <1>1 DEF OpMuHeld, UnderLock, Moved
<1>11. Cursors'
  BY <1>2, <1>1 DEF Cursors, MuHeld, WithDevice, UnderLock, Moved, OnlyBus, Drivers
<1>12. Candidate'
  BY <1>2, <1>1 DEF Candidate, Probing, Moved, Cursors, AutoMuHeld
<1>13. Drivers'
  BY <1>2, <1>1, NoneAssumption DEF Drivers, Ranges, OnlyBus
<1>14. Kinded'
  BY <1>2, <1>1 DEF Kinded, Moved, OnlyBus
<1>15. Working'
  BY <1>2, <1>1 DEF Working, Moved
<1>16. Answered'
  BY <1>2, <1>1, NoneAssumption DEF Answered, Answers, Holders, Ranges, Moved, OnlyBus
<1>17. Usable'
  BY <1>2, <1>1, NoneAssumption DEF Usable, Selected, StopPending, SendMuHeld, MuHeld,
     Opening, Stopping, Moved, OnlyBus
<1> QED BY <1>3, <1>4, <1>5, <1>6, <1>7, <1>8, <1>9, <1>10, <1>11, <1>12, <1>13, <1>14,
     <1>15, <1>16, <1>17
  DEF IInv, Types, Locks, Ownership, Holdings

\* The device of a bus that is not automatic stays with it.
LEMMA StopBusStep ==
  ASSUME IInv, NEW p \in Proc, StopBus(p)
  PROVE  IInv'
<1> USE DEF procVars, busVars, devVars
<1>1. /\ ProcTypes /\ BusTypes /\ DevTypes /\ Holders /\ MuHeld /\ SendMuHeld /\ AutoMuHeld
      /\ OpMuHeld
      /\ Cursors /\ Candidate /\ Drivers /\ Kinded /\ Resting /\ Working /\ SessionExclusive
      /\ Answered /\ Usable /\ Ranges
  BY Ranged DEF IInv, Types, Locks, Ownership, Holdings
<1> DEFINE b == at[p]
<1>2. /\ pc[p] = "stop" /\ b \in Bus \ AutoBus /\ driver[b] \in Device
      /\ Moved(p, "stopDevice", b, driver[b])
      /\ UNCHANGED <<calls, at, todo, next, open, mu, sendMu, driver, autoMu, overtaken, kind,
                     initialized, held, opMu, inUse>>
  BY <1>1, Went DEF StopBus, ProcTypes, BusTypes, DevTypes, MuHeld, Moved, OnlyBus,
     OnlyDevice, SameBus, Cursors, WithDevice, UnderLock, Drivers
<1>3. BusTypes' /\ DevTypes' /\ Drivers' /\ Resting' /\ SessionExclusive'
  BY <1>1, <1>2, Kept
<1>4. ProcTypes'
  BY <1>2, <1>1 DEF ProcTypes, StopBus, Goto
<1>5. Holders'
  BY <1>2, <1>1 DEF Holders, OpMuHeld, UnderLock, Moved
<1>6. MuHeld'
  BY <1>2, <1>1 DEF MuHeld, Opening, Stopping, Moved
<1>7. SendMuHeld'
  BY <1>2, <1>1 DEF SendMuHeld, Stopping, Moved
<1>8. AutoMuHeld'
  BY <1>2, <1>1 DEF AutoMuHeld, Moved
<1>9. OpMuHeld'
  BY <1>2, <1>1 DEF OpMuHeld, UnderLock, Moved
<1>10. Cursors'
  BY <1>2, <1>1 DEF Cursors, WithDevice, Moved, Drivers
<1>11. Candidate'
  BY <1>2, <1>1 DEF Candidate, Probing, Moved, Cursors
<1>12. Kinded'
  BY <1>2, <1>1 DEF Kinded, Moved
<1>13. Working'
  BY <1>2, <1>1 DEF Working, Moved
<1>14. Answered'
  BY <1>2, <1>1 DEF Answered, Answers, Holders, Moved
<1>15. Usable'
  BY <1>2, <1>1 DEF Usable, Selected, StopPending, Moved
<1> QED BY <1>3, <1>4, <1>5, <1>6, <1>7, <1>8, <1>9, <1>10, <1>11, <1>12, <1>13, <1>14,
     <1>15
  DEF IInv, Types, Locks, Ownership, Holdings

\* The device is not initialized any more, and stop lets go of all it holds.
LEMMA StopDeviceStep ==
  ASSUME IInv, NEW p \in Proc, StopDevice(p)
  PROVE  IInv'
<1> USE DEF procVars, busVars, devVars
<1>1. /\ ProcTypes /\ BusTypes /\ DevTypes /\ Holders /\ MuHeld /\ SendMuHeld /\ AutoMuHeld
      /\ OpMuHeld
      /\ Cursors /\ Candidate /\ Drivers /\ Kinded /\ Resting /\ Working /\ SessionExclusive
      /\ Answered /\ Usable /\ Ranges
  BY Ranged DEF IInv, Types, Locks, Ownership, Holdings
<1> DEFINE b == at[p]
<1> DEFINE d == cur[p]
<1>2. /\ pc[p] = "stopDevice" /\ b \in Bus /\ d \in Device /\ opMu[d] = None
      /\ OnlyDevice(d) /\ Moved(p, "released", b, d) /\ opMu'[d] = p
      /\ d \notin initialized' /\ held'[d] = held[d] \ {"loop"}
      /\ todo'[p] = Stop(kind[d], d \in initialized)
      /\ UNCHANGED <<calls, at, cur, next, open, mu, sendMu, driver, autoMu, overtaken, kind,
                     inUse>>
  BY <1>1, Went DEF StopDevice, ProcTypes, BusTypes, DevTypes, MuHeld, Moved, OnlyBus,
     OnlyDevice, SameBus, Cursors, WithDevice, UnderLock
<1>3. BusTypes' /\ Candidate' /\ Kinded'
  BY <1>1, <1>2, Kept
<1>4. ProcTypes'
  <2> DEFINE was == d \in initialized
  <2>1. Stop(kind[d], was) \in Seq(Held \cup {"check"})
    <3>1. was \in BOOLEAN /\ kind[d] \in BackendName
      BY <1>1, <1>2, Worked
    <3> HIDE DEF was
    <3> QED BY <3>1, StopTable
  <2> QED BY <1>1, <1>2, <2>1 DEF ProcTypes, StopDevice, Goto
<1>5. DevTypes'
  BY <1>2, <1>1 DEF DevTypes, StopDevice
<1>6. Holders'
  BY <1>2, <1>1 DEF Holders, OnlyDevice
<1>7. MuHeld'
  BY <1>2, <1>1 DEF MuHeld, Opening, Stopping, Moved
<1>8. SendMuHeld'
  BY <1>2, <1>1 DEF SendMuHeld, Stopping, Moved
<1>9. AutoMuHeld'
  BY <1>2, <1>1 DEF AutoMuHeld, Moved
<1>10. OpMuHeld'
  BY <1>2, <1>1, NoneAssumption DEF OpMuHeld, WithDevice, UnderLock, Ranges, Moved,
     OnlyDevice
<1>11. Cursors'
  BY <1>2, <1>1 DEF Cursors, WithDevice, UnderLock, Moved
<1>12. Drivers'
  <2>1. \A c \in Bus : driver[c] = d => c = b /\ b \notin AutoBus
    BY <1>1, <1>2, NoneAssumption DEF Cursors
  <2>2. \A c \in Bus : driver[c] # d => (driver[c] \in initialized' <=> driver[c] \in initialized)
    BY <1>1, <1>2, NoneAssumption DEF OnlyDevice, Ranges, StopDevice
  <2> QED BY <1>1, <1>2, <2>1, <2>2 DEF Drivers
<1>13. Resting'
  BY <1>2, <1>1 DEF Resting, OpMuHeld, WithDevice, UnderLock, OnlyDevice
<1>14. Working'
  <2>1. kind[d] \in BackendName /\ held[d] \in SUBSET Held /\ todo[p] \in Seq(Held \cup {"check"})
    BY <1>1, <1>2, Worked
  <2>2. \A q \in Proc \ {p} : pc[q] \in UnderLock => cur[q] \in Device \ {d}
    BY <1>1, <1>2, NoneAssumption DEF OpMuHeld, UnderLock, WithDevice, Ranges
  <2>3. held'[d] = IF d \in initialized THEN Full(kind[d]) ELSE {}
    BY <1>1, <1>2 DEF Resting
  <2>4. LettingGo(held'[d], todo'[p])
    <3>1. kind[d] \in BackendName
      BY <2>1
    <3>2. CASE d \in initialized
      <4>1. held'[d] = Full(kind[d]) /\ todo'[p] = Stop(kind[d], TRUE)
        BY <1>2, <2>3, <3>2
      <4> QED BY <3>1, <4>1, StopCovers
    <3>3. CASE d \notin initialized
      <4>1. (d \in initialized) = FALSE
        BY <3>3
      <4>2. held'[d] = {} /\ todo'[p] = Stop(kind[d], FALSE)
        BY <1>2, <2>3, <4>1, Zenon
      <4> QED BY <3>1, <4>2, StopCovers
    <3> QED BY <3>2, <3>3
  <2>5. \A q \in Proc \ {p} :
          /\ pc'[q] = pc[q] /\ cur'[q] = cur[q] /\ todo'[q] = todo[q]
          /\ kind'[cur[q]] = kind[cur[q]]
          /\ pc[q] \in UnderLock => held'[cur[q]] = held[cur[q]]
    BY <1>2, <2>2 DEF Moved, OnlyDevice
  <2>6. pc'[p] = "released" /\ cur'[p] = d
    BY <1>2 DEF Moved
  <2>7. ASSUME NEW q \in Proc \ {p}
        PROVE  /\ pc'[q] = "stages" => Taking(held'[cur'[q]], todo'[q], kind'[cur'[q]])
               /\ pc'[q] \in {"release", "released"} => LettingGo(held'[cur'[q]], todo'[q])
    BY <1>1, <2>5 DEF Working, UnderLock
  <2> QED BY <2>4, <2>6, <2>7 DEF Working
<1>15. SessionExclusive'
  BY <1>2, <1>1 DEF SessionExclusive, OnlyDevice
<1>16. Answered'
  <2>1. \A e \in initialized' : e \in initialized /\ e # d
    BY <1>2 DEF StopDevice
  <2>2. \A c \in Bus : Answers(c) => Answers(c)'
    BY <1>1, <1>2 DEF Answers, Moved
  <2>3. \A q \in Proc : pc[q] = "stopDevice" /\ cur[q] # d
          => pc'[q] = "stopDevice" /\ cur'[q] = cur[q]
    BY <1>2 DEF Moved
  <2> QED BY <1>1, <1>2, <2>1, <2>2, <2>3 DEF Answered
<1>17. Usable'
  BY <1>2, <1>1, NoneAssumption DEF Usable, Selected, StopPending, SendMuHeld, MuHeld,
     Opening, Stopping, Ranges, Moved, OnlyDevice, Cursors
<1> QED BY <1>3, <1>4, <1>5, <1>6, <1>7, <1>8, <1>9, <1>10, <1>11, <1>12, <1>13, <1>14,
     <1>15, <1>16, <1>17
  DEF IInv, Types, Locks, Ownership, Holdings

\* One thing is let go of, the session after the adapter.
LEMMA ReleaseStep ==
  ASSUME IInv, NEW p \in Proc, Release(p)
  PROVE  IInv'
<1> USE DEF procVars, busVars, devVars
<1>1. /\ ProcTypes /\ BusTypes /\ DevTypes /\ Holders /\ MuHeld /\ SendMuHeld /\ AutoMuHeld
      /\ OpMuHeld
      /\ Cursors /\ Candidate /\ Drivers /\ Kinded /\ Resting /\ Working /\ SessionExclusive
      /\ Answered /\ Usable /\ Ranges
  BY Ranged DEF IInv, Types, Locks, Ownership, Holdings
<1> DEFINE b == at[p]
<1> DEFINE d == cur[p]
<1>2. /\ pc[p] \in {"release", "released"} /\ d \in Device /\ todo[p] # <<>>
      /\ Moved(p, pc[p], b, d) /\ OnlyDevice(d) /\ todo'[p] = Tail(todo[p])
      /\ held'[d] = held[d] \ {Head(todo[p])}
      /\ inUse' = (inUse /\ ~(Head(todo[p]) = "session" /\ "session" \in held[d]))
      /\ UNCHANGED <<pc, calls, at, cur, next, open, mu, sendMu, driver, autoMu, overtaken, kind,
                     initialized, opMu>>
  BY <1>1, Went DEF Release, ProcTypes, BusTypes, DevTypes, MuHeld, Moved, OnlyBus,
     OnlyDevice, SameBus, Owns, Cursors, WithDevice, UnderLock
<1>3. BusTypes' /\ Holders' /\ MuHeld' /\ SendMuHeld' /\ AutoMuHeld' /\ OpMuHeld'
      /\ Cursors' /\ Candidate' /\ Drivers' /\ Kinded' /\ Answered'
  BY <1>1, <1>2, Kept
<1>4. ProcTypes'
  BY <1>2, <1>1 DEF ProcTypes, Release
<1>5. DevTypes'
  BY <1>2, <1>1 DEF DevTypes, Release
<1>6. Resting'
  BY <1>2, <1>1, NoneAssumption DEF Resting, OpMuHeld, UnderLock, OnlyDevice
<1>7. Working'
  <2>1. kind[d] \in BackendName /\ held[d] \in SUBSET Held /\ todo[p] \in Seq(Held \cup {"check"})
    BY <1>1, <1>2, Worked
  <2>2. \A q \in Proc \ {p} : pc[q] \in UnderLock => cur[q] \in Device \ {d}
    BY <1>1, <1>2, NoneAssumption DEF OpMuHeld, UnderLock, WithDevice, Ranges
  <2>3. LettingGo(held'[d], todo'[p])
    BY <1>1, <1>2, <2>1, LettingGoOne DEF Working
  <2> QED BY <1>1, <1>2, <2>2, <2>3 DEF Working, UnderLock, Moved, OnlyDevice
<1>8. SessionExclusive'
  <2>1. kind[d] \in BackendName /\ held[d] \in SUBSET Held /\ todo[p] \in Seq(Held \cup {"check"})
    BY <1>1, <1>2, Worked
  <2>2. Head(todo[p]) = "session" => "port" \notin held[d]
    BY <1>1, <1>2, <2>1, LettingGoOne DEF Working
  <2>3. \A e \in Device : held'[e] = IF e = d THEN held[e] \ {Head(todo[p])} ELSE held[e]
    BY <1>2 DEF OnlyDevice
  <2>4. \A e, f \in Device : "session" \in held'[e] \cap held'[f] => e = f
    BY <1>1, <2>3 DEF SessionExclusive
  <2>5. inUse' = \E e \in Device : "session" \in held'[e]
    <3>1. CASE Head(todo[p]) = "session" /\ "session" \in held[d]
      BY <1>1, <1>2, <2>3, <3>1 DEF SessionExclusive
    <3>2. CASE ~(Head(todo[p]) = "session" /\ "session" \in held[d])
      BY <1>1, <1>2, <2>3, <3>2 DEF SessionExclusive, DevTypes
    <3> QED BY <3>1, <3>2
  <2>6. \A e \in Device : kind[e] = "Toomoss" /\ "port" \in held'[e] => "session" \in held'[e]
    BY <1>1, <2>2, <2>3 DEF SessionExclusive
  <2> QED BY <1>2, <2>4, <2>5, <2>6 DEF SessionExclusive
<1>9. Usable'
  BY <1>2, <1>1, NoneAssumption DEF Usable, Selected, StopPending, Ranges, OnlyDevice,
     OpMuHeld, WithDevice, Resting
<1> QED BY <1>3, <1>4, <1>5, <1>6, <1>7, <1>8, <1>9
  DEF IInv, Types, Locks, Ownership, Holdings

\* After the cleanup the device holds nothing.
LEMMA CleanedUpStep ==
  ASSUME IInv, NEW p \in Proc, CleanedUp(p)
  PROVE  IInv'
<1> USE DEF procVars, busVars, devVars
<1>1. /\ ProcTypes /\ BusTypes /\ DevTypes /\ Holders /\ MuHeld /\ SendMuHeld /\ AutoMuHeld
      /\ OpMuHeld
      /\ Cursors /\ Candidate /\ Drivers /\ Kinded /\ Resting /\ Working /\ SessionExclusive
      /\ Answered /\ Usable /\ Ranges
  BY Ranged DEF IInv, Types, Locks, Ownership, Holdings
<1> DEFINE b == at[p]
<1> DEFINE d == cur[p]
<1>2. /\ pc[p] = "release" /\ b \in Bus /\ d \in Device /\ todo[p] = <<>>
      /\ OnlyDevice(d) /\ opMu'[d] = None /\ Moved(p, "stopDevice", b, d)
      /\ UNCHANGED <<calls, at, cur, todo, next, open, mu, sendMu, driver, autoMu, overtaken,
                     kind, initialized, held, inUse>>
  <2>1. pc[p] = "release" /\ d \in Device /\ b \in Bus
    BY <1>1 DEF CleanedUp, Ranges, WithDevice, UnderLock, MuHeld
  <2>2. Moved(p, "stopDevice", b, d)
    BY <1>1, Went DEF CleanedUp, Moved
  <2>3. OnlyDevice(d) /\ opMu'[d] = None
    BY <1>1, <2>1 DEF CleanedUp, Unlocked, DevTypes, OnlyDevice
  <2> QED BY <2>1, <2>2, <2>3 DEF CleanedUp
<1>3. BusTypes' /\ Candidate' /\ Drivers' /\ Kinded' /\ SessionExclusive'
  BY <1>1, <1>2, Kept
<1>4. ProcTypes'
  BY <1>2, <1>1 DEF ProcTypes, CleanedUp, Goto
<1>5. DevTypes'
  BY <1>2, <1>1 DEF DevTypes, CleanedUp, Unlocked
<1>6. Holders'
  BY <1>2, <1>1, NoneAssumption DEF Holders, OnlyDevice
<1>7. MuHeld'
  BY <1>2, <1>1 DEF MuHeld, Opening, Stopping, Moved
<1>8. SendMuHeld'
  BY <1>2, <1>1 DEF SendMuHeld, MuHeld, Opening, Stopping, Moved
<1>9. AutoMuHeld'
  BY <1>2, <1>1 DEF AutoMuHeld, Moved
<1>10. OpMuHeld'
  BY <1>2, <1>1, NoneAssumption DEF OpMuHeld, Holders, WithDevice, UnderLock, Ranges, Moved,
     OnlyDevice
<1>11. Cursors'
  BY <1>2, <1>1 DEF Cursors, WithDevice, Ranges, Moved, AutoMuHeld
<1>12. Resting'
  <2>1. held[d] = {}
    BY <1>1, <1>2, LettingGoEnds DEF Working
  <2>2. d \notin initialized
    BY <1>1, <1>2, NoneAssumption DEF Resting, OpMuHeld, UnderLock
  <2> QED BY <1>1, <1>2, <2>1, <2>2 DEF Resting, OnlyDevice
<1>13. Working'
  BY <1>2, <1>1 DEF Working, Moved
<1>14. Answered'
  BY <1>2, <1>1 DEF Answered, Answers, Moved
<1>15. Usable'
  BY <1>2, <1>1 DEF Usable, Selected, StopPending, SendMuHeld, Stopping, Moved
<1> QED BY <1>3, <1>4, <1>5, <1>6, <1>7, <1>8, <1>9, <1>10, <1>11, <1>12, <1>13, <1>14,
     <1>15
  DEF IInv, Types, Locks, Ownership, Holdings

\* After a stop the device holds nothing.
LEMMA StoppedStep ==
  ASSUME IInv, NEW p \in Proc, Stopped(p)
  PROVE  IInv'
<1> USE DEF procVars, busVars, devVars
<1>1. /\ ProcTypes /\ BusTypes /\ DevTypes /\ Holders /\ MuHeld /\ SendMuHeld /\ AutoMuHeld
      /\ OpMuHeld
      /\ Cursors /\ Candidate /\ Drivers /\ Kinded /\ Resting /\ Working /\ SessionExclusive
      /\ Answered /\ Usable /\ Ranges
  BY Ranged DEF IInv, Types, Locks, Ownership, Holdings
<1> DEFINE b == at[p]
<1> DEFINE d == cur[p]
<1>2. /\ pc[p] = "released" /\ b \in Bus /\ d \in Device /\ todo[p] = <<>>
      /\ OnlyDevice(d) /\ OnlyBus(b) /\ opMu'[d] = None
      /\ \/ autoMu[b] = p /\ Moved(p, "probe", b, None) /\ mu' = mu /\ sendMu' = sendMu
         \/ /\ autoMu[b] # p /\ Moved(p, "idle", None, None)
            /\ mu'[b] = IF mu[b] = p THEN None ELSE mu[b]
            /\ sendMu'[b] = IF mu[b] = p THEN sendMu[b] ELSE None
      /\ UNCHANGED <<open, driver, autoMu, overtaken, kind, initialized, held, inUse>>
  <2>1. pc[p] = "released" /\ b \in Bus /\ d \in Device /\ todo[p] = <<>>
    BY <1>1 DEF Stopped, ProcTypes, MuHeld, Cursors, WithDevice, UnderLock
  <2>2. UNCHANGED <<open, driver, autoMu, overtaken, kind, initialized, held, inUse>>
    BY DEF Stopped
  <2>3. opMu'[d] = None /\ OnlyDevice(d)
    BY <1>1, <2>1, <2>2 DEF Stopped, Unlocked, DevTypes, OnlyDevice
  <2>4. CASE autoMu[b] = p
    <3>1. /\ Goto(p, "probe") /\ cur' = [cur EXCEPT ![p] = None]
          /\ UNCHANGED <<calls, at, todo, next, mu, sendMu>>
      BY <2>4 DEF Stopped, Probing
    <3>2. Moved(p, "probe", b, None)
      BY <1>1, <3>1, Went DEF Moved, ProcTypes
    <3>3. OnlyBus(b)
      BY <2>2, <3>1 DEF OnlyBus
    <3> QED BY <2>1, <2>2, <2>3, <2>4, <3>1, <3>2, <3>3
  <2>5. CASE autoMu[b] # p
    <3>1. Finish(p)
      BY <2>5 DEF Stopped, Probing
    <3>2. /\ Moved(p, "idle", None, None)
          /\ \A c \in Bus : mu'[c] = IF c = b /\ mu[c] = p THEN None ELSE mu[c]
          /\ \A c \in Bus : sendMu'[c] = IF c = b /\ mu[c] # p THEN None ELSE sendMu[c]
      BY <1>1, <2>1, <3>1, Finished
    <3>3. OnlyBus(b)
      BY <2>2, <3>2 DEF OnlyBus
    <3> QED BY <2>1, <2>2, <2>3, <2>5, <3>2, <3>3
  <2> QED BY <2>4, <2>5
<1>3. Drivers' /\ SessionExclusive'
  BY <1>1, <1>2, Kept
<1>4. ProcTypes'
  <2>1. CASE Probing(p)
    BY <1>1, <2>1 DEF Stopped, ProcTypes, Goto
  <2>2. CASE ~Probing(p)
    BY <1>1, <1>2, <2>2, Finished DEF Stopped
  <2> QED BY <2>1, <2>2
<1>5. BusTypes'
  <2>1. CASE ~Probing(p)
    BY <1>1, <1>2, <2>1, Finished DEF Stopped, BusTypes
  <2>2. CASE ~(~Probing(p))
    BY <1>1, <1>2, <2>2 DEF Stopped, BusTypes
  <2> QED BY <2>1, <2>2
<1>6. DevTypes'
  BY <1>2, <1>1 DEF DevTypes, Stopped, Unlocked
<1>7. Holders'
  BY <1>2, <1>1, NoneAssumption DEF Holders, SendMuHeld, Moved, OnlyBus, OnlyDevice
<1>8. MuHeld'
  BY <1>2, <1>1 DEF MuHeld, Holders, Opening, Ranges, Moved, OnlyBus, AutoMuHeld
<1>9. SendMuHeld'
  BY <1>2, <1>1, NoneAssumption DEF SendMuHeld, MuHeld, Holders, Stopping, Moved, OnlyBus,
     AutoMuHeld
<1>10. AutoMuHeld'
  BY <1>2, <1>1 DEF AutoMuHeld, Holders, Moved, OnlyBus
<1>11. OpMuHeld'
  BY <1>2, <1>1, NoneAssumption DEF OpMuHeld, Holders, WithDevice, UnderLock, Ranges, Moved,
     OnlyDevice
<1>12. Cursors'
  BY <1>2, <1>1 DEF Cursors, MuHeld, WithDevice, UnderLock, Moved, OnlyBus
<1>13. Candidate'
  BY <1>2, <1>1 DEF Candidate, Probing, Moved
<1>14. Kinded'
  BY <1>2, <1>1 DEF Kinded, Moved
<1>15. Resting'
  <2>1. held[d] = {}
    BY <1>1, <1>2, LettingGoEnds DEF Working
  <2>2. d \notin initialized
    BY <1>1, <1>2, NoneAssumption DEF Resting, OpMuHeld, UnderLock
  <2> QED BY <1>1, <1>2, <2>1, <2>2 DEF Resting, OnlyDevice
<1>16. Working'
  BY <1>2, <1>1 DEF Working, Moved
<1>17. Answered'
  BY <1>2, <1>1, NoneAssumption DEF Answered, Answers, Ranges, Moved, OnlyBus, Cursors,
     SendMuHeld, Stopping, Resting, OpMuHeld, WithDevice
<1>18. Usable'
  BY <1>2, <1>1, NoneAssumption DEF Usable, Selected, StopPending, Moved, OnlyBus
<1> QED BY <1>3, <1>4, <1>5, <1>6, <1>7, <1>8, <1>9, <1>10, <1>11, <1>12, <1>13, <1>14,
     <1>15, <1>16, <1>17, <1>18
  DEF IInv, Types, Locks, Ownership, Holdings

-----------------------------------------------------------------------------
(* The invariant, and what follows from it. *)

LEMMA InitIInv == Init => IInv
<1> SUFFICES ASSUME Init PROVE IInv
  OBVIOUS
<1>1. /\ pc = [p \in Proc |-> "idle"] /\ calls = [p \in Proc |-> 0]
      /\ at = [p \in Proc |-> None] /\ cur = [p \in Proc |-> None]
      /\ todo = [p \in Proc |-> <<>>] /\ next = [p \in Proc |-> 1]
      /\ mu = [b \in Bus |-> None] /\ sendMu = [b \in Bus |-> None]
      /\ autoMu = [b \in Bus |-> None] /\ opMu = [d \in Device |-> None]
      /\ open = {} /\ overtaken = {} /\ initialized = {} /\ inUse = FALSE
      /\ held = [d \in Device |-> {}]
  BY DEF Init
<1>2. ProcTypes
  BY <1>1, CandidateKinds DEF ProcTypes
<1>3. BusTypes
  BY <1>1 DEF BusTypes, Init
<1>4. DevTypes
  BY <1>1 DEF DevTypes, Init
<1>5. Holders
  BY <1>1, NoneAssumption DEF Holders
<1>6. MuHeld /\ SendMuHeld
  BY <1>1, NoneAssumption DEF MuHeld, SendMuHeld, Opening, Stopping
<1>7. AutoMuHeld /\ OpMuHeld
  BY <1>1, NoneAssumption DEF AutoMuHeld, OpMuHeld, UnderLock
<1>8. Cursors /\ Candidate
  BY <1>1 DEF Cursors, Candidate, WithDevice, UnderLock
<1>9. Drivers
  <2>1. \A b, c \in Bus : driver[b] # None /\ driver[b] = driver[c] => b = c
    BY DEF Init
  <2>2. \A b \in Bus : driver[b] # None <=> b \notin AutoBus
    BY DEF Init
  <2> QED BY <1>1, <2>1, <2>2 DEF Drivers
<1>10. Kinded
  <2>1. \A b \in Bus : driver[b] # None => driver[b] \in Device /\ kind[driver[b]] # None
    BY DEF Init
  <2>2. \A d \in Device : kind[d] # None => kind[d] \in BackendName
    BY KindAssumption DEF Init
  <2> QED BY <1>1, <2>1, <2>2 DEF Kinded
<1>11. Resting /\ Working
  BY <1>1 DEF Resting, Working
<1>12. SessionExclusive
  BY <1>1 DEF SessionExclusive
<1>13. Answered
  BY <1>1 DEF Answered
<1>14. Usable
  BY <1>1 DEF Usable
<1> QED
  BY <1>2, <1>3, <1>4, <1>5, <1>6, <1>7, <1>8, <1>9, <1>10, <1>11, <1>12, <1>13, <1>14
  DEF IInv, Types, Locks, Ownership, Holdings

LEMMA Inductive == IInv /\ [Next]_vars => IInv'
<1> SUFFICES ASSUME IInv, [Next]_vars PROVE IInv'
  OBVIOUS
<1>1. ASSUME NEW p \in Proc, Call(p) PROVE IInv'
  BY <1>1, CallStep
<1>2. ASSUME NEW p \in Proc, OpenLock(p) PROVE IInv'
  BY <1>2, OpenLockStep
<1>3. ASSUME NEW p \in Proc, InitializeAuto(p) PROVE IInv'
  BY <1>3, InitializeAutoStep
<1>4. ASSUME NEW p \in Proc, Probe(p) PROVE IInv'
  BY <1>4, ProbeStep
<1>5. ASSUME NEW p \in Proc, ProbeFails(p) PROVE IInv'
  BY <1>5, ProbeFailsStep
<1>6. ASSUME NEW p \in Proc, InitializeDevice(p) PROVE IInv'
  BY <1>6, InitializeDeviceStep
<1>7. ASSUME NEW p \in Proc, Stage(p) PROVE IInv'
  BY <1>7, StageStep
<1>8. ASSUME NEW p \in Proc, StageFails(p) PROVE IInv'
  BY <1>8, StageFailsStep
<1>9. ASSUME NEW p \in Proc, Initialized(p) PROVE IInv'
  BY <1>9, InitializedStep
<1>10. ASSUME NEW p \in Proc, StartDevice(p) PROVE IInv'
  BY <1>10, StartDeviceStep
<1>11. ASSUME NEW p \in Proc, Start(p) PROVE IInv'
  BY <1>11, StartStep
<1>12. ASSUME NEW p \in Proc, CloseLock(p) PROVE IInv'
  BY <1>12, CloseLockStep
<1>13. ASSUME NEW p \in Proc, CloseBus(p) PROVE IInv'
  BY <1>13, CloseBusStep
<1>14. ASSUME NEW p \in Proc, StopAuto(p) PROVE IInv'
  BY <1>14, StopAutoStep
<1>15. ASSUME NEW p \in Proc, StopBus(p) PROVE IInv'
  BY <1>15, StopBusStep
<1>16. ASSUME NEW p \in Proc, StopDevice(p) PROVE IInv'
  BY <1>16, StopDeviceStep
<1>17. ASSUME NEW p \in Proc, Release(p) PROVE IInv'
  BY <1>17, ReleaseStep
<1>18. ASSUME NEW p \in Proc, CleanedUp(p) PROVE IInv'
  BY <1>18, CleanedUpStep
<1>19. ASSUME NEW p \in Proc, Stopped(p) PROVE IInv'
  BY <1>19, StoppedStep
<1>20. CASE UNCHANGED vars
  BY <1>20, Kept DEF vars, procVars, busVars, devVars, IInv, Types, Locks, Ownership, Holdings
<1> QED
  BY <1>1, <1>2, <1>3, <1>4, <1>5, <1>6, <1>7, <1>8, <1>9, <1>10,
     <1>11, <1>12, <1>13, <1>14, <1>15, <1>16, <1>17, <1>18, <1>19, <1>20
  DEF Next, Step

\* The inductive invariant holds in every reachable state.
THEOREM IInvHolds == Spec => []IInv
<1>1. Init => IInv
  BY InitIInv
<1>2. IInv /\ [Next]_vars => IInv'
  BY Inductive
<1> QED BY <1>1, <1>2, PTL DEF Spec

\* The types, and who may hold a lock: whoever holds one of a bus is in a call on that
\* bus, whoever holds a device's works on that device (auto_driver.go, common.go).
THEOREM TypeCorrect == Spec => []TypeOK
<1>1. IInv => TypeOK
  <2> SUFFICES ASSUME IInv PROVE TypeOK
    OBVIOUS
  <2>1. ProcTypes /\ BusTypes /\ DevTypes /\ Holders
    BY DEF IInv, Types
  <2>2. \A p \in Proc : ToSet(todo[p]) \subseteq Held \cup {"check"}
    <3> SUFFICES ASSUME NEW p \in Proc PROVE ToSet(todo[p]) \subseteq Held \cup {"check"}
      OBVIOUS
    <3>1. todo[p] \in Seq(Held \cup {"check"})
      BY <2>1 DEF ProcTypes
    <3> QED BY <3>1 DEF ToSet
  <2>3. {mu[b] : b \in Bus} \cup {sendMu[b] : b \in Bus} \cup {autoMu[b] : b \in Bus}
          \subseteq Proc \cup {None}
    BY <2>1 DEF BusTypes
  <2>4. \A b \in Bus : \A q \in {mu[b], sendMu[b], autoMu[b]} \ {None} : at[q] = b
    BY <2>1 DEF BusTypes, Holders
  <2>5. \A d \in Device : opMu[d] # None => cur[opMu[d]] = d
    BY <2>1 DEF DevTypes, Holders
  <2> QED BY <2>1, <2>2, <2>3, <2>4, <2>5 DEF TypeOK, ProcTypes, BusTypes, DevTypes
<1> QED BY <1>1, IInvHolds, PTL

\* The process has one Toomoss session: acquireToomossSession refuses a second device
\* until the first has let go of the session, and of its adapter before (toomoss.go).
THEOREM SessionIsExclusive == Spec => []SessionExclusive
<1>1. IInv => SessionExclusive
  BY DEF IInv
<1> QED BY <1>1, IInvHolds, PTL

\* What a device holds somebody will let go of, whichever of its stages failed and
\* whichever candidate was rejected: a failed initialize lets go of what it has taken
\* (cleanup), a stop of everything (stop), and no device is lost on the way.
THEOREM NothingIsLeaked == Spec => []NothingLeaks
<1>1. IInv => NothingLeaks
  <2> SUFFICES ASSUME IInv, NEW d \in Device, held[d] # {}, \A p \in Proc : cur[p] # d
               PROVE  /\ d \in initialized
                      /\ \E b \in Bus : /\ driver[b] = d
                                        /\ b \in open \/ mu[b] # None \/ sendMu[b] # None
    BY DEF NothingLeaks
  <2>1. opMu[d] = None
    BY DEF IInv, Types, DevTypes, Holders
  <2>2. d \in initialized
    BY <2>1 DEF IInv, Holdings, Resting
  <2>3. PICK b \in Bus : driver[b] = d /\ Answers(b)
    BY <2>2 DEF IInv, Answered
  <2> QED BY <2>2, <2>3, NoneAssumption DEF Answers
<1> QED BY <1>1, IInvHolds, PTL

\* A bus that bus.Open has opened has a device of its own, with all that its initialize
\* takes hold of and a read loop, until Close closes the bus: unless the Open overtook a
\* Close between mu.Unlock and device.stop (bus.go).
THEOREM OpenDevices == Spec => []OpenHasDevice
<1>1. IInv => OpenHasDevice
  <2> SUFFICES ASSUME IInv, NEW b \in open \ overtaken
               PROVE  /\ driver[b] \in initialized
                      /\ held[driver[b]] = Full(kind[driver[b]]) \cup {"loop"}
                      /\ \A c \in Bus \ {b} : driver[c] # driver[b]
    BY DEF OpenHasDevice, Full
  <2>1. b \in Bus /\ driver[b] \in initialized /\ "loop" \in held[driver[b]]
        /\ driver[b] \in Device /\ driver[b] # None
    BY NoneAssumption DEF IInv, Types, BusTypes, DevTypes, Usable, Selected
  <2>2. held[driver[b]] \ {"loop"} = Full(kind[driver[b]])
    BY <2>1 DEF IInv, Holdings, Resting
  <2>3. \A c \in Bus \ {b} : driver[c] # driver[b]
    BY <2>1 DEF IInv, Ownership, Drivers
  <2> QED BY <2>1, <2>2, <2>3
<1> QED BY <1>1, IInvHolds, PTL
=============================================================================

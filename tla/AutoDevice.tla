------------------------------ MODULE AutoDevice ------------------------------
(***************************************************************************)
(* How buses come by their devices: bus.Open and bus.Close over a vendor   *)
(* device made for the bus, or over autoDevice, which tries its candidates *)
(* in order and keeps the first that initializes in the right mode; the    *)
(* stages in which each backend's initialize takes hold of what it needs,  *)
(* each of which may fail, and those in which its cleanup and stop let go; *)
(* and the one Toomoss session of the process.                             *)
(*                                                                         *)
(* A device holds members of Held:                                         *)
(*   session     it owns toomossInUse                                      *)
(*   library     the vendor's DLL, if releasing it is the device's work    *)
(*   driver      xlOpenDriver was called                                   *)
(*   port        the adapter is open: the USB device, CAN_Initialize,      *)
(*               VCI_OpenDevice, xlOpenPort, tsapp_connect                 *)
(*   statistics  tsapp_enable_bus_statistics                               *)
(*   runtime     context, rxChan and fan-out                               *)
(*   loop        the read loop                                             *)
(***************************************************************************)
EXTENDS Integers, Sequences, FiniteSets, SequencesExt

CONSTANTS
  Proc,        \* goroutines of the application
  Bus, AutoBus,   \* the buses, and those over an autoDevice
  Kinds,       \* backends a bus that is not automatic may have
  Candidates,  \* backends autoDevice tries, in order
  Misfit,      \* candidates of the caller whose devices are in another mode
  Device,      \* objects that New may return
  None,        \* nobody, no device
  MaxCalls     \* bound on the calls of each goroutine

BackendName == {"Toomoss", "TSMaster", "PCAN", "Vector", "CanalystII", "Other"}

ASSUME AutoAssumption == AutoBus \subseteq Bus
ASSUME KindAssumption == /\ Kinds \subseteq BackendName \ {"Other"}
                         /\ Candidates \in Seq(BackendName) /\ Misfit \subseteq {"Other"}
ASSUME NoneAssumption == /\ None \notin Proc /\ None \notin Bus
                         /\ None \notin Device /\ None \notin BackendName
ASSUME BoundAssumption == MaxCalls \in [Proc -> Nat]

VARIABLES
  pc, calls,     \* each goroutine: where it is in its call, and how many calls it has begun
  at, cur,       \* the bus of its call, and the device it works on
  todo, next,    \* stages it still has to go through, the candidate autoDevice tries next
  open, mu, sendMu, \* per bus: open, the holders of its locks
  driver,        \* per bus: autoDevice.driver, or the bus's only device
  autoMu,        \* per bus: the holder of autoDevice.mu
  kind, initialized, held, \* per device: its backend, lifecycle.initialized, what it holds
  opMu,          \* per device: the holder of its lock
  inUse,         \* toomossInUse
  overtaken      \* history: buses whose last Open got a device that a Close has yet to stop

procVars == <<pc, calls, at, cur, todo, next>>
busVars  == <<open, mu, sendMu, driver, autoMu, overtaken>>
devVars  == <<kind, initialized, held, opMu, inUse>>
vars == <<procVars, busVars, devVars>>

Held == {"session", "library", "driver", "port", "statistics", "runtime", "loop"}

-----------------------------------------------------------------------------
(* The backends: what initialize takes hold of, in order ("check" may fail and takes    *)
(* nothing), what it lets go of in order if a stage fails, and what stop lets go of     *)
(* in order once the read loop has ended, where a device that was not initialized has   *)
(* no adapter to close.                                                                 *)

IfInitialized(was, s) == IF was THEN s ELSE <<>>

Toomoss == [stages  |-> <<"session", "library", "check", "port", "check", "runtime">>,
            cleanup |-> <<"port", "library", "session">>]
ToomossStop(was) ==
  <<"runtime">> \o IfInitialized(was, <<"port", "library">>) \o <<"session">>

TSMaster == [stages  |-> <<"runtime", "library", "check", "port", "statistics", "check">>,
             cleanup |-> <<"statistics", "port", "library", "runtime">>]
TSMasterStop(was) ==
  <<"runtime">> \o IfInitialized(was, <<"statistics", "port">>) \o <<"library">>

PCAN == [stages |-> <<"runtime", "check", "port">>, cleanup |-> <<"runtime">>]
PCANStop(was) == <<"runtime">> \o IfInitialized(was, <<"port">>)

Vector == [stages  |-> <<"runtime", "check", "driver", "check", "port", "check">>,
           cleanup |-> <<"runtime", "port", "driver">>]
VectorStop(was) == <<"runtime">> \o IfInitialized(was, <<"port", "driver">>)

CanalystII == [stages  |-> <<"runtime", "check", "port", "check">>,
               cleanup |-> <<"port", "runtime">>]
CanalystIIStop(was) == <<"runtime">> \o IfInitialized(was, <<"port">>)

\* A candidate of the caller's own, which takes hold of nothing.
Other == [stages |-> <<"check">>, cleanup |-> <<>>]

Backend(k) ==
  CASE k = "Toomoss" -> Toomoss [] k = "TSMaster" -> TSMaster [] k = "PCAN" -> PCAN
    [] k = "Vector" -> Vector [] k = "CanalystII" -> CanalystII [] k = "Other" -> Other

Stages(k) == Backend(k).stages

CleanupNone(k) == <<>>

Cleanup(k) == Backend(k).cleanup

Stop(k, was) ==
  CASE k = "Toomoss" -> ToomossStop(was) [] k = "TSMaster" -> TSMasterStop(was)
    [] k = "PCAN" -> PCANStop(was) [] k = "Vector" -> VectorStop(was)
    [] k = "CanalystII" -> CanalystIIStop(was) [] k = "Other" -> <<>>

-----------------------------------------------------------------------------
\* Every bus that is not automatic has its device from the start.
Init ==
  /\ driver \in [Bus -> Device \cup {None}]
  /\ \A b \in Bus : driver[b] = None <=> b \in AutoBus
  /\ \A b, c \in Bus \ AutoBus : driver[b] = driver[c] => b = c
  /\ kind \in [Device -> Kinds \cup {None}]
  /\ \A d \in Device : kind[d] # None <=> \E b \in Bus : driver[b] = d
  /\ initialized = {} /\ held = [d \in Device |-> {}]
  /\ opMu = [d \in Device |-> None] /\ inUse = FALSE
  /\ open = {} /\ overtaken = {}
  /\ mu = [b \in Bus |-> None] /\ sendMu = [b \in Bus |-> None]
  /\ autoMu = [b \in Bus |-> None]
  /\ pc = [p \in Proc |-> "idle"] /\ calls = [p \in Proc |-> 0]
  /\ at = [p \in Proc |-> None] /\ cur = [p \in Proc |-> None]
  /\ todo = [p \in Proc |-> <<>>] /\ next = [p \in Proc |-> 1]

Goto(p, label) == pc' = [pc EXCEPT ![p] = label]

\* A goroutine unlocks the device it works on.
UnlockedNever(p) == opMu

Unlocked(p) == [opMu EXCEPT ![cur[p]] = None]

\* A goroutine returns from its call.
Return(p) ==
  /\ Goto(p, "idle") /\ at' = [at EXCEPT ![p] = None] /\ cur' = [cur EXCEPT ![p] = None]
  /\ next' = [next EXCEPT ![p] = 1] /\ UNCHANGED <<calls, todo>>

\* It holds autoDevice.mu: it is in the loop of autoDevice.initialize.
Probing(p) == autoMu[at[p]] = p

Call(p) ==
  /\ pc[p] = "idle" /\ calls[p] < MaxCalls[p]
  /\ calls' = [calls EXCEPT ![p] = @ + 1]
  /\ \E op \in {"open", "close"} : Goto(p, op)
  /\ \E b \in Bus : at' = [at EXCEPT ![p] = b]
  /\ UNCHANGED <<cur, todo, next, busVars, devVars>>

-----------------------------------------------------------------------------
(* Open. *)

OpenLock(p) ==
  LET b == at[p] IN
  /\ pc[p] = "open" /\ mu[b] = None
  /\ IF b \in open THEN Return(p) /\ UNCHANGED mu
     ELSE Goto(p, "initialize") /\ mu' = [mu EXCEPT ![b] = p]
          /\ UNCHANGED <<calls, at, cur, todo, next>>
  /\ UNCHANGED <<open, sendMu, driver, autoMu, overtaken, devVars>>

\* A Close of b has yet to stop device d.
StopPending(b, d) == \E q \in Proc :
  /\ sendMu[b] = q
  /\ pc[q] = "stop" \/ (pc[q] = "stopDevice" /\ cur[q] = d)

Overtake(b, d) ==
  overtaken' = IF StopPending(b, d) THEN overtaken \cup {b} ELSE overtaken \ {b}

\* autoDevice.initialize: a device is selected already, or the loop begins.
InitializeAuto(p) ==
  LET b == at[p] IN
  /\ pc[p] = "initialize" /\ b \in AutoBus /\ autoMu[b] = None
  /\ IF driver[b] # None
     THEN Goto(p, "start") /\ Overtake(b, driver[b]) /\ UNCHANGED autoMu
     ELSE /\ Goto(p, "probe") /\ autoMu' = [autoMu EXCEPT ![b] = p]
          /\ UNCHANGED overtaken
  /\ UNCHANGED <<calls, at, cur, todo, next, open, mu, sendMu, driver, devVars>>

\* Objects nobody refers to and that hold nothing: what New returns.
Unreferenced == {d \in Device : /\ \A b \in Bus : driver[b] # d
                                /\ \A p \in Proc : cur[p] # d}
Fresh == {d \in Unreferenced : held[d] = {}}

\* The next candidate is made, and its initialize begins.
Probe(p) ==
  /\ pc[p] = "probe" /\ next[p] <= Len(Candidates)
  /\ \E d \in Fresh : LET k == Candidates[next[p]] IN
        /\ kind' = [kind EXCEPT ![d] = k] /\ opMu' = [opMu EXCEPT ![d] = p]
        /\ cur' = [cur EXCEPT ![p] = d] /\ todo' = [todo EXCEPT ![p] = Stages(k)]
  /\ next' = [next EXCEPT ![p] = @ + 1] /\ Goto(p, "stages")
  /\ UNCHANGED <<calls, at, busVars, initialized, held, inUse>>

\* No candidate is left.
ProbeFails(p) ==
  /\ pc[p] = "probe" /\ next[p] > Len(Candidates)
  /\ autoMu' = [autoMu EXCEPT ![at[p]] = None] /\ Goto(p, "stop")
  /\ UNCHANGED <<calls, at, cur, todo, next, open, mu, sendMu, driver, overtaken, devVars>>

\* The initialize of a device that was made for the bus.
InitializeDevice(p) ==
  LET b == at[p]
      d == driver[b] IN
  /\ pc[p] = "initialize" /\ b \notin AutoBus /\ opMu[d] = None
  /\ IF d \in initialized
     THEN Goto(p, "start") /\ Overtake(b, d) /\ UNCHANGED <<cur, todo, opMu>>
     ELSE /\ Goto(p, "stages") /\ cur' = [cur EXCEPT ![p] = d]
          /\ todo' = [todo EXCEPT ![p] = Stages(kind[d])] /\ opMu' = [opMu EXCEPT ![d] = p]
          /\ UNCHANGED overtaken
  /\ UNCHANGED <<calls, at, next, open, mu, sendMu, driver, autoMu,
                 kind, initialized, held, inUse>>

\* acquireToomossSession.
Acquirable == ~inUse

\* A stage succeeds.
Stage(p) ==
  /\ pc[p] = "stages" /\ todo[p] # <<>>
  /\ LET r == Head(todo[p]) IN
     /\ r = "session" => Acquirable
     /\ inUse' = (inUse \/ r = "session")
     /\ held' = IF r = "check" THEN held ELSE [held EXCEPT ![cur[p]] = @ \cup {r}]
  /\ todo' = [todo EXCEPT ![p] = Tail(@)]
  /\ UNCHANGED <<pc, calls, at, cur, next, busVars, kind, initialized, opMu>>

\* A stage fails: the session is another device's, or a vendor call, a DLL or the
\* configuration fails.  Without the session, initialize returns with no cleanup.
StageFails(p) ==
  /\ pc[p] = "stages" /\ todo[p] # <<>>
  /\ Head(todo[p]) # "runtime" /\ (Head(todo[p]) = "session" => ~Acquirable)
  /\ Goto(p, "release")
  /\ todo' = [todo EXCEPT ![p] =
                IF Head(@) = "session" THEN <<>> ELSE Cleanup(kind[cur[p]])]
  /\ UNCHANGED <<calls, at, cur, next, busVars, devVars>>

\* markInitialized, and autoDevice looks at the mode before it keeps the device.
Initialized(p) ==
  LET b == at[p]
      d == cur[p] IN
  /\ pc[p] = "stages" /\ todo[p] = <<>>
  /\ initialized' = initialized \cup {d} /\ opMu' = Unlocked(p)
  /\ IF Probing(p) /\ kind[d] \in Misfit
     THEN Goto(p, "stopDevice") /\ UNCHANGED <<cur, driver, autoMu, overtaken>>
     ELSE /\ Overtake(b, d) /\ driver' = [driver EXCEPT ![b] = d] /\ autoMu' = [autoMu EXCEPT ![b] = None]
          /\ Goto(p, "start") /\ cur' = [cur EXCEPT ![p] = None]
  /\ UNCHANGED <<calls, at, todo, next, open, mu, sendMu, kind, held, inUse>>

\* start takes the device autoDevice has by now, if any, ...
StartDevice(p) ==
  LET b == at[p] IN
  /\ pc[p] = "start" /\ (b \in AutoBus => autoMu[b] = None)
  /\ cur' = [cur EXCEPT ![p] = driver[b]]
  /\ Goto(p, IF driver[b] = None THEN "stop" ELSE "startDevice")
  /\ UNCHANGED <<calls, at, todo, next, busVars, devVars>>

\* ... and starts its read loop, unless it runs, if the device is still initialized.
Start(p) ==
  LET b == at[p]
      d == cur[p] IN
  /\ pc[p] = "startDevice" /\ opMu[d] = None
  /\ IF d \in initialized
     THEN /\ held' = [held EXCEPT ![d] = @ \cup {"loop"}]
          /\ open' = open \cup {b} /\ mu' = [mu EXCEPT ![b] = None] /\ Return(p)
     ELSE /\ Goto(p, "stop") /\ cur' = [cur EXCEPT ![p] = None]
          /\ UNCHANGED <<calls, at, todo, next, held, open, mu>>
  /\ UNCHANGED <<sendMu, driver, autoMu, overtaken, kind, initialized, opMu, inUse>>

-----------------------------------------------------------------------------
(* Close, and the stop of a device. *)

CloseLock(p) ==
  /\ pc[p] = "close" /\ sendMu[at[p]] = None
  /\ sendMu' = [sendMu EXCEPT ![at[p]] = p] /\ Goto(p, "closing")
  /\ UNCHANGED <<calls, at, cur, todo, next, open, mu, driver, autoMu, overtaken, devVars>>

\* The buses that stay open when b is closed.
OpenAfterForgotten(b) == open

OpenAfter(b) == open \ {b}

\* The bus is closed under mu; the device is stopped after mu was let go of.
CloseBus(p) ==
  LET b == at[p] IN
  /\ pc[p] = "closing" /\ mu[b] = None
  /\ IF b \in open
     THEN Goto(p, "stop") /\ UNCHANGED <<calls, at, cur, todo, next, sendMu>>
     ELSE Return(p) /\ sendMu' = [sendMu EXCEPT ![b] = None]
  /\ open' = OpenAfter(b)
  /\ UNCHANGED <<mu, driver, autoMu, overtaken, devVars>>

\* Open failed, or Close has closed the bus: both end after device.stop.
Finish(p) ==
  /\ Return(p)
  /\ IF mu[at[p]] = p THEN mu' = [mu EXCEPT ![at[p]] = None] /\ UNCHANGED sendMu
                      ELSE sendMu' = [sendMu EXCEPT ![at[p]] = None] /\ UNCHANGED mu

\* autoDevice.stop forgets its device before it stops it.
StopAuto(p) ==
  LET b == at[p] IN
  /\ pc[p] = "stop" /\ b \in AutoBus /\ autoMu[b] = None
  /\ driver' = [driver EXCEPT ![b] = None]
  /\ IF driver[b] = None THEN Finish(p)
     ELSE /\ Goto(p, "stopDevice") /\ cur' = [cur EXCEPT ![p] = driver[b]]
          /\ UNCHANGED <<calls, at, todo, next, mu, sendMu>>
  /\ UNCHANGED <<open, autoMu, overtaken, devVars>>

StopBus(p) ==
  /\ pc[p] = "stop" /\ at[p] \notin AutoBus
  /\ Goto(p, "stopDevice") /\ cur' = [cur EXCEPT ![p] = driver[at[p]]]
  /\ UNCHANGED <<calls, at, todo, next, busVars, devVars>>

\* cancelAndWait, under the device's lock.
StopDevice(p) ==
  LET d == cur[p] IN
  /\ pc[p] = "stopDevice" /\ opMu[d] = None
  /\ opMu' = [opMu EXCEPT ![d] = p] /\ initialized' = initialized \ {d}
  /\ held' = [held EXCEPT ![d] = @ \ {"loop"}]
  /\ todo' = [todo EXCEPT ![p] = Stop(kind[d], d \in initialized)] /\ Goto(p, "released")
  /\ UNCHANGED <<calls, at, cur, next, busVars, kind, inUse>>

\* releaseToomossSession is called by the owner of the session only.
OwnsOrNot(d) == TRUE

Owns(d) == "session" \in held[d]

\* One thing is let go of, if the device holds it.
Release(p) ==
  /\ pc[p] \in {"release", "released"} /\ todo[p] # <<>>
  /\ LET r == Head(todo[p]) IN
     /\ held' = [held EXCEPT ![cur[p]] = @ \ {r}]
     /\ inUse' = (inUse /\ ~(r = "session" /\ Owns(cur[p])))
  /\ todo' = [todo EXCEPT ![p] = Tail(@)]
  /\ UNCHANGED <<pc, calls, at, cur, next, busVars, kind, initialized, opMu>>

\* A failed initialize returns its error: autoDevice, or bus.Open, stops the device.
CleanedUp(p) ==
  /\ pc[p] = "release" /\ todo[p] = <<>>
  /\ opMu' = Unlocked(p) /\ Goto(p, "stopDevice")
  /\ UNCHANGED <<calls, at, cur, todo, next, busVars, kind, initialized, held, inUse>>

\* stop returns: to the loop over candidates, or to bus.Open or bus.Close.
Stopped(p) ==
  /\ pc[p] = "released" /\ todo[p] = <<>>
  /\ opMu' = Unlocked(p)
  /\ IF Probing(p)
     THEN /\ Goto(p, "probe") /\ cur' = [cur EXCEPT ![p] = None]
          /\ UNCHANGED <<calls, at, todo, next, mu, sendMu>>
     ELSE Finish(p)
  /\ UNCHANGED <<open, driver, autoMu, overtaken, kind, initialized, held, inUse>>

-----------------------------------------------------------------------------
Step(p) ==
  \/ OpenLock(p) \/ InitializeAuto(p) \/ Probe(p) \/ ProbeFails(p) \/ InitializeDevice(p)
  \/ Stage(p) \/ StageFails(p) \/ Initialized(p) \/ StartDevice(p) \/ Start(p)
  \/ CloseLock(p) \/ CloseBus(p) \/ StopAuto(p) \/ StopBus(p) \/ StopDevice(p)
  \/ Release(p) \/ CleanedUp(p) \/ Stopped(p)

Next == \E p \in Proc : Call(p) \/ Step(p)

Spec == Init /\ [][Next]_vars

\* The scheduler runs every goroutine; vendor calls return.
FairSpec == Spec /\ \A p \in Proc : WF_vars(Step(p))

-----------------------------------------------------------------------------
TypeOK ==
  /\ pc \in [Proc -> {"idle", "open", "initialize", "probe", "stages", "release", "start",
                      "startDevice", "close", "closing", "stop", "stopDevice", "released"}]
  /\ calls \in [Proc -> Nat] /\ next \in [Proc -> 1..(Len(Candidates) + 1)]
  /\ at \in [Proc -> Bus \cup {None}] /\ cur \in [Proc -> Device \cup {None}]
  /\ \A p \in Proc : ToSet(todo[p]) \subseteq Held \cup {"check"}
  /\ open \subseteq Bus /\ overtaken \subseteq Bus
  /\ {mu[b] : b \in Bus} \cup {sendMu[b] : b \in Bus} \cup {autoMu[b] : b \in Bus}
       \subseteq Proc \cup {None}
  /\ driver \in [Bus -> Device \cup {None}] /\ opMu \in [Device -> Proc \cup {None}]
  /\ kind \in [Device -> Kinds \cup ToSet(Candidates) \cup {None}]
  /\ initialized \subseteq Device /\ held \in [Device -> SUBSET Held] /\ inUse \in BOOLEAN
  /\ \A b \in Bus : \A q \in {mu[b], sendMu[b], autoMu[b]} \ {None} : at[q] = b
  /\ \A d \in Device : opMu[d] # None => cur[opMu[d]] = d

\* The process has one Toomoss session: it is in use exactly while one device owns it,
\* and a device talks to the USB adapter only while it owns it.
SessionExclusive ==
  /\ \A d, e \in Device : "session" \in held[d] \cap held[e] => d = e
  /\ inUse = \E d \in Device : "session" \in held[d]
  /\ \A d \in Device :
       kind[d] = "Toomoss" /\ "port" \in held[d] => "session" \in held[d]

\* What a device holds, somebody will let go of: candidates that failed or were
\* rejected, and devices whose bus is closed, hold nothing.
NothingLeaks == \A d \in Device :
  held[d] # {} =>
    \/ \E p \in Proc : cur[p] = d
    \/ /\ d \in initialized
       /\ \E b \in Bus : /\ driver[b] = d
                         /\ b \in open \/ mu[b] # None \/ sendMu[b] # None

\* An open bus has a device that holds all its initialize took, its read loop runs, and
\* no other bus has it.  (Unless Open overtook a Close, see the README.)
OpenHasDevice == \A b \in open \ overtaken :
  /\ driver[b] \in initialized
  /\ held[driver[b]] = (ToSet(Stages(kind[driver[b]])) \ {"check"}) \cup {"loop"}
  /\ \A c \in Bus \ {b} : driver[c] # driver[b]

\* Whose channel bus.Errors returns: the device's; that of None is closedErrors, which
\* autoDevice hands out while it has no device.
Errors(b) == driver[b]

\* "Errors returns one channel for the life of the driver; Close does not close or
\* replace it" (can.go).
ErrorsChannelKept == [][\A b \in Bus : Errors(b)' = Errors(b)]_vars
=============================================================================

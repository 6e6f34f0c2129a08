------------------------------ MODULE MemoryBus ------------------------------
(***************************************************************************)
(* The in-process CAN link (can/memory): two endpoints, each the peer of   *)
(* the other.  Send hands a frame to every subscriber of the peer, in the  *)
(* order the map is ranged over, under the peer's read lock, and then to   *)
(* the sender's own subscribers if the endpoint echoes.  Open, Close,      *)
(* Subscribe and the release of a subscription take the write lock.        *)
(*                                                                         *)
(* A goroutine's step is one critical section; the loop of dispatch is a   *)
(* step for each channel, as applications read channels in between.        *)
(***************************************************************************)
EXTENDS Integers, FiniteSets

CONSTANTS
  End, Peer,   \* the endpoints, and each one's peer
  Echo,        \* endpoints configured with IncludeTxEcho
  Proc, Chan,  \* goroutines of the application, subscriber channels
  SubCap,      \* capacity of a subscriber channel
  None,        \* no endpoint
  MaxCalls     \* bound on the calls of each goroutine

ASSUME PeerAssumption == Peer \in [End -> End] /\ \A e \in End : Peer[e] # e
ASSUME EchoAssumption == Echo \subseteq End
ASSUME NoneAssumption == None \notin End
ASSUME BoundAssumption == SubCap \in Nat \ {0} /\ MaxCalls \in [Proc -> Nat]

VARIABLES
  opened, closed, \* endpoints opened, and closed for good
  subs,           \* channels subscribed to each endpoint
  readers,        \* goroutines that dispatch under each endpoint's read lock
  dropped,        \* what Stats of each endpoint reports
  chan,           \* each channel: unused, open or closed
  home,           \* the endpoint each channel was made for
  unread, seen,   \* frames in each channel, and all frames it ever took
  released,       \* channels whose release has been called
  pc, at, calls,  \* each goroutine: where it is in its call, of which endpoint, how many so far
  left,           \* channels its call still has to handle
  live,           \* the call's context is not cancelled
  sent, due,      \* history: frames counted as sent; frames with the channels that were
                  \* subscribed while they were dispatched
  panicked        \* history: a closed channel was closed again or sent to

endVars  == <<opened, closed, subs>>
chanVars == <<chan, home, unread, seen, released>>
procVars == <<pc, at, calls, left, live>>
histVars == <<sent, due, panicked>>
vars == <<endVars, readers, dropped, chanVars, procVars, histVars>>

Init ==
  /\ opened = {} /\ closed = {}
  /\ subs = [e \in End |-> {}] /\ readers = [e \in End |-> {}]
  /\ dropped = [e \in End |-> 0]
  /\ chan = [c \in Chan |-> "unused"]
  /\ home = [c \in Chan |-> None]
  /\ unread = [c \in Chan |-> 0] /\ seen = [c \in Chan |-> {}]
  /\ released = {}
  /\ pc = [p \in Proc |-> "idle"] /\ at = [p \in Proc |-> None]
  /\ calls = [p \in Proc |-> 0]
  /\ left = [p \in Proc |-> {}] /\ live = [p \in Proc |-> TRUE]
  /\ sent = {} /\ due = {} /\ panicked = FALSE

Goto(p, label) == pc' = [pc EXCEPT ![p] = label] /\ UNCHANGED <<at, calls>>

\* The call is over.
Return(p) ==
  /\ pc' = [pc EXCEPT ![p] = "idle"] /\ at' = [at EXCEPT ![p] = None]
  /\ left' = [left EXCEPT ![p] = {}] /\ live' = [live EXCEPT ![p] = TRUE]
  /\ UNCHANGED calls

\* The frame of a goroutine's Send: a goroutine sends one frame in a call.
Frame(p) == [from |-> at[p], by |-> p, no |-> calls[p]]

\* Nobody dispatches: the endpoint's write lock can be had.
Lockable(e) == readers[e] = {}

\* close(ch) for every one of cs.
CloseChannels(cs) ==
  /\ chan' = [c \in Chan |-> IF c \in cs THEN "closed" ELSE chan[c]]
  /\ panicked' = (panicked \/ \E c \in cs : chan[c] = "closed")

-----------------------------------------------------------------------------
\* A goroutine begins a call; Subscribe makes its channel first.
Begin(p, label, e, cs) ==
  /\ pc' = [pc EXCEPT ![p] = label] /\ at' = [at EXCEPT ![p] = e]
  /\ calls' = [calls EXCEPT ![p] = @ + 1] /\ left' = [left EXCEPT ![p] = cs]
  /\ UNCHANGED live

Call(p) ==
  /\ pc[p] = "idle" /\ calls[p] < MaxCalls[p]
  /\ \/ /\ \E op \in {"open", "close", "send"}, e \in End : Begin(p, op, e, {})
        /\ UNCHANGED chanVars
     \/ \E c \in Chan, e \in End :
          /\ chan[c] = "unused" /\ Begin(p, "subscribe", e, {c})
          /\ chan' = [chan EXCEPT ![c] = "open"] /\ home' = [home EXCEPT ![c] = e]
          /\ UNCHANGED <<unread, seen, released>>
     \/ \E c \in Chan \ released :
          /\ chan[c] # "unused" /\ \A q \in Proc : pc[q] = "subscribe" => c \notin left[q]
          /\ Begin(p, "release", home[c], {c}) /\ released' = released \cup {c}
          /\ UNCHANGED <<chan, home, unread, seen>>
  /\ UNCHANGED <<endVars, readers, dropped, histVars>>

\* An endpoint opens once; closed, it stays closed.
Open(p) ==
  /\ pc[p] = "open" /\ Lockable(at[p])
  /\ opened' = opened \cup ({at[p]} \ closed)
  /\ Return(p)
  /\ UNCHANGED <<closed, subs, readers, dropped, chanVars, histVars>>

\* What remains open once e is closed.
OpenAfterForgotten(e) == opened

OpenAfter(e) == opened \ {e}

Close(p) ==
  LET e == at[p] IN
  /\ pc[p] = "close" /\ Lockable(e)
  /\ opened' = OpenAfter(e) /\ closed' = closed \cup {e}
  /\ CloseChannels(subs[e]) /\ subs' = [subs EXCEPT ![e] = {}]
  /\ Return(p)
  /\ UNCHANGED <<readers, dropped, home, unread, seen, released, sent, due>>

Subscribe(p) ==
  LET e == at[p] IN
  /\ pc[p] = "subscribe" /\ Lockable(e)
  /\ IF e \in opened
     THEN /\ subs' = [subs EXCEPT ![e] = @ \cup left[p]]
          /\ UNCHANGED <<chan, panicked>>
     ELSE CloseChannels(left[p]) /\ UNCHANGED subs
  /\ Return(p)
  /\ UNCHANGED <<opened, closed, readers, dropped, home, unread, seen, released, sent, due>>

\* The channels a release closes: those still subscribed.
HeldUnchecked(p) == left[p]

Held(p) == left[p] \cap subs[at[p]]

Release(p) ==
  LET e == at[p] IN
  /\ pc[p] = "release" /\ Lockable(e)
  /\ CloseChannels(Held(p)) /\ subs' = [subs EXCEPT ![e] = @ \ left[p]]
  /\ Return(p)
  /\ UNCHANGED <<opened, closed, readers, dropped, home, unread, seen, released, sent, due>>

-----------------------------------------------------------------------------
\* Send looks at its own endpoint, then lets go of the lock.
Send(p) ==
  /\ pc[p] = "send"
  /\ IF at[p] \in opened THEN Goto(p, "deliver") /\ UNCHANGED <<left, live>> ELSE Return(p)
  /\ UNCHANGED <<endVars, readers, dropped, chanVars, histVars>>

\* The endpoint a goroutine dispatches to: first the peer, then its own for the echo.
Target(p) == IF pc[p] \in {"deliver", "delivering"} THEN Peer[at[p]] ELSE at[p]

\* dispatch finds the endpoint closed: Send returns the peer's error, ignores its own.
RefusedIgnored(p) ==
  IF pc[p] = "deliver" THEN Goto(p, "echo") /\ UNCHANGED <<left, live>> ELSE Return(p)

Refused(p) == Return(p)

\* dispatch takes the read lock and keeps it while it ranges over the subscribers.
LockedBriefly(p) == readers

Locked(p) == [readers EXCEPT ![Target(p)] = @ \cup {p}]

DispatchBegin(p) ==
  /\ pc[p] \in {"deliver", "echo"}
  /\ IF Target(p) \in opened
     THEN /\ readers' = Locked(p) /\ left' = [left EXCEPT ![p] = subs[Target(p)]]
          /\ Goto(p, IF pc[p] = "deliver" THEN "delivering" ELSE "echoing")
          /\ UNCHANGED live
     ELSE Refused(p) /\ UNCHANGED readers
  /\ UNCHANGED <<endVars, dropped, chanVars, histVars>>

Dispatching(p) == pc[p] \in {"delivering", "echoing"}

\* A full channel takes the default branch, unless the context is done.
DropsNever(p, c) == FALSE

Drops(p, c) == unread[c] >= SubCap /\ live[p]

\* What is left of the loop after c.
RestAbandoned(p, c) == IF Drops(p, c) THEN {} ELSE left[p] \ {c}

Rest(p, c) == left[p] \ {c}

Visit(p) ==
  /\ Dispatching(p)
  /\ \E c \in left[p] :
       /\ left' = [left EXCEPT ![p] = Rest(p, c)]
       /\ \/ /\ unread[c] < SubCap
             /\ unread' = [unread EXCEPT ![c] = @ + 1]
             /\ seen' = [seen EXCEPT ![c] = @ \cup {Frame(p)}]
             /\ panicked' = (panicked \/ chan[c] = "closed")
             /\ UNCHANGED dropped
          \/ /\ Drops(p, c)
             /\ dropped' = [dropped EXCEPT ![Target(p)] = @ + 1]
             /\ UNCHANGED <<unread, seen, panicked>>
  /\ UNCHANGED <<endVars, readers, chan, home, released, pc, at, calls, live, sent, due>>

Unlock(p) == readers' = [readers EXCEPT ![Target(p)] = @ \ {p}]

\* The loop saw its context done: Send returns the error of the peer's dispatch.
Abandon(p) ==
  /\ Dispatching(p) /\ left[p] # {} /\ ~live[p]
  /\ Unlock(p) /\ Return(p)
  /\ UNCHANGED <<endVars, dropped, chanVars, histVars>>

DispatchEnd(p) ==
  /\ Dispatching(p) /\ left[p] = {} /\ Unlock(p)
  /\ due' = due \cup {<<Frame(p), c>> : c \in subs[Target(p)]}
  /\ IF pc[p] = "delivering" /\ at[p] \in Echo
     THEN Goto(p, "echo") /\ UNCHANGED <<left, live>>
     ELSE Return(p)
  /\ sent' = IF pc[p] = "delivering" THEN sent \cup {Frame(p)} ELSE sent
  /\ UNCHANGED <<endVars, dropped, chanVars, panicked>>

-----------------------------------------------------------------------------
\* The application cancels the context of a Send, or reads a channel.
Cancel(p) ==
  /\ pc[p] \in {"send", "deliver", "delivering", "echo", "echoing"} /\ live[p]
  /\ live' = [live EXCEPT ![p] = FALSE]
  /\ UNCHANGED <<endVars, readers, dropped, chanVars, pc, at, calls, left, histVars>>

Receive(c) ==
  /\ unread[c] > 0 /\ unread' = [unread EXCEPT ![c] = @ - 1]
  /\ UNCHANGED <<endVars, readers, dropped, chan, home, seen, released, procVars, histVars>>

Step(p) ==
  \/ Open(p) \/ Close(p) \/ Subscribe(p) \/ Release(p)
  \/ Send(p) \/ DispatchBegin(p) \/ Visit(p) \/ Abandon(p) \/ DispatchEnd(p)

Next ==
  \/ \E p \in Proc : Call(p) \/ Step(p) \/ Cancel(p)
  \/ \E c \in Chan : Receive(c)

Spec == Init /\ [][Next]_vars

\* The scheduler runs every goroutine; a mutex is granted.
FairSpec == Spec /\ \A p \in Proc : WF_vars(Step(p))

-----------------------------------------------------------------------------
Frames == [from : End, by : Proc, no : Nat]

EndTypes ==
  /\ opened \subseteq End /\ closed \subseteq End /\ opened \cap closed = {}
  /\ subs \in [End -> SUBSET Chan] /\ readers \in [End -> SUBSET Proc]
  /\ dropped \in [End -> Nat]

ChanTypes ==
  /\ chan \in [Chan -> {"unused", "open", "closed"}] /\ home \in [Chan -> End \cup {None}]
  /\ unread \in [Chan -> 0..SubCap] /\ seen \in [Chan -> SUBSET Frames]
  /\ released \subseteq Chan

ProcTypes ==
  /\ pc \in [Proc -> {"idle", "open", "close", "subscribe", "release", "send", "deliver",
                      "delivering", "echo", "echoing"}]
  /\ at \in [Proc -> End \cup {None}] /\ calls \in [Proc -> Nat]
  /\ left \in [Proc -> SUBSET Chan] /\ live \in [Proc -> BOOLEAN]

HistTypes ==
  sent \subseteq Frames /\ due \subseteq Frames \X Chan /\ panicked \in BOOLEAN

\* Types of the variables; a channel never holds more than its capacity, and no endpoint
\* is open and closed.
TypeOK == EndTypes /\ ChanTypes /\ ProcTypes /\ HistTypes

\* No channel is closed twice or sent to after it was closed, whichever of Close, a
\* release, a refused Subscribe and the sends of other goroutines meet.
NoPanic == ~panicked

\* A frame whose dispatch went through all subscribers is in the channel of each of
\* them, or counted in Stats of its endpoint.
NoSilentLoss == \A e \in End :
  Cardinality({d \in due : home[d[2]] = e /\ d[1] \notin seen[d[2]]}) <= dropped[e]

\* A sender reads the echo only of a frame that went to the peer: a Send that
\* returned an error is not confirmed, however it raced with Close.
EchoConfirms == \A c \in Chan : \A f \in seen[c] : f.from = home[c] => f \in sent

\* Every call returns: a writer waits only for dispatches, and a dispatch for nobody,
\* neither for the reader of a full channel nor for the other endpoint's lock.
CallsReturn == \A p \in Proc : pc[p] # "idle" ~> pc[p] = "idle"
=============================================================================

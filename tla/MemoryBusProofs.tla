--------------------------- MODULE MemoryBusProofs ---------------------------
(***************************************************************************)
(* Proofs about MemoryBus, for any number of endpoints, goroutines and     *)
(* subscribers, any capacity and any bound on the calls.                   *)
(***************************************************************************)
EXTENDS MemoryBus, FiniteSetTheorems, TLAPS

\* A goroutine in a call works on an endpoint.
Called == \A p \in Proc : pc[p] # "idle" => at[p] \in End

\* Subscribed channels are open, and their endpoint's.
Subscribed == \A e \in End : \A c \in subs[e] : chan[c] = "open" /\ home[c] = e

\* A channel about to be subscribed is open, one goroutine's, and in no endpoint's map.
Subscribing ==
  /\ \A p \in Proc : pc[p] = "subscribe" => \A c \in left[p] :
       chan[c] = "open" /\ home[c] = at[p] /\ \A e \in End : c \notin subs[e]
  /\ \A p, q \in Proc : pc[p] = "subscribe" /\ pc[q] = "subscribe" /\ p # q
                          => left[p] \cap left[q] = {}

\* A dispatch holds the read lock, so that what it has left to visit stays subscribed.
Dispatches == \A p \in Proc : Dispatching(p) =>
  p \in readers[Target(p)] /\ left[p] \subseteq subs[Target(p)]

\* Only frames that went out are on their way to be echoed.
Echoes == \A p \in Proc : pc[p] \in {"echo", "echoing"} => Frame(p) \in sent

\* A channel that was not made yet has taken nothing and is owed nothing; one that was made
\* is an endpoint's.
Unused == /\ \A c \in Chan : chan[c] = "unused" => seen[c] = {}
          /\ \A c \in Chan : chan[c] # "unused" => home[c] \in End
          /\ \A d \in due : chan[d[2]] # "unused"

\* Frame d[1] was offered to channel d[2], in a dispatch that is over or still runs.
Visited(d) == \/ d \in due
              \/ \E p \in Proc : /\ Dispatching(p) /\ d[1] = Frame(p)
                                 /\ d[2] \in subs[Target(p)] \ left[p]

Missing(e) == {d \in Frames \X Chan :
  Visited(d) /\ home[d[2]] = e /\ d[1] \notin seen[d[2]]}

\* Every frame missing from a channel it was offered to was counted.
Counted == \A e \in End : IsFiniteSet(Missing(e)) /\ Cardinality(Missing(e)) <= dropped[e]

\* The inductive invariant.
Locks == Called /\ Subscribed /\ Subscribing /\ Dispatches
History == Echoes /\ Unused /\ EchoConfirms /\ Counted
IInv == TypeOK /\ NoPanic /\ Locks /\ History

-----------------------------------------------------------------------------
(* What the steps have in common. *)

\* Only goroutine p moves.
OnlyMoves(p) == \A q \in Proc \ {p} :
  pc'[q] = pc[q] /\ at'[q] = at[q] /\ calls'[q] = calls[q] /\ left'[q] = left[q]

\* The others keep their frame, and the endpoint they dispatch to.
LEMMA OthersKept ==
  ASSUME NEW p \in Proc, OnlyMoves(p), NEW q \in Proc \ {p}
  PROVE  /\ Frame(q)' = Frame(q) /\ Target(q)' = Target(q)
         /\ Dispatching(q)' <=> Dispatching(q)
BY DEF OnlyMoves, Frame, Target, Dispatching

\* The target of a dispatch is an endpoint, its frame is well-formed.
LEMMA CallTypes ==
  ASSUME TypeOK, Called, NEW p \in Proc, pc[p] # "idle"
  PROVE  Target(p) \in End /\ Frame(p) \in Frames
BY PeerAssumption DEF TypeOK, ProcTypes, Called, Frame, Frames, Target

LEMMA CalledKept ==
  ASSUME Called, NEW p \in Proc, OnlyMoves(p), pc'[p] # "idle" => at'[p] \in End
  PROVE  Called'
BY DEF Called, OnlyMoves

LEMMA DispatchesKept ==
  ASSUME Dispatches, NEW p \in Proc, OnlyMoves(p),
         \A q \in Proc \ {p} : Dispatching(q) =>
           q \in readers'[Target(q)] /\ subs[Target(q)] \subseteq subs'[Target(q)],
         (Dispatching(p) => p \in readers[Target(p)] /\ left[p] \subseteq subs[Target(p)])'
  PROVE  Dispatches'
<1> SUFFICES ASSUME NEW q \in Proc, Dispatching(q)', q # p
             PROVE  (q \in readers[Target(q)] /\ left[q] \subseteq subs[Target(q)])'
  BY DEF Dispatches
<1>1. Dispatching(q) /\ Target(q)' = Target(q) /\ left'[q] = left[q]
  BY OthersKept DEF OnlyMoves
<1> QED BY <1>1 DEF Dispatches

LEMMA EchoesKept ==
  ASSUME Echoes, NEW p \in Proc, OnlyMoves(p), sent \subseteq sent',
         (pc[p] \in {"echo", "echoing"} => Frame(p) \in sent)'
  PROVE  Echoes'
<1> SUFFICES ASSUME NEW q \in Proc, (pc[q] \in {"echo", "echoing"})', q # p
             PROVE  (Frame(q) \in sent)'
  BY DEF Echoes
<1>1. pc[q] \in {"echo", "echoing"} /\ Frame(q)' = Frame(q)
  BY OthersKept DEF OnlyMoves
<1> QED BY <1>1 DEF Echoes

\* What was made stays, and a channel about to be subscribed is nobody else's.
LEMMA SubscribingKept ==
  ASSUME Subscribing, NEW p \in Proc, OnlyMoves(p), pc'[p] # "subscribe",
         \A q \in Proc \ {p} : pc[q] = "subscribe" => \A c \in left[q] :
           /\ chan'[c] = chan[c] /\ home'[c] = home[c]
           /\ \A e \in End : c \notin subs'[e]
  PROVE  Subscribing'
BY DEF Subscribing, OnlyMoves

\* A step that ends p's dispatch, or begins one, offers no frame.
LEMMA VisitedKept ==
  ASSUME NEW p \in Proc, OnlyMoves(p), due' = due,
         (Dispatching(p) => subs[Target(p)] \subseteq left[p])',
         \A q \in Proc \ {p} : Dispatching(q) => subs'[Target(q)] = subs[Target(q)],
         NEW d \in Frames \X Chan, Visited(d)'
  PROVE  Visited(d)
<1>1. CASE d \in due'
  BY <1>1 DEF Visited
<1>2. ASSUME NEW q \in Proc, (/\ Dispatching(q) /\ d[1] = Frame(q)
                             /\ d[2] \in subs[Target(q)] \ left[q])'
      PROVE  Visited(d)
  <2>1. q # p
    BY <1>2 DEF Visited
  <2>2. /\ Dispatching(q) /\ Frame(q)' = Frame(q) /\ Target(q)' = Target(q)
        /\ left'[q] = left[q]
    BY <1>2, <2>1, OthersKept DEF OnlyMoves
  <2> QED BY <1>2, <2>1, <2>2 DEF Visited
<1> QED BY <1>1, <1>2 DEF Visited

\* Nothing is missing that was not.
LEMMA MissingKept ==
  ASSUME \A d \in Frames \X Chan : Visited(d)' => Visited(d) /\ home'[d[2]] = home[d[2]],
         \A c \in Chan : seen[c] \subseteq seen'[c], NEW e
  PROVE  Missing(e)' \subseteq Missing(e)
<1> SUFFICES ASSUME NEW d \in Frames \X Chan, d \in Missing(e)'
             PROVE  d \in Missing(e)
  BY DEF Missing, Frames
<1>1. Visited(d)' /\ home'[d[2]] = e /\ d[1] \notin seen'[d[2]] /\ d[2] \in Chan
  BY DEF Missing
<1>2. Visited(d) /\ home[d[2]] = e /\ d[1] \notin seen[d[2]]
  BY <1>1
<1> QED BY <1>2 DEF Missing

\* If nothing new is missing and no counter falls, all that is missing was counted.
LEMMA CountedKept ==
  ASSUME EndTypes, EndTypes', Counted, \A e \in End : dropped'[e] >= dropped[e],
         \A e \in End : Missing(e)' \subseteq Missing(e)
  PROVE  Counted'
<1> SUFFICES ASSUME NEW e \in End
             PROVE  (IsFiniteSet(Missing(e)) /\ Cardinality(Missing(e)) <= dropped[e])'
  BY DEF Counted
<1>1. IsFiniteSet(Missing(e)) /\ Cardinality(Missing(e)) <= dropped[e]
  BY DEF Counted
<1>2. Missing(e)' \in SUBSET Missing(e)
  OBVIOUS
<1>3. IsFiniteSet(Missing(e)') /\ Cardinality(Missing(e)') <= Cardinality(Missing(e))
  BY <1>1, <1>2, FS_Subset
<1>4. Cardinality(Missing(e)) \in Nat /\ Cardinality(Missing(e)') \in Nat
  BY <1>1, <1>3, FS_CardinalityType
<1>5. dropped[e] \in Nat /\ dropped'[e] \in Nat /\ dropped'[e] >= dropped[e]
  BY DEF EndTypes
<1> QED BY <1>1, <1>3, <1>4, <1>5

LEMMA InitIInv == Init => IInv
<1> SUFFICES ASSUME Init PROVE IInv
  OBVIOUS
<1>1. TypeOK
  <2>1. EndTypes
    BY DEF Init, EndTypes
  <2>2. ChanTypes
    BY BoundAssumption DEF Init, ChanTypes
  <2>3. ProcTypes /\ HistTypes
    BY DEF Init, ProcTypes, HistTypes
  <2> QED BY <2>1, <2>2, <2>3 DEF TypeOK
<1>2. NoPanic /\ Locks
  BY DEF Init, NoPanic, Locks, Called, Subscribed, Subscribing, Dispatches, Dispatching
<1>3. Echoes /\ Unused /\ EchoConfirms
  BY DEF Init, Echoes, Unused, EchoConfirms
<1>4. \A e \in End : Missing(e) = {}
  BY DEF Init, Missing, Visited, Dispatching
<1>5. Counted
  <2> SUFFICES ASSUME NEW e \in End
               PROVE  IsFiniteSet(Missing(e)) /\ Cardinality(Missing(e)) <= dropped[e]
    BY DEF Counted
  <2>1. IsFiniteSet(Missing(e)) /\ Cardinality(Missing(e)) = 0
    BY <1>4, FS_EmptySet
  <2>2. dropped[e] = 0
    BY DEF Init
  <2> QED BY <2>1, <2>2
<1> QED BY <1>1, <1>2, <1>3, <1>5 DEF IInv, History

-----------------------------------------------------------------------------
(* One lemma for each action. *)

\* An endpoint opens: no channel and no dispatch is touched.
LEMMA OpenStep ==
  ASSUME IInv, NEW p \in Proc, Open(p)
  PROVE  IInv'
<1> USE DEF endVars, chanVars, procVars, histVars
<1>1. /\ EndTypes /\ ChanTypes /\ ProcTypes /\ HistTypes /\ NoPanic /\ TypeOK
      /\ Called /\ Subscribed /\ Subscribing /\ Dispatches
      /\ Echoes /\ Unused /\ EchoConfirms /\ Counted
  BY DEF IInv, TypeOK, Locks, History
<1>2. OnlyMoves(p)
  BY <1>1 DEF ProcTypes, OnlyMoves, Open, Return
<1>3. EndTypes'
  BY <1>1 DEF EndTypes, Called, Open, Return
<1>4. ChanTypes'
  BY <1>1 DEF ChanTypes, Open, Return
<1>5. ProcTypes'
  BY <1>1 DEF ProcTypes, Open, Return
<1>6. HistTypes'
  BY <1>1 DEF HistTypes, Open, Return
<1>7. NoPanic'
  BY <1>1 DEF NoPanic, Open, Return
<1>8. Called'
  BY <1>1, <1>2, CalledKept DEF ProcTypes, Called, Open, Return
<1>9. Subscribed'
  BY <1>1 DEF Subscribed, Open, Return
<1>10. Subscribing'
  BY <1>1, <1>2, SubscribingKept DEF Subscribing, ProcTypes, Open, Return
<1>11. Dispatches'
  BY <1>1, <1>2, DispatchesKept DEF Dispatches, Dispatching, ProcTypes, Open, Return
<1>12. Echoes'
  BY <1>1, <1>2, EchoesKept DEF ProcTypes, Open, Return
<1>13. Unused'
  BY <1>1 DEF Unused, Open, Return
<1>14. EchoConfirms'
  BY <1>1 DEF EchoConfirms, Open, Return
<1>15. \A d \in Frames \X Chan : Visited(d)' => Visited(d)
  BY <1>1, <1>2, VisitedKept DEF Dispatching, ProcTypes, Open, Return
<1>16. \A e \in End : Missing(e)' \subseteq Missing(e)
  BY <1>15, MissingKept DEF Open, Return
<1>17. Counted'
  BY <1>1, <1>3, <1>16, CountedKept DEF EndTypes, Open, Return
<1> QED
  BY <1>3, <1>4, <1>5, <1>6, <1>7, <1>8, <1>9, <1>10, <1>11, <1>12, <1>13, <1>14, <1>17
  DEF IInv, TypeOK, Locks, History

\* Close waits for dispatches, so it closes only channels nobody sends to.
LEMMA CloseStep ==
  ASSUME IInv, NEW p \in Proc, Close(p)
  PROVE  IInv'
<1> USE DEF endVars, chanVars, procVars, histVars
<1>1. /\ EndTypes /\ ChanTypes /\ ProcTypes /\ HistTypes /\ NoPanic /\ TypeOK
      /\ Called /\ Subscribed /\ Subscribing /\ Dispatches
      /\ Echoes /\ Unused /\ EchoConfirms /\ Counted
  BY DEF IInv, TypeOK, Locks, History
<1>2. OnlyMoves(p)
  BY <1>1 DEF ProcTypes, OnlyMoves, Close, Return, CloseChannels, OpenAfter
<1>3. at[p] \in End
  BY <1>1 DEF Called, Close
<1>4. \A q \in Proc \ {p} : Dispatching(q) => Target(q) # at[p]
  BY <1>1 DEF Dispatches, Lockable, Close
<1>5. EndTypes'
  BY <1>1 DEF EndTypes, Called, Close, Return, CloseChannels, OpenAfter
<1>6. ChanTypes'
  BY <1>1 DEF ChanTypes, Close, Return, CloseChannels, OpenAfter
<1>7. ProcTypes'
  BY <1>1 DEF ProcTypes, Close, Return, CloseChannels, OpenAfter
<1>8. HistTypes'
  BY <1>1 DEF HistTypes, Close, Return, CloseChannels, OpenAfter
<1>9. NoPanic'
  BY <1>1, <1>3 DEF NoPanic, Subscribed, Close, Return, CloseChannels, OpenAfter
<1>10. Called'
  BY <1>1, <1>2, CalledKept DEF ProcTypes, Called, Close, Return, CloseChannels, OpenAfter
<1>11. Subscribed'
  BY <1>1, <1>3 DEF Subscribed, EndTypes, ChanTypes, Close, Return, CloseChannels, OpenAfter
<1>12. Subscribing'
  BY <1>1, <1>2, <1>3, SubscribingKept DEF Subscribing, EndTypes, ChanTypes, ProcTypes, Close,
      Return, CloseChannels, OpenAfter
<1>13. Dispatches'
  BY <1>1, <1>2, <1>4, DispatchesKept DEF Dispatches, Dispatching, EndTypes, ProcTypes, Close,
      Return, CloseChannels, OpenAfter
<1>14. Echoes'
  BY <1>1, <1>2, EchoesKept DEF ProcTypes, Close, Return, CloseChannels, OpenAfter
<1>15. Unused'
  <2>1. \A c \in Chan : chan'[c] = "unused" <=> chan[c] = "unused"
    BY <1>1, <1>3 DEF Subscribed, ChanTypes, EndTypes, ProcTypes, Close, Return, CloseChannels,
        OpenAfter
  <2>2. home' = home /\ seen' = seen /\ due' = due
    BY DEF Close
  <2> QED BY <2>1, <2>2, <1>1 DEF Unused, HistTypes
<1>16. EchoConfirms'
  BY <1>1 DEF EchoConfirms, Close, Return, CloseChannels, OpenAfter
<1>17. \A d \in Frames \X Chan : Visited(d)' => Visited(d)
  BY <1>1, <1>2, <1>4, VisitedKept DEF Dispatching, EndTypes, ProcTypes, Close, Return,
      CloseChannels, OpenAfter
<1>18. \A e \in End : Missing(e)' \subseteq Missing(e)
  BY <1>17, MissingKept DEF Close, Return, CloseChannels, OpenAfter
<1>19. Counted'
  BY <1>1, <1>5, <1>18, CountedKept DEF EndTypes, Close, Return, CloseChannels, OpenAfter
<1> QED
  BY <1>5, <1>6, <1>7, <1>8, <1>9, <1>10, <1>11, <1>12, <1>13, <1>14, <1>15, <1>16, <1>19
  DEF IInv, TypeOK, Locks, History

\* A channel joins the map, or is closed because the endpoint is not open.
LEMMA SubscribeStep ==
  ASSUME IInv, NEW p \in Proc, Subscribe(p)
  PROVE  IInv'
<1> USE DEF endVars, chanVars, procVars, histVars
<1>1. /\ EndTypes /\ ChanTypes /\ ProcTypes /\ HistTypes /\ NoPanic /\ TypeOK
      /\ Called /\ Subscribed /\ Subscribing /\ Dispatches
      /\ Echoes /\ Unused /\ EchoConfirms /\ Counted
  BY DEF IInv, TypeOK, Locks, History
<1>2. OnlyMoves(p)
  BY <1>1 DEF ProcTypes, OnlyMoves, Subscribe, Return, CloseChannels
<1>3. at[p] \in End
  BY <1>1 DEF Called, Subscribe
<1>4. \A q \in Proc \ {p} : Dispatching(q) => Target(q) # at[p]
  BY <1>1 DEF Dispatches, Lockable, Subscribe
<1>5. \A e \in End : subs'[e] = IF e = at[p] /\ at[p] \in opened THEN subs[e] \cup left[p] ELSE subs[e]
  BY <1>1 DEF EndTypes, Subscribe
<1>6. \A q \in Proc \ {p} : Dispatching(q) => subs'[Target(q)] = subs[Target(q)]
  <2> SUFFICES ASSUME NEW q \in Proc \ {p}, Dispatching(q) PROVE subs'[Target(q)] = subs[Target(q)]
    OBVIOUS
  <2>1. Target(q) \in End /\ Target(q) # at[p]
    BY <1>1, <1>4, CallTypes DEF Dispatching
  <2> QED BY <2>1, <1>5
<1>7. EndTypes'
  BY <1>1 DEF EndTypes, ProcTypes, Subscribe, Return, CloseChannels
<1>8. ChanTypes'
  BY <1>1 DEF ChanTypes, Subscribe, Return, CloseChannels
<1>9. ProcTypes'
  BY <1>1 DEF ProcTypes, Subscribe, Return, CloseChannels
<1>10. HistTypes'
  BY <1>1 DEF HistTypes, Subscribe, Return, CloseChannels
<1>11. NoPanic'
  BY <1>1, <1>3 DEF NoPanic, Subscribing, Subscribe, Return, CloseChannels
<1>12. Called'
  BY <1>1, <1>2, CalledKept DEF ProcTypes, Called, Subscribe, Return, CloseChannels
<1>13. Subscribed'
  <2> SUFFICES ASSUME NEW e \in End, NEW c \in subs'[e] PROVE chan'[c] = "open" /\ home'[c] = e
    BY DEF Subscribed
  <2>1. CASE c \in subs[e]
    BY <1>1, <2>1 DEF Subscribed, Subscribing, EndTypes, ChanTypes, Subscribe, CloseChannels
  <2>2. CASE c \notin subs[e]
    <3>1. e = at[p] /\ at[p] \in opened /\ c \in left[p]
      BY <1>5, <2>2
    <3> QED BY <1>1, <3>1 DEF Subscribing, Subscribe
  <2> QED BY <2>1, <2>2
<1>14. Subscribing'
  BY <1>1, <1>2, <1>3, SubscribingKept DEF Subscribing, EndTypes, ChanTypes, ProcTypes,
      Subscribe, Return, CloseChannels
<1>15. Dispatches'
  BY <1>1, <1>2, <1>6, DispatchesKept DEF Dispatches, Dispatching, ProcTypes, Subscribe, Return
<1>16. Echoes'
  BY <1>1, <1>2, EchoesKept DEF ProcTypes, Subscribe, Return, CloseChannels
<1>17. Unused'
  <2>1. \A c \in Chan : chan'[c] = "unused" <=> chan[c] = "unused"
    BY <1>1, <1>3 DEF Subscribing, ChanTypes, EndTypes, ProcTypes, Subscribe, Return,
        CloseChannels
  <2>2. home' = home /\ seen' = seen /\ due' = due
    BY DEF Subscribe
  <2> QED BY <2>1, <2>2, <1>1 DEF Unused, HistTypes
<1>18. EchoConfirms'
  BY <1>1 DEF EchoConfirms, Subscribe, Return, CloseChannels
<1>19. \A d \in Frames \X Chan : Visited(d)' => Visited(d)
  BY <1>1, <1>2, <1>6, VisitedKept DEF Dispatching, ProcTypes, Subscribe, Return
<1>20. \A e \in End : Missing(e)' \subseteq Missing(e)
  BY <1>19, MissingKept DEF Subscribe, Return, CloseChannels
<1>21. Counted'
  BY <1>1, <1>7, <1>20, CountedKept DEF EndTypes, Subscribe, Return, CloseChannels
<1> QED
  BY <1>7, <1>8, <1>9, <1>10, <1>11, <1>12, <1>13, <1>14, <1>15, <1>16, <1>17, <1>18, <1>21
  DEF IInv, TypeOK, Locks, History

\* A release closes its channel only if Close has not.
LEMMA ReleaseStep ==
  ASSUME IInv, NEW p \in Proc, Release(p)
  PROVE  IInv'
<1> USE DEF endVars, chanVars, procVars, histVars
<1>1. /\ EndTypes /\ ChanTypes /\ ProcTypes /\ HistTypes /\ NoPanic /\ TypeOK
      /\ Called /\ Subscribed /\ Subscribing /\ Dispatches
      /\ Echoes /\ Unused /\ EchoConfirms /\ Counted
  BY DEF IInv, TypeOK, Locks, History
<1>2. OnlyMoves(p)
  BY <1>1 DEF ProcTypes, OnlyMoves, Release, Return, CloseChannels, Held
<1>3. at[p] \in End
  BY <1>1 DEF Called, Release
<1>4. \A q \in Proc \ {p} : Dispatching(q) => Target(q) # at[p]
  BY <1>1 DEF Dispatches, Lockable, Release
<1>5. EndTypes'
  BY <1>1 DEF EndTypes, Called, Release, Return, CloseChannels, Held
<1>6. ChanTypes'
  BY <1>1 DEF ChanTypes, Release, Return, CloseChannels, Held
<1>7. ProcTypes'
  BY <1>1 DEF ProcTypes, Release, Return, CloseChannels, Held
<1>8. HistTypes'
  BY <1>1 DEF HistTypes, Release, Return, CloseChannels, Held
<1>9. NoPanic'
  BY <1>1, <1>3 DEF NoPanic, Subscribed, Release, Return, CloseChannels, Held
<1>10. Called'
  BY <1>1, <1>2, CalledKept DEF ProcTypes, Called, Release, Return, CloseChannels, Held
<1>11. Subscribed'
  BY <1>1, <1>3 DEF Subscribed, EndTypes, ChanTypes, Release, Return, CloseChannels, Held
<1>12. Subscribing'
  BY <1>1, <1>2, <1>3, SubscribingKept DEF Subscribing, EndTypes, ChanTypes, ProcTypes,
      Release, Return, CloseChannels, Held
<1>13. Dispatches'
  BY <1>1, <1>2, <1>4, DispatchesKept DEF Dispatches, Dispatching, EndTypes, ProcTypes,
      Release, Return, CloseChannels, Held
<1>14. Echoes'
  BY <1>1, <1>2, EchoesKept DEF ProcTypes, Release, Return, CloseChannels, Held
<1>15. Unused'
  <2>1. \A c \in Chan : chan'[c] = "unused" <=> chan[c] = "unused"
    BY <1>1, <1>3 DEF Subscribed, ChanTypes, EndTypes, ProcTypes, Release, Return,
        CloseChannels, Held
  <2>2. home' = home /\ seen' = seen /\ due' = due
    BY DEF Release
  <2> QED BY <2>1, <2>2, <1>1 DEF Unused, HistTypes
<1>16. EchoConfirms'
  BY <1>1 DEF EchoConfirms, Release, Return, CloseChannels, Held
<1>17. \A d \in Frames \X Chan : Visited(d)' => Visited(d)
  BY <1>1, <1>2, <1>4, VisitedKept DEF Dispatching, EndTypes, ProcTypes, Release, Return,
      CloseChannels, Held
<1>18. \A e \in End : Missing(e)' \subseteq Missing(e)
  BY <1>17, MissingKept DEF Release, Return, CloseChannels, Held
<1>19. Counted'
  BY <1>1, <1>5, <1>18, CountedKept DEF EndTypes, Release, Return, CloseChannels, Held
<1> QED
  BY <1>5, <1>6, <1>7, <1>8, <1>9, <1>10, <1>11, <1>12, <1>13, <1>14, <1>15, <1>16, <1>19
  DEF IInv, TypeOK, Locks, History

\* Send looks at its own endpoint.
LEMMA SendStep ==
  ASSUME IInv, NEW p \in Proc, Send(p)
  PROVE  IInv'
<1> USE DEF endVars, chanVars, procVars, histVars
<1>1. /\ EndTypes /\ ChanTypes /\ ProcTypes /\ HistTypes /\ NoPanic /\ TypeOK
      /\ Called /\ Subscribed /\ Subscribing /\ Dispatches
      /\ Echoes /\ Unused /\ EchoConfirms /\ Counted
  BY DEF IInv, TypeOK, Locks, History
<1>2. OnlyMoves(p)
  BY <1>1 DEF ProcTypes, OnlyMoves, Send, Return, Goto
<1>3. EndTypes'
  BY <1>1 DEF EndTypes, Called, Send, Return, Goto
<1>4. ChanTypes'
  BY <1>1 DEF ChanTypes, Send, Return, Goto
<1>5. ProcTypes'
  BY <1>1 DEF ProcTypes, Send, Return, Goto
<1>6. HistTypes'
  BY <1>1 DEF HistTypes, Send, Return, Goto
<1>7. NoPanic'
  BY <1>1 DEF NoPanic, Send, Return, Goto
<1>8. Called'
  BY <1>1, <1>2, CalledKept DEF ProcTypes, Called, Send, Return, Goto
<1>9. Subscribed'
  BY <1>1 DEF Subscribed, Send, Return, Goto
<1>10. Subscribing'
  BY <1>1, <1>2, SubscribingKept DEF Subscribing, ProcTypes, Send, Return, Goto
<1>11. Dispatches'
  BY <1>1, <1>2, DispatchesKept DEF Dispatches, Dispatching, ProcTypes, Send, Return, Goto
<1>12. Echoes'
  BY <1>1, <1>2, EchoesKept DEF ProcTypes, Send, Return, Goto
<1>13. Unused'
  BY <1>1 DEF Unused, Send, Return, Goto
<1>14. EchoConfirms'
  BY <1>1 DEF EchoConfirms, Send, Return, Goto
<1>15. \A d \in Frames \X Chan : Visited(d)' => Visited(d)
  BY <1>1, <1>2, VisitedKept DEF Dispatching, ProcTypes, Send, Return, Goto
<1>16. \A e \in End : Missing(e)' \subseteq Missing(e)
  BY <1>15, MissingKept DEF Send, Return, Goto
<1>17. Counted'
  BY <1>1, <1>3, <1>16, CountedKept DEF EndTypes, Send, Return, Goto
<1> QED
  BY <1>3, <1>4, <1>5, <1>6, <1>7, <1>8, <1>9, <1>10, <1>11, <1>12, <1>13, <1>14, <1>17
  DEF IInv, TypeOK, Locks, History

\* A dispatch gives up: what it has not visited is no longer its business.
LEMMA AbandonStep ==
  ASSUME IInv, NEW p \in Proc, Abandon(p)
  PROVE  IInv'
<1> USE DEF endVars, chanVars, procVars, histVars
<1>1. /\ EndTypes /\ ChanTypes /\ ProcTypes /\ HistTypes /\ NoPanic /\ TypeOK
      /\ Called /\ Subscribed /\ Subscribing /\ Dispatches
      /\ Echoes /\ Unused /\ EchoConfirms /\ Counted
  BY DEF IInv, TypeOK, Locks, History
<1>2. OnlyMoves(p)
  BY <1>1 DEF ProcTypes, OnlyMoves, Abandon, Unlock, Return
<1>3. EndTypes'
  BY <1>1 DEF EndTypes, Called, Abandon, Unlock, Return
<1>4. ChanTypes'
  BY <1>1 DEF ChanTypes, Abandon, Unlock, Return
<1>5. ProcTypes'
  BY <1>1 DEF ProcTypes, Abandon, Unlock, Return
<1>6. HistTypes'
  BY <1>1 DEF HistTypes, Abandon, Unlock, Return
<1>7. NoPanic'
  BY <1>1 DEF NoPanic, Abandon, Unlock, Return
<1>8. Called'
  BY <1>1, <1>2, CalledKept DEF ProcTypes, Called, Abandon, Unlock, Return
<1>9. Subscribed'
  BY <1>1 DEF Subscribed, Abandon, Unlock, Return
<1>10. Subscribing'
  BY <1>1, <1>2, SubscribingKept DEF Subscribing, ProcTypes, Abandon, Unlock, Return
<1>11. Dispatches'
  BY <1>1, <1>2, DispatchesKept DEF Dispatches, Dispatching, ProcTypes, Abandon, Unlock, Return
<1>12. Echoes'
  BY <1>1, <1>2, EchoesKept DEF ProcTypes, Abandon, Unlock, Return
<1>13. Unused'
  BY <1>1 DEF Unused, Abandon, Unlock, Return
<1>14. EchoConfirms'
  BY <1>1 DEF EchoConfirms, Abandon, Unlock, Return
<1>15. \A d \in Frames \X Chan : Visited(d)' => Visited(d)
  BY <1>1, <1>2, VisitedKept DEF Dispatching, ProcTypes, Abandon, Unlock, Return
<1>16. \A e \in End : Missing(e)' \subseteq Missing(e)
  BY <1>15, MissingKept DEF Abandon, Unlock, Return
<1>17. Counted'
  BY <1>1, <1>3, <1>16, CountedKept DEF EndTypes, Abandon, Unlock, Return
<1> QED
  BY <1>3, <1>4, <1>5, <1>6, <1>7, <1>8, <1>9, <1>10, <1>11, <1>12, <1>13, <1>14, <1>17
  DEF IInv, TypeOK, Locks, History

\* A context ends: nobody moves.
LEMMA CancelStep ==
  ASSUME IInv, NEW p \in Proc, Cancel(p)
  PROVE  IInv'
<1> USE DEF endVars, chanVars, procVars, histVars
<1>1. /\ EndTypes /\ ChanTypes /\ ProcTypes /\ HistTypes /\ NoPanic /\ TypeOK
      /\ Called /\ Subscribed /\ Subscribing /\ Dispatches
      /\ Echoes /\ Unused /\ EchoConfirms /\ Counted
  BY DEF IInv, TypeOK, Locks, History
<1>2. OnlyMoves(p)
  BY <1>1 DEF ProcTypes, OnlyMoves, Cancel
<1>3. EndTypes'
  BY <1>1 DEF EndTypes, Called, Cancel
<1>4. ChanTypes'
  BY <1>1 DEF ChanTypes, Cancel
<1>5. ProcTypes'
  BY <1>1 DEF ProcTypes, Cancel
<1>6. HistTypes'
  BY <1>1 DEF HistTypes, Cancel
<1>7. NoPanic'
  BY <1>1 DEF NoPanic, Cancel
<1>8. Called'
  BY <1>1 DEF Called, Cancel
<1>9. Subscribed'
  BY <1>1 DEF Subscribed, Cancel
<1>10. Subscribing'
  BY <1>1 DEF Subscribing, Cancel
<1>11. Dispatches'
  BY <1>1 DEF Dispatches, Dispatching, Target, Cancel
<1>12. Echoes'
  BY <1>1 DEF Echoes, Frame, Cancel
<1>13. Unused'
  BY <1>1 DEF Unused, Cancel
<1>14. EchoConfirms'
  BY <1>1 DEF EchoConfirms, Cancel
<1>15. \A d \in Frames \X Chan : Visited(d)' => Visited(d)
  BY DEF Visited, Dispatching, Target, Frame, Cancel
<1>16. \A e \in End : Missing(e)' \subseteq Missing(e)
  BY <1>15, MissingKept DEF Cancel
<1>17. Counted'
  BY <1>1, <1>3, <1>16, CountedKept DEF EndTypes, Cancel
<1> QED
  BY <1>3, <1>4, <1>5, <1>6, <1>7, <1>8, <1>9, <1>10, <1>11, <1>12, <1>13, <1>14, <1>17
  DEF IInv, TypeOK, Locks, History

\* A call begins; a channel is made for Subscribe, and belongs to nobody else.
LEMMA CallStep ==
  ASSUME IInv, NEW p \in Proc, Call(p)
  PROVE  IInv'
<1> USE DEF endVars, chanVars, procVars, histVars
<1>1. /\ EndTypes /\ ChanTypes /\ ProcTypes /\ HistTypes /\ NoPanic /\ TypeOK
      /\ Called /\ Subscribed /\ Subscribing /\ Dispatches
      /\ Echoes /\ Unused /\ EchoConfirms /\ Counted
  BY DEF IInv, TypeOK, Locks, History
<1>2. OnlyMoves(p)
  BY <1>1 DEF ProcTypes, OnlyMoves, Call, Begin
<1>3. \/ pc'[p] \in {"open", "close", "send"} /\ left'[p] = {} /\ chan' = chan /\ home' = home
      \/ \E c \in Chan : /\ chan[c] = "unused" /\ pc'[p] = "subscribe" /\ left'[p] = {c}
                         /\ chan' = [chan EXCEPT ![c] = "open"]
                         /\ home' = [home EXCEPT ![c] = at'[p]]
      \/ pc'[p] = "release" /\ chan' = chan /\ home' = home
  <2>1. ASSUME NEW label, NEW e, NEW cs, Begin(p, label, e, cs)
        PROVE  pc'[p] = label /\ at'[p] = e /\ left'[p] = cs
    BY <2>1, <1>1 DEF ProcTypes, Begin
  <2>2. CASE /\ \E op \in {"open", "close", "send"}, e \in End : Begin(p, op, e, {})
             /\ UNCHANGED chanVars
    BY <2>1, <2>2
  <2>3. CASE \E c \in Chan, e \in End :
          /\ chan[c] = "unused" /\ Begin(p, "subscribe", e, {c})
          /\ chan' = [chan EXCEPT ![c] = "open"] /\ home' = [home EXCEPT ![c] = e]
    <3>1. PICK c \in Chan, e \in End :
            /\ chan[c] = "unused" /\ Begin(p, "subscribe", e, {c})
            /\ chan' = [chan EXCEPT ![c] = "open"] /\ home' = [home EXCEPT ![c] = e]
      BY <2>3
    <3>2. pc'[p] = "subscribe" /\ at'[p] = e /\ left'[p] = {c}
      BY <3>1, <2>1
    <3> QED BY <3>1, <3>2
  <2>4. CASE \E c \in Chan \ released : Begin(p, "release", home[c], {c})
                                      /\ UNCHANGED <<chan, home>>
    BY <2>1, <2>4
  <2> QED BY <2>2, <2>3, <2>4 DEF Call
<1>4. subs' = subs /\ readers' = readers /\ seen' = seen /\ due' = due /\ sent' = sent
  BY <1>1 DEF Call, Begin
<1>5. EndTypes'
  BY DEF EndTypes, Call, Begin, IInv, TypeOK
<1>6. ChanTypes'
  BY <1>1 DEF ChanTypes, Call, Begin
<1>7. ProcTypes'
  <2>1. ASSUME NEW label \in {"open", "close", "send", "subscribe", "release"},
               NEW e \in End, NEW cs \in SUBSET Chan, Begin(p, label, e, cs)
        PROVE  ProcTypes'
    BY <2>1, <1>1 DEF ProcTypes, Begin
  <2>2. ASSUME NEW op \in {"open", "close", "send"}, NEW e \in End, Begin(p, op, e, {})
        PROVE  ProcTypes'
    BY <2>1, <2>2
  <2>3. ASSUME NEW c \in Chan, NEW e \in End, Begin(p, "subscribe", e, {c})
        PROVE  ProcTypes'
    BY <2>1, <2>3
  <2>4. ASSUME NEW c \in Chan, chan[c] # "unused", Begin(p, "release", home[c], {c})
        PROVE  ProcTypes'
    <3>1. home[c] \in End
      BY <2>4, <1>1 DEF Unused
    <3> QED BY <2>1, <2>4, <3>1
  <2> QED BY <2>2, <2>3, <2>4 DEF Call
<1>8. HistTypes'
  BY <1>1 DEF HistTypes, Call, Begin
<1>9. NoPanic'
  BY <1>1 DEF NoPanic, Call, Begin
<1>10. Called'
  <2>1. ASSUME NEW label, NEW e \in End, NEW cs, Begin(p, label, e, cs)
        PROVE  at'[p] \in End
    BY <2>1, <1>1 DEF Begin, ProcTypes
  <2>2. at'[p] \in End
    BY <2>1, <1>1 DEF Call, Unused
  <2> QED BY <2>2, <1>1, <1>2, CalledKept
<1>11. Subscribed'
  BY <1>1, <1>3, <1>4 DEF Subscribed, ChanTypes, EndTypes
<1>12. Subscribing'
  <2>1. ASSUME chan' = chan, home' = home, pc'[p] # "subscribe" PROVE Subscribing'
    BY <2>1, <1>1, <1>2, <1>4, SubscribingKept DEF Subscribing
  <2>2. ASSUME NEW c \in Chan, chan[c] = "unused", pc'[p] = "subscribe", left'[p] = {c},
               chan' = [chan EXCEPT ![c] = "open"], home' = [home EXCEPT ![c] = at'[p]]
        PROVE  Subscribing'
    <3>1. \A e \in End : c \notin subs'[e]
      BY <2>2, <1>1, <1>4 DEF Subscribed
    <3>2. \A q \in Proc \ {p} : pc'[q] = "subscribe" =>
            /\ c \notin left'[q]
            /\ \A k \in left'[q] : /\ chan'[k] = "open" /\ home'[k] = at'[q]
                                   /\ \A e \in End : k \notin subs'[e]
      BY <2>2, <1>1, <1>2, <1>4 DEF Subscribing, OnlyMoves, ChanTypes, ProcTypes
    <3>3. \A q, r \in Proc \ {p} : pc'[q] = "subscribe" /\ pc'[r] = "subscribe" /\ q # r
            => left'[q] \cap left'[r] = {}
      BY <1>1, <1>2 DEF Subscribing, OnlyMoves
    <3>4. chan'[c] = "open" /\ home'[c] = at'[p]
      BY <2>2, <1>1 DEF ChanTypes
    <3> QED BY <2>2, <3>1, <3>2, <3>3, <3>4 DEF Subscribing
  <2> QED BY <1>3, <2>1, <2>2
<1>13. Dispatches'
  <2>1. ~Dispatching(p)'
    BY <1>3 DEF Dispatching
  <2> QED BY <2>1, <1>1, <1>2, <1>4, DispatchesKept DEF Dispatches
<1>14. Echoes'
  BY <1>1, <1>2, <1>3, <1>4, EchoesKept
<1>15. Unused'
  <2>1. pc'[p] # "idle" => at'[p] \in End
    BY <1>10 DEF Called
  <2> QED BY <2>1, <1>1, <1>3, <1>4 DEF Unused, ChanTypes, HistTypes
<1>16. EchoConfirms'
  BY <1>1, <1>3, <1>4 DEF EchoConfirms, Unused, ChanTypes
<1>17. \A d \in Frames \X Chan : Visited(d)' => Visited(d)
  <2>1. ~Dispatching(p)'
    BY <1>3 DEF Dispatching
  <2> QED BY <2>1, <1>1, <1>2, <1>4, VisitedKept
<1>18. \A e \in End : Missing(e)' \subseteq Missing(e)
  <2>1. ASSUME NEW d \in Frames \X Chan, Visited(d) PROVE d[2] \in Chan /\ chan[d[2]] # "unused"
    <3>1. CASE d \in due
      BY <3>1, <1>1 DEF Unused
    <3>2. ASSUME NEW q \in Proc, Dispatching(q), d[2] \in subs[Target(q)] PROVE chan[d[2]] = "open"
      <4>1. Target(q) \in End
        BY <3>2, <1>1, CallTypes DEF Dispatching
      <4> QED BY <3>2, <4>1, <1>1 DEF Subscribed
    <3> QED BY <2>1, <3>1, <3>2 DEF Visited
  <2>2. \A d \in Frames \X Chan : Visited(d)' => Visited(d) /\ home'[d[2]] = home[d[2]]
    BY <2>1, <1>17, <1>3, <1>1 DEF ChanTypes
  <2> QED BY <2>2, <1>4, MissingKept
<1>19. Counted'
  BY <1>1, <1>5, <1>18, CountedKept DEF EndTypes, Call, Begin
<1> QED
  BY <1>5, <1>6, <1>7, <1>8, <1>9, <1>10, <1>11, <1>12, <1>13, <1>14, <1>15, <1>16, <1>19
  DEF IInv, TypeOK, Locks, History

\* A dispatch takes the read lock and has all subscribers to visit.
LEMMA DispatchBeginStep ==
  ASSUME IInv, NEW p \in Proc, DispatchBegin(p)
  PROVE  IInv'
<1> USE DEF endVars, chanVars, procVars, histVars
<1>1. /\ EndTypes /\ ChanTypes /\ ProcTypes /\ HistTypes /\ NoPanic /\ TypeOK
      /\ Called /\ Subscribed /\ Subscribing /\ Dispatches
      /\ Echoes /\ Unused /\ EchoConfirms /\ Counted
  BY DEF IInv, TypeOK, Locks, History
<1>2. OnlyMoves(p)
  BY <1>1 DEF ProcTypes, OnlyMoves, DispatchBegin, Refused, Return, Goto
<1>3. at[p] \in End
  BY <1>1 DEF Called, DispatchBegin
<1>4. \/ /\ pc'[p] \in {"delivering", "echoing"} /\ Target(p)' = Target(p)
         /\ (pc'[p] = "echoing" => pc[p] = "echo")
         /\ at'[p] = at[p] /\ Frame(p)' = Frame(p)
         /\ readers' = [readers EXCEPT ![Target(p)] = @ \cup {p}]
         /\ left'[p] = subs[Target(p)]
      \/ /\ pc'[p] = "idle" /\ readers' = readers
  BY <1>1 DEF ProcTypes, Target, Frame, Locked, DispatchBegin, Refused, Return, Goto
<1>5. subs' = subs /\ due' = due /\ sent' = sent
  BY DEF DispatchBegin, Refused, Return, Goto
<1>6. Target(p) \in End
  BY <1>1, CallTypes DEF DispatchBegin
<1>7. EndTypes'
  BY <1>1 DEF EndTypes, Locked, DispatchBegin, Refused, Return, Goto
<1>8. ChanTypes'
  BY <1>1 DEF ChanTypes, DispatchBegin, Refused, Return, Goto
<1>9. ProcTypes'
  <2>1. subs[Target(p)] \subseteq Chan
    BY <1>1, PeerAssumption DEF EndTypes, Target, Called, DispatchBegin
  <2> QED BY <2>1, <1>1 DEF ProcTypes, DispatchBegin, Refused, Return, Goto
<1>10. HistTypes'
  BY <1>1 DEF HistTypes, DispatchBegin, Refused, Return, Goto
<1>11. NoPanic'
  BY <1>1 DEF NoPanic, DispatchBegin, Refused, Return, Goto
<1>12. Called'
  BY <1>1, <1>2, <1>4, <1>3, CalledKept
<1>13. Subscribed'
  BY <1>1 DEF Subscribed, DispatchBegin, Refused, Return, Goto
<1>14. Subscribing'
  <2>1. pc'[p] # "subscribe"
    BY <1>4
  <2> QED BY <2>1, <1>1, <1>2, <1>5, SubscribingKept DEF Subscribing, DispatchBegin
<1>15. Dispatches'
  <2>1. (Dispatching(p) => p \in readers[Target(p)] /\ left[p] \subseteq subs[Target(p)])'
    BY <1>4, <1>5, <1>6, <1>1 DEF Dispatching, EndTypes
  <2>2. \A q \in Proc \ {p} : Dispatching(q) => q \in readers'[Target(q)]
    BY <1>4, <1>6, <1>1, CallTypes DEF Dispatches, Dispatching, EndTypes
  <2> QED BY <2>1, <2>2, <1>1, <1>2, <1>5, DispatchesKept
<1>16. Echoes'
  <2>1. (pc[p] \in {"echo", "echoing"} => Frame(p) \in sent)'
    BY <1>4, <1>5, <1>1 DEF Echoes
  <2> QED BY <2>1, <1>1, <1>2, <1>5, EchoesKept
<1>17. Unused'
  BY <1>1 DEF Unused, DispatchBegin, Refused, Return, Goto
<1>18. EchoConfirms'
  BY <1>1 DEF EchoConfirms, DispatchBegin, Refused, Return, Goto
<1>19. \A d \in Frames \X Chan : Visited(d)' => Visited(d)
  <2>1. (Dispatching(p) => subs[Target(p)] \subseteq left[p])'
    BY <1>4, <1>5 DEF Dispatching
  <2> QED BY <2>1, <1>1, <1>2, <1>5, VisitedKept
<1>20. \A e \in End : Missing(e)' \subseteq Missing(e)
  BY <1>19, MissingKept DEF DispatchBegin, Refused, Return, Goto
<1>21. Counted'
  BY <1>1, <1>7, <1>20, CountedKept DEF EndTypes, DispatchBegin, Refused, Return, Goto
<1> QED
  BY <1>7, <1>8, <1>9, <1>10, <1>11, <1>12, <1>13, <1>14, <1>15, <1>16, <1>17, <1>18, <1>21
  DEF IInv, TypeOK, Locks, History

\* A dispatch ends: the frames it offered are on record, and may be echoed if they went out.
LEMMA DispatchEndStep ==
  ASSUME IInv, NEW p \in Proc, DispatchEnd(p)
  PROVE  IInv'
<1> USE DEF endVars, chanVars, procVars, histVars
<1>1. /\ EndTypes /\ ChanTypes /\ ProcTypes /\ HistTypes /\ NoPanic /\ TypeOK
      /\ Called /\ Subscribed /\ Subscribing /\ Dispatches
      /\ Echoes /\ Unused /\ EchoConfirms /\ Counted
  BY DEF IInv, TypeOK, Locks, History
<1>2. OnlyMoves(p)
  BY <1>1 DEF ProcTypes, OnlyMoves, DispatchEnd, Unlock, Goto, Return
<1>3. at[p] \in End
  BY <1>1 DEF Called, DispatchEnd, Dispatching
<1>4. /\ pc'[p] \in {"echo", "idle"} /\ readers' = [readers EXCEPT ![Target(p)] = @ \ {p}]
      /\ pc'[p] = "echo" => /\ at'[p] = at[p] /\ Frame(p)' = Frame(p)
                            /\ sent' = sent \cup {Frame(p)}
  BY <1>1 DEF ProcTypes, Frame, Dispatching, DispatchEnd, Unlock, Goto, Return
<1>5. /\ Target(p) \in End /\ Frame(p) \in Frames /\ subs' = subs /\ sent \subseteq sent'
      /\ Dispatching(p) /\ left[p] = {}
      /\ due' = due \cup {<<Frame(p), c>> : c \in subs[Target(p)]}
  BY <1>1, CallTypes DEF Dispatching, DispatchEnd
<1>6. EndTypes'
  BY <1>1 DEF EndTypes, DispatchEnd, Unlock, Goto, Return
<1>7. ChanTypes'
  BY <1>1 DEF ChanTypes, DispatchEnd, Unlock, Goto, Return
<1>8. ProcTypes'
  BY <1>1 DEF ProcTypes, DispatchEnd, Unlock, Goto, Return
<1>9. HistTypes'
  BY <1>1, <1>5 DEF HistTypes, EndTypes, DispatchEnd, Unlock, Goto, Return
<1>10. NoPanic'
  BY <1>1 DEF NoPanic, DispatchEnd, Unlock, Goto, Return
<1>11. Called'
  BY <1>1, <1>2, <1>4, <1>3, CalledKept
<1>12. Subscribed'
  BY <1>1 DEF Subscribed, DispatchEnd, Unlock, Goto, Return
<1>13. Subscribing'
  <2>1. pc'[p] # "subscribe"
    BY <1>4
  <2> QED BY <2>1, <1>1, <1>2, <1>5, SubscribingKept DEF Subscribing, DispatchEnd
<1>14. Dispatches'
  <2>1. ~Dispatching(p)'
    BY <1>4 DEF Dispatching
  <2>2. \A q \in Proc \ {p} : Dispatching(q) => q \in readers'[Target(q)]
    BY <1>4, <1>5, <1>1, CallTypes DEF Dispatches, Dispatching, EndTypes
  <2> QED BY <2>1, <2>2, <1>1, <1>2, <1>5, DispatchesKept
<1>15. Echoes'
  BY <1>1, <1>2, <1>4, <1>5, EchoesKept
<1>16. Unused'
  <2>1. \A c \in subs[Target(p)] : chan[c] # "unused"
    BY <1>5, <1>1 DEF Subscribed
  <2> QED BY <2>1, <1>5, <1>1 DEF Unused, DispatchEnd
<1>17. EchoConfirms'
  BY <1>5, <1>1 DEF EchoConfirms, DispatchEnd
<1>18. \A d \in Frames \X Chan : Visited(d)' => Visited(d)
  <2> SUFFICES ASSUME NEW d \in Frames \X Chan, Visited(d)' PROVE Visited(d)
    OBVIOUS
  <2>1. CASE d \in due
    BY <2>1 DEF Visited
  <2>2. ASSUME NEW c \in subs[Target(p)], d = <<Frame(p), c>> PROVE Visited(d)
    BY <2>2, <1>5 DEF Visited
  <2>3. ASSUME NEW q \in Proc, (/\ Dispatching(q) /\ d[1] = Frame(q)
                               /\ d[2] \in subs[Target(q)] \ left[q])'
        PROVE  Visited(d)
    <3>1. q # p
      BY <2>3, <1>4 DEF Dispatching
    <3>2. /\ Dispatching(q) /\ Frame(q)' = Frame(q) /\ Target(q)' = Target(q)
          /\ left'[q] = left[q]
      BY <2>3, <3>1, <1>2, OthersKept DEF OnlyMoves
    <3> QED BY <2>3, <3>2, <1>5 DEF Visited
  <2> QED BY <2>1, <2>2, <2>3, <1>5 DEF Visited
<1>19. \A e \in End : Missing(e)' \subseteq Missing(e)
  BY <1>18, MissingKept DEF DispatchEnd, Unlock, Goto, Return
<1>20. Counted'
  BY <1>1, <1>6, <1>19, CountedKept DEF EndTypes, DispatchEnd, Unlock, Goto, Return
<1> QED
  BY <1>6, <1>7, <1>8, <1>9, <1>10, <1>11, <1>12, <1>13, <1>14, <1>15, <1>16, <1>17, <1>20
  DEF IInv, TypeOK, Locks, History

\* A channel takes the frame, or the frame is dropped and counted.
LEMMA VisitStep ==
  ASSUME IInv, NEW p \in Proc, Visit(p)
  PROVE  IInv'
<1> USE DEF endVars, chanVars, procVars, histVars
<1>1. /\ EndTypes /\ ChanTypes /\ ProcTypes /\ HistTypes /\ NoPanic /\ TypeOK
      /\ Called /\ Subscribed /\ Subscribing /\ Dispatches
      /\ Echoes /\ Unused /\ EchoConfirms /\ Counted
  BY DEF IInv, TypeOK, Locks, History
<1>2. /\ Dispatching(p) /\ OnlyMoves(p)
      /\ pc' = pc /\ at' = at /\ calls' = calls /\ live' = live
      /\ subs' = subs /\ readers' = readers /\ chan' = chan /\ home' = home
      /\ sent' = sent /\ due' = due /\ opened' = opened /\ closed' = closed
      /\ released' = released
  BY <1>1 DEF Visit, OnlyMoves, ProcTypes
<1>3. PICK c \in left[p] :
        /\ left' = [left EXCEPT ![p] = left[p] \ {c}]
        /\ \/ /\ unread[c] < SubCap
              /\ unread' = [unread EXCEPT ![c] = @ + 1]
              /\ seen' = [seen EXCEPT ![c] = @ \cup {Frame(p)}]
              /\ panicked' = (panicked \/ chan[c] = "closed")
              /\ UNCHANGED dropped
           \/ /\ dropped' = [dropped EXCEPT ![Target(p)] = @ + 1]
              /\ UNCHANGED <<unread, seen, panicked>>
  BY DEF Visit, Rest
<1>4. /\ Target(p) \in End /\ Frame(p) \in Frames
      /\ c \in Chan /\ c \in subs[Target(p)] /\ chan[c] = "open" /\ home[c] = Target(p)
  <2>1. Target(p) \in End /\ Frame(p) \in Frames
    BY <1>1, <1>2, CallTypes DEF Dispatching
  <2>2. c \in subs[Target(p)]
    BY <1>1, <1>2, <1>3 DEF Dispatches
  <2> QED BY <2>1, <2>2, <1>1 DEF Subscribed, EndTypes
<1>5. EndTypes'
  <2>1. dropped' \in [End -> Nat]
    BY <1>1, <1>3, <1>4 DEF EndTypes
  <2> QED BY <2>1, <1>1, <1>2 DEF EndTypes
<1>6. ChanTypes'
  <2>1. unread' \in [Chan -> 0..SubCap] /\ seen' \in [Chan -> SUBSET Frames]
    BY <1>1, <1>3, <1>4, BoundAssumption DEF ChanTypes
  <2> QED BY <2>1, <1>1, <1>2 DEF ChanTypes
<1>7. ProcTypes'
  <2>1. left' \in [Proc -> SUBSET Chan]
    BY <1>1, <1>3 DEF ProcTypes
  <2> QED BY <2>1, <1>1, <1>2 DEF ProcTypes
<1>8. HistTypes' /\ NoPanic'
  <2>1. panicked' = FALSE
    BY <1>1, <1>3, <1>4 DEF NoPanic, HistTypes
  <2> QED BY <2>1, <1>1, <1>2 DEF NoPanic, HistTypes
<1>9. Called' /\ Subscribed' /\ Echoes'
  BY <1>1, <1>2 DEF Called, Subscribed, Echoes, Frame
<1>10. Subscribing'
  <2>1. pc'[p] # "subscribe"
    BY <1>2 DEF Dispatching
  <2> QED BY <2>1, <1>1, <1>2, SubscribingKept DEF Subscribing
<1>11. Dispatches'
  <2>1. (Dispatching(p) => p \in readers[Target(p)] /\ left[p] \subseteq subs[Target(p)])'
    BY <1>1, <1>2, <1>3 DEF Dispatches, Dispatching, Target, ProcTypes
  <2> QED BY <2>1, <1>1, <1>2, DispatchesKept DEF Dispatches
<1>12. Unused'
  BY <1>1, <1>2, <1>3, <1>4 DEF Unused, ChanTypes
<1>13. EchoConfirms'
  <2> SUFFICES ASSUME NEW k \in Chan, NEW f \in seen'[k], f.from = home'[k]
               PROVE  f \in sent'
    BY DEF EchoConfirms
  <2>1. CASE f \in seen[k]
    BY <2>1, <1>1, <1>2 DEF EchoConfirms
  <2>2. CASE f \notin seen[k]
    <3>1. k = c /\ f = Frame(p)
      BY <2>2, <1>1, <1>3 DEF ChanTypes
    <3>2. at[p] = Target(p) /\ at[p] \in End
      BY <3>1, <1>1, <1>2, <1>4 DEF Frame, Called, Dispatching
    <3>3. pc[p] = "echoing"
      BY <3>2, <1>2, PeerAssumption DEF Target, Dispatching
    <3> QED BY <3>1, <3>3, <1>1, <1>2 DEF Echoes
  <2> QED BY <2>1, <2>2
\* Only the frame and the channel of this step may be missing anew.
<1>14. \A d \in Frames \X Chan : Visited(d)' => Visited(d) \/ d = <<Frame(p), c>>
  <2> SUFFICES ASSUME NEW d \in Frames \X Chan, Visited(d)', ~Visited(d)
               PROVE  d = <<Frame(p), c>>
    OBVIOUS
  <2>1. PICK q \in Proc : (/\ Dispatching(q) /\ d[1] = Frame(q)
                           /\ d[2] \in subs[Target(q)] \ left[q])'
    BY <1>2 DEF Visited
  <2>2. /\ Dispatching(q) /\ d[1] = Frame(q)
        /\ d[2] \in subs[Target(q)] /\ d[2] \notin left'[q]
    BY <2>1, <1>2 DEF Dispatching, Frame, Target
  <2>3. d[2] \in left[q]
    BY <2>2 DEF Visited
  <2>4. q = p /\ d[2] = c
    BY <2>2, <2>3, <1>1, <1>3 DEF ProcTypes
  <2> QED BY <2>2, <2>4
<1>15. Counted'
  <2>1. CASE /\ seen' = [seen EXCEPT ![c] = @ \cup {Frame(p)}]
             /\ UNCHANGED dropped
    <3>1. ASSUME NEW e \in End, NEW d \in Frames \X Chan, d \in Missing(e)'
          PROVE  d \in Missing(e)
      <4>1. Visited(d)' /\ home[d[2]] = e /\ d[1] \notin seen'[d[2]] /\ d[2] \in Chan
        BY <3>1, <1>2 DEF Missing
      <4>2. d[1] \notin seen[d[2]] /\ d # <<Frame(p), c>>
        BY <4>1, <2>1, <1>1, <1>4 DEF ChanTypes
      <4> QED BY <4>1, <4>2, <1>14 DEF Missing
    <3>2. \A e \in End : Missing(e)' \subseteq Missing(e)
      BY <3>1 DEF Missing, Frames
    <3> QED BY <3>2, <2>1, <1>1, <1>5, CountedKept DEF EndTypes
  <2>2. CASE /\ dropped' = [dropped EXCEPT ![Target(p)] = @ + 1]
             /\ UNCHANGED seen
    <3> DEFINE d0 == <<Frame(p), c>>
    <3>1. ASSUME NEW e \in End PROVE Missing(e)' \subseteq Missing(e) \cup {d0}
      <4> SUFFICES ASSUME NEW d \in Frames \X Chan, d \in Missing(e)', d # d0
                   PROVE  d \in Missing(e)
        BY DEF Missing, Frames
      <4>1. Visited(d)' /\ home[d[2]] = e /\ d[1] \notin seen[d[2]]
        BY <1>2, <2>2 DEF Missing
      <4> QED BY <4>1, <1>14 DEF Missing
    <3>2. ASSUME NEW e \in End, e # Target(p) PROVE Missing(e)' \subseteq Missing(e)
      <4>1. d0 \notin Missing(e)'
        BY <3>2, <1>2, <1>4 DEF Missing
      <4> QED BY <4>1, <3>1
    <3> SUFFICES ASSUME NEW e \in End
                 PROVE  IsFiniteSet(Missing(e)') /\ Cardinality(Missing(e)') <= dropped'[e]
      BY DEF Counted
    <3>3. IsFiniteSet(Missing(e)) /\ Cardinality(Missing(e)) <= dropped[e]
      BY <1>1 DEF Counted
    <3>4. Cardinality(Missing(e)) \in Nat /\ dropped[e] \in Nat
      BY <3>3, <1>1, FS_CardinalityType DEF EndTypes
    <3>5. CASE e # Target(p)
      <4>1. Missing(e)' \in SUBSET Missing(e)
        BY <3>2, <3>5
      <4>2. IsFiniteSet(Missing(e)') /\ Cardinality(Missing(e)') <= Cardinality(Missing(e))
        BY <4>1, <3>3, FS_Subset
      <4>3. Cardinality(Missing(e)') \in Nat
        BY <4>2, FS_CardinalityType
      <4>4. dropped'[e] = dropped[e]
        BY <2>2, <3>5, <1>1 DEF EndTypes
      <4> QED BY <4>2, <4>3, <4>4, <3>3, <3>4
    <3>6. CASE e = Target(p)
      <4> DEFINE M == Missing(e) \cup {d0}
      <4>1. IsFiniteSet(M) /\ Cardinality(M) <= Cardinality(Missing(e)) + 1
        <5>1. /\ IsFiniteSet(M)
              /\ Cardinality(M) = IF d0 \in Missing(e) THEN Cardinality(Missing(e))
                                                       ELSE Cardinality(Missing(e)) + 1
          BY <3>3, FS_AddElement
        <5> QED BY <5>1, <3>4
      <4>2. Missing(e)' \in SUBSET M
        BY <3>1
      <4> HIDE DEF M
      <4>3. IsFiniteSet(Missing(e)') /\ Cardinality(Missing(e)') <= Cardinality(M)
        BY <4>1, <4>2, FS_Subset
      <4>4. Cardinality(Missing(e)') \in Nat /\ Cardinality(M) \in Nat
        BY <4>1, <4>3, FS_CardinalityType
      <4>5. dropped'[e] = dropped[e] + 1
        BY <2>2, <3>6, <1>1, <1>4 DEF EndTypes
      <4> QED BY <4>1, <4>3, <4>4, <4>5, <3>3, <3>4
    <3> QED BY <3>5, <3>6
  <2> QED BY <1>3, <2>1, <2>2
<1> QED
  BY <1>5, <1>6, <1>7, <1>8, <1>9, <1>10, <1>11, <1>12, <1>13, <1>15
  DEF IInv, TypeOK, Locks, History

\* An application reads a channel: nothing else changes.
LEMMA ReceiveStep ==
  ASSUME IInv, NEW c \in Chan, Receive(c)
  PROVE  IInv'
<1> USE DEF endVars, chanVars, procVars, histVars
<1>1. /\ EndTypes /\ ChanTypes /\ ProcTypes /\ HistTypes /\ NoPanic
      /\ Called /\ Subscribed /\ Subscribing /\ Dispatches
      /\ Echoes /\ Unused /\ EchoConfirms /\ Counted
  BY DEF IInv, TypeOK, Locks, History
<1>2. EndTypes' /\ ProcTypes' /\ HistTypes' /\ NoPanic'
  BY <1>1 DEF EndTypes, ProcTypes, HistTypes, NoPanic, Receive
<1>3. ChanTypes'
  <2>1. unread' \in [Chan -> 0..SubCap]
    BY <1>1, BoundAssumption DEF ChanTypes, Receive
  <2> QED BY <2>1, <1>1 DEF ChanTypes, Receive
<1>4. Called' /\ Subscribed' /\ Subscribing'
  BY <1>1 DEF Called, Subscribed, Subscribing, Receive
<1>5. Dispatches' /\ Echoes' /\ Unused' /\ EchoConfirms'
  BY <1>1 DEF Dispatches, Dispatching, Target, Echoes, Frame, Unused, EchoConfirms, Receive
<1>6. \A e \in End : Missing(e)' = Missing(e) /\ dropped'[e] = dropped[e]
  BY DEF Missing, Visited, Dispatching, Target, Frame, Receive
<1>7. Counted'
  BY <1>1, <1>6 DEF Counted
<1> QED
  BY <1>2, <1>3, <1>4, <1>5, <1>7 DEF IInv, TypeOK, Locks, History

-----------------------------------------------------------------------------
\* Every step preserves the invariant.
LEMMA Inductive == IInv /\ [Next]_vars => IInv'
<1> SUFFICES ASSUME IInv, [Next]_vars PROVE IInv'
  OBVIOUS
<1>1. ASSUME NEW p \in Proc, Call(p) \/ Step(p) \/ Cancel(p) PROVE IInv'
  BY <1>1, CallStep, OpenStep, CloseStep, SubscribeStep, ReleaseStep, SendStep,
     DispatchBeginStep, VisitStep, AbandonStep, DispatchEndStep, CancelStep DEF Step
<1>2. ASSUME NEW c \in Chan, Receive(c) PROVE IInv'
  BY <1>2, ReceiveStep
<1>3. CASE UNCHANGED vars
  <2> USE <1>3 DEF vars, endVars, chanVars, procVars, histVars
  <2>1. TypeOK' /\ NoPanic'
    BY DEF IInv, TypeOK, EndTypes, ChanTypes, ProcTypes, HistTypes, NoPanic
  <2>2. Locks'
    BY DEF IInv, Locks, Called, Subscribed, Subscribing, Dispatches, Dispatching, Target
  <2>3. Echoes' /\ Unused' /\ EchoConfirms'
    BY DEF IInv, History, Echoes, Unused, EchoConfirms, Frame
  <2>4. \A e \in End : Missing(e)' = Missing(e) /\ dropped'[e] = dropped[e]
    BY DEF Missing, Visited, Dispatching, Target, Frame
  <2>5. Counted'
    BY <2>4 DEF IInv, History, Counted
  <2> QED BY <2>1, <2>2, <2>3, <2>5 DEF IInv, History
<1> QED BY <1>1, <1>2, <1>3 DEF Next

\* The inductive invariant behind the theorems holds in every reachable state.
THEOREM IInvHolds == Spec => []IInv
BY InitIInv, Inductive, PTL DEF Spec

\* Variables keep their types, no channel holds more than its capacity, and Close is for
\* good: no endpoint is open and closed.
THEOREM TypeCorrect == Spec => []TypeOK
<1>1. IInv => TypeOK
  BY DEF IInv
<1> QED BY <1>1, IInvHolds, PTL

\* Close, releases, refused Subscribes and sends never meet on a closed channel.
THEOREM NeverPanics == Spec => []NoPanic
<1>1. IInv => NoPanic
  BY DEF IInv
<1> QED BY <1>1, IInvHolds, PTL

\* Only frames that were handed to the peer are echoed.
THEOREM EchoesConfirm == Spec => []EchoConfirms
<1>1. IInv => EchoConfirms
  BY DEF IInv, History
<1> QED BY <1>1, IInvHolds, PTL

\* Every frame missing from a channel that was subscribed during its dispatch is in Stats.
THEOREM LossesAreCounted == Spec => []NoSilentLoss
<1>1. ASSUME IInv, NEW e \in End
      PROVE  Cardinality({d \in due : home[d[2]] = e /\ d[1] \notin seen[d[2]]}) <= dropped[e]
  <2> DEFINE S == {d \in due : home[d[2]] = e /\ d[1] \notin seen[d[2]]}
  <2>1. S \in SUBSET Missing(e)
    BY <1>1 DEF IInv, TypeOK, HistTypes, Missing, Visited
  <2>2. IsFiniteSet(Missing(e)) /\ Cardinality(Missing(e)) <= dropped[e] /\ dropped[e] \in Nat
    BY <1>1 DEF IInv, TypeOK, EndTypes, History, Counted
  <2> HIDE DEF S
  <2>3. IsFiniteSet(S) /\ Cardinality(S) <= Cardinality(Missing(e))
    BY <2>1, <2>2, FS_Subset
  <2>4. Cardinality(S) \in Nat /\ Cardinality(Missing(e)) \in Nat
    BY <2>2, <2>3, FS_CardinalityType
  <2>5. Cardinality(S) <= dropped[e]
    BY <2>2, <2>3, <2>4
  <2> QED BY <2>5 DEF S
<1>2. IInv => NoSilentLoss
  BY <1>1 DEF NoSilentLoss
<1> QED BY <1>2, IInvHolds, PTL

=============================================================================

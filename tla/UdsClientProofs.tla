---------------------------- MODULE UdsClientProofs ----------------------------
(***************************************************************************)
(* Proofs about UdsClient, for any number of calls, services, retries and  *)
(* queue sizes, and any behaviour of the ECU.                              *)
(***************************************************************************)
EXTENDS UdsClient, TLAPS

\* Where a call holds reqMu, and where it has the queue to itself.
Holding == {"attempt", "send", "wait", "retry"}
Reading == {"send", "wait"}

CallState == [pc : PCs, attempt : 0..MaxRetries, pending : 0..MaxResponsePending,
              timer : {"off", "running", "fired"}]
Outcome == [kind : Results, answer : Response \cup {NoResponse}, round : Nat]

\* The client: types, reqMu is held by the call that is between Begin and Return,
\* and what is claimed of answers and of the address.
ClientGood ==
  /\ call \in [Req -> CallState]
  /\ outcome \in [Req -> Outcome]
  /\ reqMu \in Req \cup {None}
  /\ funcAddr \in BOOLEAN /\ txAddress \in Addresses
  /\ \A r \in Req : reqMu = r <=> call[r].pc \in Holding
  /\ \A r \in Req : call[r].pc = "retry" => call[r].attempt < MaxRetries
  /\ FreshAnswer
  /\ AddressInForce

\* While a call reads, everything queued arrived in its present attempt.
QueueGood ==
  /\ round \in Nat
  /\ rxDataChan \in Seq(Response) /\ Len(rxDataChan) <= RxDataCap
  /\ \A r \in Req : call[r].pc \in Reading =>
       \A i \in DOMAIN rxDataChan : rxDataChan[i].round = round

\* What one call has sent and retried: every retry is paid for by an answer
\* busyRepeatRequest, and so is the one that such an answer in the queue will cause.
Paid(c, s, b) ==
  /\ s <= c.attempt + (IF c.pc \in {"wait", "retry", "done"} THEN 1 ELSE 0)
  /\ c.attempt <= b
  /\ c.pc = "retry" => c.attempt < b

BusyQueued(sid) ==
  \E i \in DOMAIN rxDataChan : rxDataChan[i].sid = sid /\ rxDataChan[i].kind = "busy"

CountsGood ==
  /\ sends \in [Req -> Nat] /\ busy \in [SID -> Nat]
  /\ \A r \in Req : Paid(call[r], sends[r], busy[Sid[r]])
  /\ \A r \in Req : call[r].pc \in Reading /\ BusyQueued(Sid[r])
                      => call[r].attempt < busy[Sid[r]]

EnvGood ==
  /\ closed \in BOOLEAN
  /\ txDataChan \in Seq(Req) /\ Len(txDataChan) <= TxDataCap
  /\ cancelled \subseteq Req /\ ecu \subseteq Req
  /\ unsolicited \in Nat
  /\ functional \subseteq Req

\* The inductive invariant.
IInv == ClientGood /\ QueueGood /\ CountsGood /\ EnvGood

LEMMA Limits ==
  /\ MaxRetries \in Nat /\ MaxResponsePending \in Nat
  /\ TxDataCap \in Nat /\ RxDataCap \in Nat /\ MaxUnsolicited \in Nat
BY LimitAssumption

LEMMA Implies == IInv => TypeOK /\ FreshAnswer /\ AddressInForce /\ RetriesJustified
<1> SUFFICES ASSUME IInv PROVE TypeOK /\ FreshAnswer /\ AddressInForce /\ RetriesJustified
  OBVIOUS
<1>1. TypeOK /\ FreshAnswer /\ AddressInForce
  BY DEF IInv, ClientGood, QueueGood, CountsGood, EnvGood, TypeOK, CallState, Outcome
<1>2. ASSUME NEW r \in Req PROVE sends[r] <= 1 + busy[Sid[r]]
  <2>1. call[r].attempt \in Nat /\ sends[r] \in Nat /\ busy[Sid[r]] \in Nat
    BY Limits, ReqAssumption DEF IInv, ClientGood, CountsGood, CallState
  <2> QED BY <2>1 DEF IInv, CountsGood, Paid
<1> QED BY <1>1, <1>2 DEF RetriesJustified

LEMMA InitIInv == Init => IInv
<1> SUFFICES ASSUME Init PROVE IInv
  OBVIOUS
<1>1. ClientGood
  <2>1. call \in [Req -> CallState] /\ \A r \in Req : call[r].pc = "new"
    BY Limits DEF Init, CallState, PCs
  <2>2. outcome \in [Req -> Outcome] /\ \A r \in Req : outcome[r].answer = NoResponse
    BY DEF Init, Outcome, Results
  <2>3. \A r \in Req : reqMu = r <=> call[r].pc \in Holding
    BY <2>1, ReqAssumption DEF Init, Holding
  <2>4. FreshAnswer
    BY <2>2 DEF FreshAnswer
  <2>5. AddressInForce
    BY ReqAssumption DEF Init, AddressInForce
  <2> QED BY <2>1, <2>2, <2>3, <2>4, <2>5 DEF Init, ClientGood, Addresses
<1>2. QueueGood
  BY Limits DEF Init, QueueGood
<1>3. CountsGood
  <2>1. ~ \E sid : BusyQueued(sid)
    BY DEF Init, BusyQueued
  <2> QED BY <2>1, ReqAssumption DEF Init, CountsGood, Paid
<1>4. EnvGood
  <2>1. txDataChan = <<>> /\ closed = FALSE /\ cancelled = {} /\ ecu = {}
        /\ unsolicited = 0 /\ functional = {}
    BY DEF Init
  <2>2. txDataChan \in Seq(Req) /\ Len(txDataChan) <= TxDataCap
    BY <2>1, Limits
  <2> QED BY <2>1, <2>2 DEF EnvGood
<1> QED BY <1>1, <1>2, <1>3, <1>4 DEF IInv

-----------------------------------------------------------------------------
\* What one call's steps do to each part.

\* A call moves on without taking or releasing reqMu.
LEMMA Moves ==
  ASSUME ClientGood, NEW r \in Req, NEW c \in CallState,
         c.pc \in Holding <=> call[r].pc \in Holding,
         c.pc = "retry" => c.attempt < MaxRetries,
         call' = [call EXCEPT ![r] = c],
         UNCHANGED <<outcome, reqMu, funcAddr, txAddress>>
  PROVE  ClientGood'
<1>1. call' \in [Req -> CallState]
  BY DEF ClientGood
<1>2. \A q \in Req : reqMu' = q <=> call'[q].pc \in Holding
  BY DEF ClientGood
<1>3. \A q \in Req : call'[q].pc = "retry" => call'[q].attempt < MaxRetries
  BY DEF ClientGood
<1> QED BY <1>1, <1>2, <1>3 DEF ClientGood, FreshAnswer, AddressInForce

\* Counts stay good when one call moves on to a state that is paid for, unless it
\* begins to read what may hold an answer.
LEMMA CountsKept ==
  ASSUME CountsGood, ClientGood, NEW r \in Req, NEW c,
         call' = [call EXCEPT ![r] = c], UNCHANGED busy,
         sends' \in [Req -> Nat], \A q \in Req : q # r => sends'[q] = sends[q],
         Paid(c, sends'[r], busy[Sid[r]]),
         c.pc \in Reading => \/ rxDataChan' = <<>>
                             \/ call[r].pc \in Reading /\ c.attempt = call[r].attempt,
         \A sid \in SID : BusyQueued(sid)' => BusyQueued(sid)
  PROVE  CountsGood'
<1>1. \A q \in Req : Sid[q] \in SID
  BY ReqAssumption
<1>2. ASSUME NEW q \in Req PROVE Paid(call'[q], sends'[q], busy'[Sid[q]])
  <2>1. CASE q = r
    BY <2>1 DEF ClientGood
  <2>2. CASE q # r
    BY <2>2 DEF ClientGood, CountsGood
  <2> QED BY <2>1, <2>2
<1>3. ASSUME NEW q \in Req, call'[q].pc \in Reading, BusyQueued(Sid[q])'
      PROVE call'[q].attempt < busy'[Sid[q]]
  <2>1. rxDataChan' # <<>> /\ BusyQueued(Sid[q])
    BY <1>1, <1>3 DEF BusyQueued
  <2>2. CASE q = r
    BY <2>1, <2>2, <1>3 DEF ClientGood, CountsGood
  <2>3. CASE q # r
    BY <2>1, <2>3, <1>3 DEF ClientGood, CountsGood
  <2> QED BY <2>2, <2>3
<1>4. busy' \in [SID -> Nat]
  BY DEF CountsGood
<1> QED BY <1>2, <1>3, <1>4 DEF CountsGood

\* The queue is left alone, or its first payload is taken.
Shrunk ==
  \/ rxDataChan' = rxDataChan
  \/ rxDataChan # <<>> /\ rxDataChan' = Tail(rxDataChan)

LEMMA ShrunkQueue ==
  ASSUME QueueGood, Shrunk
  PROVE  /\ rxDataChan' \in Seq(Response) /\ Len(rxDataChan') <= RxDataCap
         /\ \A i \in DOMAIN rxDataChan' : \E j \in DOMAIN rxDataChan :
              rxDataChan'[i] = rxDataChan[j]
         /\ \A sid \in SID : BusyQueued(sid)' => BusyQueued(sid)
<1>1. rxDataChan \in Seq(Response) /\ Len(rxDataChan) <= RxDataCap
  BY DEF QueueGood
<1>2. CASE rxDataChan' = rxDataChan
  BY <1>1, <1>2 DEF BusyQueued
<1>3. CASE rxDataChan # <<>> /\ rxDataChan' = Tail(rxDataChan)
  <2>1. rxDataChan' \in Seq(Response) /\ Len(rxDataChan') = Len(rxDataChan) - 1
    BY <1>1, <1>3
  <2>2. \A i \in DOMAIN rxDataChan' : i + 1 \in DOMAIN rxDataChan
                                      /\ rxDataChan'[i] = rxDataChan[i + 1]
    BY <1>1, <1>3
  <2> QED BY <1>1, <2>1, <2>2, Limits DEF BusyQueued
<1> QED BY <1>2, <1>3 DEF Shrunk

\* Reading a payload: it arrived in this attempt, and a busyRepeatRequest pays for
\* one more attempt.
LEMMA Reads ==
  ASSUME IInv, NEW r \in Req, Read(r)
  PROVE  /\ Head(rxDataChan) \in Response /\ Head(rxDataChan).round = round
         /\ Answers(r, Head(rxDataChan)) /\ Head(rxDataChan).kind = "busy"
              => call[r].attempt < busy[Sid[r]]
         /\ Shrunk /\ call[r].pc = "wait" /\ reqMu = r
         /\ UNCHANGED <<ecuVars, histVars, ctxVars, txDataChan, functional>>
<1>1. call[r].pc \in Reading /\ call[r].pc = "wait"
  BY DEF Read, At, Reading
<1>2. rxDataChan \in Seq(Response) /\ rxDataChan # <<>>
  BY DEF IInv, QueueGood, Read
<1>3. Head(rxDataChan) \in Response /\ Head(rxDataChan) = rxDataChan[1] /\ 1 \in DOMAIN rxDataChan
  BY <1>2
<1>4. Head(rxDataChan).round = round
  BY <1>1, <1>3 DEF IInv, QueueGood
<1>5. Answers(r, Head(rxDataChan)) /\ Head(rxDataChan).kind = "busy"
        => call[r].attempt < busy[Sid[r]]
  BY <1>1, <1>3 DEF IInv, CountsGood, BusyQueued, Answers
<1>6. Shrunk
  BY DEF Read, Shrunk
<1>7. reqMu = r
  BY <1>1 DEF IInv, ClientGood, Holding
<1> QED BY <1>1, <1>3, <1>4, <1>5, <1>6, <1>7 DEF Read

\* Return leaves no call holding reqMu, and an answer that is fresh.
LEMMA Returns ==
  ASSUME ClientGood, round \in Nat, NEW r \in Req, reqMu \in {r, None},
         NEW kind \in Results, NEW answer \in Response \cup {NoResponse},
         answer # NoResponse => answer.sid = Sid[r] /\ answer.round = round,
         Return(r, kind, answer)
  PROVE  /\ ClientGood'
         /\ \E c \in CallState : /\ call' = [call EXCEPT ![r] = c]
                                 /\ c.pc = "done" /\ c.attempt = call[r].attempt
         /\ \A q \in Req : call'[q].pc \notin Holding
<1> DEFINE c == [call[r] EXCEPT !.pc = "done", !.timer = "off"]
<1>1. c \in CallState /\ c.pc = "done" /\ c.attempt = call[r].attempt
  BY DEF ClientGood, CallState, PCs
<1>2. call' = [call EXCEPT ![r] = c]
  BY DEF Return
<1> HIDE DEF c
<1>3. call' \in [Req -> CallState]
  BY <1>1, <1>2 DEF ClientGood
<1>4. outcome' \in [Req -> Outcome]
  BY DEF Return, ClientGood, Outcome
<1>5. \A q \in Req : call'[q].pc \notin Holding
  BY <1>1, <1>2, ReqAssumption DEF ClientGood, Holding
<1>6. FreshAnswer'
  <2> SUFFICES ASSUME NEW q \in Req, outcome'[q].answer # NoResponse
               PROVE outcome'[q].answer.sid = Sid[q] /\ outcome'[q].answer.round = outcome'[q].round
    BY DEF FreshAnswer
  <2>1. CASE q = r
    BY <2>1 DEF Return, ClientGood, Outcome
  <2>2. CASE q # r
    BY <2>2 DEF Return, ClientGood, FreshAnswer
  <2> QED BY <2>1, <2>2
<1>7. reqMu' = None /\ UNCHANGED <<funcAddr, txAddress>>
  BY DEF Return
<1>8. AddressInForce'
  BY <1>7, ReqAssumption DEF AddressInForce
<1>9. ClientGood'
  <2>1. \A q \in Req : call'[q].pc # "retry"
    BY <1>5 DEF Holding
  <2> QED BY <1>3, <1>4, <1>5, <1>6, <1>7, <1>8, <2>1, ReqAssumption DEF ClientGood
<1> QED BY <1>1, <1>2, <1>5, <1>9

\* A call that returns leaves the client, the queue and the counts good.
LEMMA Ends ==
  ASSUME IInv, NEW r \in Req, reqMu \in {r, None},
         NEW kind \in Results, NEW answer \in Response \cup {NoResponse},
         answer # NoResponse => answer.sid = Sid[r] /\ answer.round = round,
         Return(r, kind, answer),
         UNCHANGED <<sends, busy>>, round' \in Nat,
         rxDataChan' \in Seq(Response), Len(rxDataChan') <= RxDataCap,
         \A sid \in SID : BusyQueued(sid)' => BusyQueued(sid)
  PROVE  ClientGood' /\ QueueGood' /\ CountsGood'
<1>1. ClientGood /\ CountsGood /\ round \in Nat
  BY DEF IInv, QueueGood
<1>2. /\ ClientGood'
      /\ \E c \in CallState : /\ call' = [call EXCEPT ![r] = c]
                              /\ c.pc = "done" /\ c.attempt = call[r].attempt
      /\ \A q \in Req : call'[q].pc \notin Holding
  BY <1>1, Returns
<1>3. QueueGood'
  BY <1>2 DEF QueueGood, Reading, Holding
<1>4. CountsGood'
  <2>1. PICK c \in CallState : /\ call' = [call EXCEPT ![r] = c]
                               /\ c.pc = "done" /\ c.attempt = call[r].attempt
    BY <1>2
  <2>2. sends[r] \in Nat /\ call[r].attempt \in Nat
    BY <1>1, Limits DEF CountsGood, ClientGood, CallState
  <2>3. Paid(c, sends'[r], busy[Sid[r]])
    BY <1>1, <2>1, <2>2 DEF CountsGood, Paid
  <2>4. sends' \in [Req -> Nat] /\ \A q \in Req : q # r => sends'[q] = sends[q]
    BY <1>1 DEF CountsGood
  <2> QED BY <1>1, <2>1, <2>3, <2>4, CountsKept DEF Reading
<1> QED BY <1>2, <1>3, <1>4

\* A call that moves on without reqMu changing hands leaves them good, if it pays for
\* its new state and does not begin to read.
LEMMA Advances ==
  ASSUME IInv, NEW r \in Req, NEW c \in CallState,
         call' = [call EXCEPT ![r] = c],
         UNCHANGED <<outcome, reqMu, funcAddr, txAddress, busy, round>>,
         sends' \in [Req -> Nat], \A q \in Req : q # r => sends'[q] = sends[q],
         Paid(c, sends'[r], busy[Sid[r]]),
         c.pc \in Holding <=> call[r].pc \in Holding,
         c.pc = "retry" => c.attempt < MaxRetries,
         c.pc \in Reading => call[r].pc \in Reading /\ c.attempt = call[r].attempt,
         Shrunk
  PROVE  ClientGood' /\ QueueGood' /\ CountsGood'
<1>1. ClientGood /\ CountsGood /\ QueueGood
  BY DEF IInv
<1>2. ClientGood'
  BY <1>1, Moves
<1>3. /\ rxDataChan' \in Seq(Response) /\ Len(rxDataChan') <= RxDataCap
      /\ \A i \in DOMAIN rxDataChan' : \E j \in DOMAIN rxDataChan :
           rxDataChan'[i] = rxDataChan[j]
      /\ \A sid \in SID : BusyQueued(sid)' => BusyQueued(sid)
  BY <1>1, ShrunkQueue
<1>4. \A q \in Req : call'[q].pc \in Reading => call[q].pc \in Reading
  BY <1>1 DEF ClientGood
<1>5. QueueGood'
  BY <1>1, <1>3, <1>4 DEF QueueGood
<1>6. CountsGood'
  BY <1>1, <1>3, CountsKept
<1> QED BY <1>2, <1>5, <1>6

-----------------------------------------------------------------------------
\* One lemma per action of a call.

LEMMA EnvKept ==
  ASSUME EnvGood, UNCHANGED <<ctxVars, txDataChan, ecu, unsolicited, functional>>
  PROVE  EnvGood'
BY DEF EnvGood, ctxVars

\* What IInv says of one call.
LEMMA Facts ==
  ASSUME IInv, NEW r \in Req
  PROVE  /\ call[r] \in CallState /\ sends \in [Req -> Nat]
         /\ Paid(call[r], sends[r], busy[Sid[r]])
         /\ call[r].attempt \in Nat /\ sends[r] \in Nat /\ busy[Sid[r]] \in Nat
         /\ round \in Nat
         /\ call[r].pc \in Holding => reqMu = r
         /\ call[r].pc = "retry" => call[r].attempt < MaxRetries
BY Limits, ReqAssumption DEF IInv, ClientGood, QueueGood, CountsGood, CallState

LEMMA CallStep == ASSUME IInv, NEW r \in Req, Call(r) PROVE IInv'
<1> DEFINE c == [call[r] EXCEPT !.pc = "lock"]
<1>1. c \in CallState /\ c.pc = "lock" /\ c.attempt = call[r].attempt /\ call[r].pc = "new"
      /\ call' = [call EXCEPT ![r] = c]
  BY DEF IInv, ClientGood, CallState, PCs, Call, At, Goto
<1> HIDE DEF c
<1>2. UNCHANGED <<outcome, reqMu, funcAddr, txAddress, ecuVars, histVars, ctxVars,
                  txDataChan, rxDataChan, functional>>
  BY DEF Call
<1>3. Paid(c, sends'[r], busy[Sid[r]])
  BY <1>1, <1>2, Facts DEF Paid, histVars
<1>4. ClientGood' /\ QueueGood' /\ CountsGood'
  BY <1>1, <1>2, <1>3, Facts, Advances DEF Reading, Holding, Shrunk, histVars, ecuVars
<1>5. EnvGood'
  BY <1>2, EnvKept DEF IInv, ecuVars
<1> QED BY <1>4, <1>5 DEF IInv

LEMMA ExpireStep == ASSUME IInv, NEW r \in Req, Expire(r) PROVE IInv'
<1> DEFINE c == [call[r] EXCEPT !.timer = "fired"]
<1>1. c \in CallState /\ c.pc = call[r].pc /\ c.attempt = call[r].attempt
      /\ call' = [call EXCEPT ![r] = c]
  BY DEF IInv, ClientGood, CallState, Expire
<1> HIDE DEF c
<1>2. UNCHANGED <<outcome, reqMu, funcAddr, txAddress, ecuVars, histVars, ctxVars,
                  txDataChan, rxDataChan, functional>>
  BY DEF Expire
<1>3. Paid(c, sends'[r], busy[Sid[r]])
  BY <1>1, <1>2, Facts DEF Paid, histVars
<1>4. ClientGood' /\ QueueGood' /\ CountsGood'
  BY <1>1, <1>2, <1>3, Facts, Advances DEF Shrunk, histVars, ecuVars
<1>5. EnvGood'
  BY <1>2, EnvKept DEF IInv, ecuVars
<1> QED BY <1>4, <1>5 DEF IInv

LEMMA BeginStep == ASSUME IInv, NEW r \in Req, Begin(r) PROVE IInv'
<1>1. /\ call[r].pc = "lock" /\ reqMu = None
      /\ UNCHANGED <<ecuVars, histVars, ctxVars, txDataChan, rxDataChan, functional>>
  BY DEF Begin, At
<1>2. EnvGood'
  BY <1>1, EnvKept DEF IInv, ecuVars
<1>3. CASE Return(r, "noAddress", NoResponse)
  <2>1. /\ rxDataChan' \in Seq(Response) /\ Len(rxDataChan') <= RxDataCap
        /\ \A sid \in SID : BusyQueued(sid)' => BusyQueued(sid)
    BY <1>1, ShrunkQueue DEF IInv, Shrunk
  <2>2. ClientGood' /\ QueueGood' /\ CountsGood'
    BY <1>1, <1>3, <2>1, Facts, Ends DEF Results, histVars, ecuVars
  <2> QED BY <1>2, <2>2 DEF IInv
<1>4. CASE /\ reqMu' = r /\ txAddress' = AddressOf(r) /\ Goto(r, "attempt")
           /\ UNCHANGED <<outcome, funcAddr>>
  <2> DEFINE c == [call[r] EXCEPT !.pc = "attempt"]
  <2>1. c \in CallState /\ c.pc = "attempt" /\ c.attempt = call[r].attempt
        /\ call' = [call EXCEPT ![r] = c]
    BY <1>4 DEF IInv, ClientGood, CallState, PCs, Goto
  <2> HIDE DEF c
  <2>2. \A q \in Req : call[q].pc \notin Holding
    BY <1>1, ReqAssumption DEF IInv, ClientGood
  <2>3. call' \in [Req -> CallState]
    BY <2>1 DEF IInv, ClientGood
  <2>4. \A q \in Req : reqMu' = q <=> call'[q].pc \in Holding
    BY <1>4, <2>1, <2>2 DEF IInv, ClientGood, Holding
  <2>5. AddressInForce' /\ txAddress' \in Addresses
    BY <1>4 DEF AddressInForce, AddressOf, Addresses
  <2>6. FreshAnswer'
    BY <1>4 DEF IInv, ClientGood, FreshAnswer
  <2>7. ClientGood'
    <3>1. \A q \in Req : call'[q].pc # "retry"
      BY <2>1, <2>2 DEF IInv, ClientGood, Holding
    <3> QED BY <1>4, <2>3, <2>4, <2>5, <2>6, <3>1 DEF IInv, ClientGood
  <2>8. \A q \in Req : call'[q].pc \notin Reading
    BY <2>1, <2>2 DEF IInv, ClientGood, Reading, Holding
  <2>9. QueueGood'
    BY <1>1, <2>8 DEF IInv, QueueGood, histVars
  <2>10. Paid(c, sends'[r], busy[Sid[r]])
    BY <1>1, <2>1, Facts DEF Paid, histVars
  <2>11. CountsGood'
    BY <1>1, <2>1, <2>10, Facts, CountsKept DEF IInv, Reading, histVars, ecuVars, BusyQueued
  <2> QED BY <1>2, <2>7, <2>9, <2>11 DEF IInv
<1> QED BY <1>3, <1>4 DEF Begin

LEMMA DrainStackRecvStep == ASSUME IInv, NEW r \in Req, DrainStackRecv(r) PROVE IInv'
<1>1. /\ call[r].pc = "attempt" /\ rxDataChan' = <<>> /\ round' = round + 1
      /\ UNCHANGED <<ecuVars, sends, ctxVars, txDataChan, functional>>
  BY DEF DrainStackRecv, At, Drained
<1>2. EnvGood'
  BY <1>1, EnvKept DEF IInv, ecuVars
<1>3. /\ rxDataChan' \in Seq(Response) /\ Len(rxDataChan') <= RxDataCap
      /\ ~ \E sid \in SID : BusyQueued(sid)'
  BY <1>1, Limits DEF BusyQueued
<1>4. round' \in Nat /\ reqMu = r
  BY <1>1, Facts DEF Holding
<1>5. CASE Return(r, "closed", NoResponse)
  <2>1. ClientGood' /\ QueueGood' /\ CountsGood'
    BY <1>1, <1>3, <1>4, <1>5, Ends DEF Results, ecuVars
  <2> QED BY <1>2, <2>1 DEF IInv
<1>6. CASE Goto(r, "send") /\ UNCHANGED <<outcome, reqMu, funcAddr, txAddress>>
  <2> DEFINE c == [call[r] EXCEPT !.pc = "send"]
  <2>1. c \in CallState /\ c.pc = "send" /\ c.attempt = call[r].attempt
        /\ call' = [call EXCEPT ![r] = c]
    BY <1>6 DEF IInv, ClientGood, CallState, PCs, Goto
  <2> HIDE DEF c
  <2>2. ClientGood'
    BY <1>1, <1>6, <2>1, Moves DEF IInv, Holding
  <2>3. QueueGood'
    BY <1>1, <1>3, <1>4 DEF QueueGood
  <2>4. Paid(c, sends'[r], busy[Sid[r]])
    BY <1>1, <2>1, Facts DEF Paid
  <2>5. CountsGood'
    BY <1>1, <1>3, <2>1, <2>4, Facts, CountsKept DEF IInv, ecuVars
  <2> QED BY <1>2, <2>2, <2>3, <2>5 DEF IInv
<1> QED BY <1>5, <1>6 DEF DrainStackRecv

LEMMA SendPayloadStep == ASSUME IInv, NEW r \in Req, SendPayload(r) PROVE IInv'
<1> DEFINE c == [call[r] EXCEPT !.pc = "wait", !.pending = 0, !.timer = "running"]
<1>1. c \in CallState /\ c.pc = "wait" /\ c.attempt = call[r].attempt /\ call[r].pc = "send"
      /\ call' = [call EXCEPT ![r] = c]
  <2>1. call[r] \in CallState /\ 0 \in 0..MaxResponsePending
    BY Limits, Facts
  <2>2. c \in CallState /\ c.pc = "wait" /\ c.attempt = call[r].attempt
    BY <2>1 DEF CallState, PCs
  <2> QED BY <2>2 DEF SendPayload, At
<1> HIDE DEF c
<1>2. UNCHANGED <<outcome, reqMu, funcAddr, txAddress, ecuVars, round, ctxVars, rxDataChan,
                  functional>>
  BY DEF SendPayload
<1>3. /\ sends' \in [Req -> Nat] /\ sends'[r] = sends[r] + 1
      /\ \A q \in Req : q # r => sends'[q] = sends[q]
  BY Facts DEF SendPayload
<1>4. Paid(c, sends'[r], busy[Sid[r]])
  BY <1>1, <1>3, Facts DEF Paid
<1>5. ClientGood' /\ QueueGood' /\ CountsGood'
  BY <1>1, <1>2, <1>3, <1>4, Advances DEF Shrunk, ecuVars, Reading, Holding
<1>6. txDataChan' \in Seq(Req) /\ Len(txDataChan') <= TxDataCap
  BY Limits DEF SendPayload, IInv, EnvGood
<1>7. EnvGood'
  BY <1>2, <1>6 DEF IInv, EnvGood, ecuVars, ctxVars
<1> QED BY <1>5, <1>7 DEF IInv

\* A call that holds reqMu and returns without touching the queue.
LEMMA EndsHere ==
  ASSUME IInv, NEW r \in Req, call[r].pc \in Holding, NEW kind \in Results,
         Return(r, kind, NoResponse),
         UNCHANGED <<ecuVars, histVars, ctxVars, txDataChan, rxDataChan, functional>>
  PROVE  IInv'
<1>1. /\ rxDataChan' \in Seq(Response) /\ Len(rxDataChan') <= RxDataCap
      /\ \A sid \in SID : BusyQueued(sid)' => BusyQueued(sid)
  BY ShrunkQueue DEF IInv, Shrunk
<1>2. reqMu = r /\ round' \in Nat /\ UNCHANGED <<sends, busy>>
  BY Facts DEF histVars, ecuVars
<1>3. ClientGood' /\ QueueGood' /\ CountsGood'
  BY <1>1, <1>2, Ends
<1>4. EnvGood'
  BY EnvKept DEF IInv, ecuVars
<1> QED BY <1>3, <1>4 DEF IInv

LEMMA DeadlineStep == ASSUME IInv, NEW r \in Req, Deadline(r) PROVE IInv'
<1> DEFINE kind == IF Suppress[r] THEN "suppressed" ELSE "timeout"
<1>1. kind \in Results /\ call[r].pc \in Holding
  BY DEF Results, Deadline, At, Holding
<1>2. /\ Return(r, kind, NoResponse)
      /\ UNCHANGED <<ecuVars, histVars, ctxVars, txDataChan, rxDataChan, functional>>
  BY DEF Deadline
<1> HIDE DEF kind
<1> QED BY <1>1, <1>2, EndsHere

LEMMA AbortStep ==
  ASSUME IInv, NEW r \in Req, AbortCancelled(r) \/ AbortClosed(r) PROVE IInv'
<1>1. PICK kind \in {"cancelled", "closed"} :
        /\ Return(r, kind, NoResponse)
        /\ UNCHANGED <<ecuVars, histVars, ctxVars, txDataChan, rxDataChan, functional>>
  BY DEF AbortCancelled, AbortClosed
<1>2. call[r].pc \in Holding
  BY DEF AbortCancelled, AbortClosed, Interruptible, Holding
<1> QED BY <1>1, <1>2, EndsHere DEF Results

LEMMA RetryStep == ASSUME IInv, NEW r \in Req, Retry(r) PROVE IInv'
<1> DEFINE c == [call[r] EXCEPT !.pc = "attempt", !.attempt = @ + 1]
<1>1. call[r].pc = "retry" /\ call[r].attempt < busy[Sid[r]]
  BY Facts DEF Retry, At, Paid
<1>2. call[r].attempt < MaxRetries
  BY <1>1 DEF IInv, ClientGood
<1>3. c \in CallState /\ c.pc = "attempt" /\ c.attempt = call[r].attempt + 1
  <2>1. call[r].attempt + 1 \in 0..MaxRetries
    BY <1>2, Limits, Facts
  <2> QED BY <2>1, Facts DEF CallState, PCs
<1>4. call' = [call EXCEPT ![r] = c]
  BY DEF Retry
<1> HIDE DEF c
<1>5. UNCHANGED <<outcome, reqMu, funcAddr, txAddress, ecuVars, histVars, ctxVars,
                  txDataChan, rxDataChan, functional>>
  BY DEF Retry
<1>6. Paid(c, sends'[r], busy[Sid[r]])
  BY <1>1, <1>3, <1>5, Facts DEF Paid, histVars
<1>7. ClientGood' /\ QueueGood' /\ CountsGood'
  BY <1>1, <1>3, <1>4, <1>5, <1>6, Facts, Advances
     DEF Shrunk, histVars, ecuVars, Reading, Holding
<1>8. EnvGood'
  BY <1>5, EnvKept DEF IInv, ecuVars
<1> QED BY <1>7, <1>8 DEF IInv

LEMMA SkipResponseStep == ASSUME IInv, NEW r \in Req, SkipResponse(r) PROVE IInv'
<1>1. Shrunk /\ UNCHANGED <<clientVars, ecuVars, histVars, ctxVars, txDataChan, functional>>
  BY Reads DEF SkipResponse
<1>2. call' = [call EXCEPT ![r] = call[r]]
  BY <1>1 DEF IInv, ClientGood, clientVars
<1>3. ClientGood' /\ QueueGood' /\ CountsGood'
  BY <1>1, <1>2, Facts, Advances DEF clientVars, histVars, ecuVars
<1>4. EnvGood'
  BY <1>1, EnvKept DEF IInv, ecuVars
<1> QED BY <1>3, <1>4 DEF IInv

\* A payload is read that ends the call.
LEMMA EndsReading ==
  ASSUME IInv, NEW r \in Req, Read(r), Answers(r, Head(rxDataChan)),
         NEW kind \in Results, Return(r, kind, Head(rxDataChan))
  PROVE  IInv'
<1>1. /\ Head(rxDataChan) \in Response /\ Head(rxDataChan).round = round
      /\ Shrunk /\ reqMu = r
      /\ UNCHANGED <<ecuVars, histVars, ctxVars, txDataChan, functional>>
  BY Reads
<1>2. /\ rxDataChan' \in Seq(Response) /\ Len(rxDataChan') <= RxDataCap
      /\ \A sid \in SID : BusyQueued(sid)' => BusyQueued(sid)
  BY <1>1, ShrunkQueue DEF IInv
<1>3. Head(rxDataChan).sid = Sid[r] /\ round' \in Nat /\ UNCHANGED <<sends, busy>>
  BY <1>1, Facts DEF Answers, histVars, ecuVars
<1>4. ClientGood' /\ QueueGood' /\ CountsGood'
  BY <1>1, <1>2, <1>3, Ends
<1>5. EnvGood'
  BY <1>1, EnvKept DEF IInv, ecuVars
<1> QED BY <1>4, <1>5 DEF IInv

LEMMA FinalResponseStep == ASSUME IInv, NEW r \in Req, FinalResponse(r) PROVE IInv'
<1>1. Head(rxDataChan).kind \in Results
  BY DEF FinalResponse, Results
<1> QED BY <1>1, EndsReading DEF FinalResponse

LEMMA ResponsePendingStep == ASSUME IInv, NEW r \in Req, ResponsePending(r) PROVE IInv'
<1> DEFINE n == call[r].pending + 1
           c == [call[r] EXCEPT !.pending = n, !.timer = "running"]
<1>1. Read(r) /\ Answers(r, Head(rxDataChan))
  BY DEF ResponsePending
<1>2. CASE Return(r, "tooManyPending", Head(rxDataChan))
  BY <1>1, <1>2, EndsReading DEF Results
<1>3. CASE PendingAllowed(n) /\ call' = [call EXCEPT ![r].pending = n, ![r].timer = "running"]
           /\ UNCHANGED <<outcome, reqMu, funcAddr, txAddress>>
  <2>1. n \in 0..MaxResponsePending
    BY <1>3, Limits, Facts DEF PendingAllowed, CallState
  <2>2. c \in CallState /\ c.pc = call[r].pc /\ c.attempt = call[r].attempt
    BY <2>1, Facts DEF CallState
  <2>3. call' = [call EXCEPT ![r] = c]
    BY <1>3 DEF IInv, ClientGood
  <2> HIDE DEF c
  <2>4. Shrunk /\ UNCHANGED <<ecuVars, histVars, ctxVars, txDataChan, functional>>
    BY <1>1, Reads
  <2>5. Paid(c, sends'[r], busy[Sid[r]])
    BY <2>2, <2>4, Facts DEF Paid, histVars
  <2>6. ClientGood' /\ QueueGood' /\ CountsGood'
    BY <1>3, <2>2, <2>3, <2>4, <2>5, Facts, Advances DEF histVars, ecuVars
  <2>7. EnvGood'
    BY <2>4, EnvKept DEF IInv, ecuVars
  <2> QED BY <2>6, <2>7 DEF IInv
<1> QED BY <1>2, <1>3 DEF ResponsePending

LEMMA BusyRepeatRequestStep ==
  ASSUME IInv, NEW r \in Req, BusyRepeatRequest(r) PROVE IInv'
<1> DEFINE c == [call[r] EXCEPT !.pc = "retry", !.timer = "off"]
<1>1. Read(r) /\ Answers(r, Head(rxDataChan)) /\ Head(rxDataChan).kind = "busy"
  BY DEF BusyRepeatRequest
<1>2. CASE Return(r, "negative", Head(rxDataChan))
  BY <1>1, <1>2, EndsReading DEF Results
<1>3. CASE /\ call[r].attempt < MaxRetries
           /\ call' = [call EXCEPT ![r] = [@ EXCEPT !.pc = "retry", !.timer = "off"]]
           /\ UNCHANGED <<outcome, reqMu, funcAddr, txAddress>>
  <2>1. c \in CallState /\ c.pc = "retry" /\ c.attempt = call[r].attempt
    BY Facts DEF CallState, PCs
  <2>2. call' = [call EXCEPT ![r] = c]
    BY <1>3
  <2> HIDE DEF c
  <2>3. /\ Shrunk /\ call[r].pc = "wait" /\ call[r].attempt < busy[Sid[r]]
        /\ UNCHANGED <<ecuVars, histVars, ctxVars, txDataChan, functional>>
    BY <1>1, Reads
  <2>4. Paid(c, sends'[r], busy[Sid[r]])
    BY <2>1, <2>3, Facts DEF Paid, histVars
  <2>5. ClientGood' /\ QueueGood' /\ CountsGood'
    BY <1>3, <2>1, <2>2, <2>3, <2>4, Facts, Advances
       DEF histVars, ecuVars, Reading, Holding
  <2>6. EnvGood'
    BY <2>3, EnvKept DEF IInv, ecuVars
  <2> QED BY <2>5, <2>6 DEF IInv
<1> QED BY <1>2, <1>3 DEF BusyRepeatRequest

-----------------------------------------------------------------------------
\* The callers, the session and the ECU.

\* Who leaves the client alone disturbs nothing that is claimed of it.
LEMMA ClientKept == ASSUME ClientGood, UNCHANGED clientVars PROVE ClientGood'
BY DEF ClientGood, clientVars, FreshAnswer, AddressInForce

LEMMA QueueKept ==
  ASSUME QueueGood, CountsGood, UNCHANGED <<call, rxDataChan, busy, histVars>>
  PROVE  QueueGood' /\ CountsGood'
BY DEF QueueGood, CountsGood, BusyQueued, histVars

LEMMA SetFunctionalAddressStep == ASSUME IInv, SetFunctionalAddress PROVE IInv'
<1>1. ClientGood'
  BY DEF IInv, SetFunctionalAddress, ClientGood, FreshAnswer, AddressInForce
<1> QED BY <1>1, QueueKept, EnvKept DEF IInv, SetFunctionalAddress, ecuVars

LEMMA ContextStep ==
  ASSUME IInv, Close \/ \E r \in Req : CancelContext(r) PROVE IInv'
<1>1. UNCHANGED <<clientVars, ecuVars, histVars, txDataChan, rxDataChan, functional>>
      /\ closed' \in BOOLEAN /\ cancelled' \subseteq Req
  BY DEF Close, CancelContext, IInv, EnvGood
<1>2. ClientGood' /\ QueueGood' /\ CountsGood'
  BY <1>1, ClientKept, QueueKept DEF IInv, clientVars, ecuVars
<1>3. EnvGood'
  BY <1>1 DEF IInv, EnvGood, ecuVars
<1> QED BY <1>2, <1>3 DEF IInv

LEMMA SessionStep == ASSUME IInv, Session PROVE IInv'
<1>1. /\ UNCHANGED <<clientVars, busy, unsolicited, histVars, ctxVars, rxDataChan>>
      /\ txDataChan # <<>>
      /\ txDataChan' \in {txDataChan, Tail(txDataChan)}
      /\ ecu' \in {ecu, ecu \cup {Head(txDataChan)}}
      /\ functional' \in {functional, functional \cup {Head(txDataChan)}}
  BY DEF Session, TransmitFrame, TransmitLast, TransferFails, FrameLeaves, ecuVars
<1>2. /\ Head(txDataChan) \in Req
      /\ Tail(txDataChan) \in Seq(Req) /\ Len(Tail(txDataChan)) <= TxDataCap
  BY <1>1, Limits DEF IInv, EnvGood
<1>3. ClientGood' /\ QueueGood' /\ CountsGood'
  BY <1>1, ClientKept, QueueKept DEF IInv, clientVars
<1>4. EnvGood'
  BY <1>1, <1>2 DEF IInv, EnvGood, ctxVars
<1> QED BY <1>3, <1>4 DEF IInv

\* What is received arrives in the present attempt; a busyRepeatRequest in it has
\* been counted.
LEMMA ReceivedGood ==
  ASSUME IInv, NEW sid \in SID, NEW kind \in Kinds, Received(sid, kind),
         UNCHANGED <<call, histVars>>, busy' \in [SID -> Nat],
         \A s \in SID : busy'[s] >= busy[s],
         kind = "busy" => busy'[sid] > busy[sid]
  PROVE  QueueGood' /\ CountsGood'
<1> DEFINE d == [sid |-> sid, kind |-> kind, round |-> round]
<1>1. d \in Response /\ rxDataChan \in Seq(Response) /\ Len(rxDataChan) <= RxDataCap
  BY DEF IInv, QueueGood, Response
<1>2. /\ rxDataChan' \in Seq(Response) /\ Len(rxDataChan') <= RxDataCap
      /\ \A i \in DOMAIN rxDataChan' :
           \/ rxDataChan'[i] = d
           \/ \E j \in DOMAIN rxDataChan : rxDataChan'[i] = rxDataChan[j]
  <2>1. CASE rxDataChan' = rxDataChan
    BY <1>1, <2>1
  <2>2. CASE Len(rxDataChan) < RxDataCap /\ rxDataChan' = Append(rxDataChan, d)
    <3> HIDE DEF d
    <3>1. rxDataChan' \in Seq(Response) /\ Len(rxDataChan') = Len(rxDataChan) + 1
      BY <1>1, <2>2
    <3>2. \A i \in DOMAIN rxDataChan' : i = Len(rxDataChan) + 1 \/ i \in DOMAIN rxDataChan
      BY <1>1, <3>1
    <3>3. rxDataChan'[Len(rxDataChan) + 1] = d
          /\ \A i \in DOMAIN rxDataChan : rxDataChan'[i] = rxDataChan[i]
      BY <1>1, <2>2
    <3>4. \A i \in DOMAIN rxDataChan' :
            \/ rxDataChan'[i] = d
            \/ \E j \in DOMAIN rxDataChan : rxDataChan'[i] = rxDataChan[j]
      BY <3>2, <3>3
    <3> QED BY <1>1, <2>2, <3>1, <3>4, Limits
  <2> QED BY <2>1, <2>2 DEF Received
<1>3. d.round = round /\ d.sid = sid /\ d.kind = kind
  OBVIOUS
<1> HIDE DEF d
<1>4. QueueGood'
  BY <1>2, <1>3 DEF IInv, QueueGood, histVars
<1>5. \A s \in SID : BusyQueued(s)' => BusyQueued(s) \/ (s = sid /\ kind = "busy")
  BY <1>2, <1>3 DEF BusyQueued
<1>6. ASSUME NEW q \in Req
      PROVE /\ Paid(call'[q], sends'[q], busy'[Sid[q]])
            /\ call'[q].pc \in Reading /\ BusyQueued(Sid[q])'
                 => call'[q].attempt < busy'[Sid[q]]
  <2>1. Sid[q] \in SID /\ busy'[Sid[q]] \in Nat /\ busy'[Sid[q]] >= busy[Sid[q]]
    BY ReqAssumption
  <2>2. Paid(call'[q], sends'[q], busy'[Sid[q]])
    BY <2>1, Facts DEF Paid, histVars
  <2>3. ASSUME call'[q].pc \in Reading, BusyQueued(Sid[q])'
        PROVE  call'[q].attempt < busy'[Sid[q]]
    <3>1. CASE BusyQueued(Sid[q])
      BY <2>1, <2>3, <3>1, Facts DEF IInv, CountsGood
    <3>2. CASE Sid[q] = sid /\ kind = "busy"
      BY <2>1, <3>2, Facts DEF Paid
    <3> QED BY <1>5, <2>1, <2>3, <3>1, <3>2
  <2> QED BY <2>2, <2>3
<1>7. CountsGood'
  BY <1>6 DEF IInv, CountsGood, histVars
<1> QED BY <1>4, <1>7

LEMMA EcuStep == ASSUME IInv, Ecu PROVE IInv'
<1>1. ASSUME NEW r \in Req, NEW kind \in Kinds, EcuResponds(r, kind) PROVE IInv'
  <2>1. /\ Received(Sid[r], kind)
        /\ UNCHANGED <<clientVars, unsolicited, histVars, ctxVars, txDataChan, functional>>
        /\ ecu' \subseteq ecu
    BY <1>1 DEF EcuResponds
  <2>2. Sid[r] \in SID /\ busy \in [SID -> Nat]
    BY ReqAssumption DEF IInv, CountsGood
  <2>3. /\ busy' \in [SID -> Nat] /\ \A s \in SID : busy'[s] >= busy[s]
        /\ kind = "busy" => busy'[Sid[r]] > busy[Sid[r]]
    <3>1. CASE kind = "busy" /\ busy' = [busy EXCEPT ![Sid[r]] = @ + 1]
      BY <2>2, <3>1
    <3>2. CASE kind # "busy" /\ busy' = busy
      BY <2>2, <3>2
    <3> QED BY <1>1, <3>1, <3>2 DEF EcuResponds
  <2>4. QueueGood' /\ CountsGood'
    BY <2>1, <2>2, <2>3, ReceivedGood DEF clientVars
  <2>5. ClientGood' /\ EnvGood'
    BY <2>1, ClientKept DEF IInv, EnvGood, ctxVars
  <2> QED BY <2>4, <2>5 DEF IInv
<1>2. ASSUME NEW sid \in SID, Unsolicited(sid) PROVE IInv'
  <2>1. /\ Received(sid, "positive") /\ unsolicited' \in Nat
        /\ UNCHANGED <<clientVars, ecu, busy, histVars, ctxVars, txDataChan, functional>>
    BY <1>2 DEF Unsolicited, IInv, EnvGood
  <2>2. busy \in [SID -> Nat]
    BY DEF IInv, CountsGood
  <2>3. QueueGood' /\ CountsGood'
    BY <2>1, <2>2, ReceivedGood DEF clientVars, Kinds
  <2>4. ClientGood' /\ EnvGood'
    BY <2>1, ClientKept DEF IInv, EnvGood, ctxVars
  <2> QED BY <2>3, <2>4 DEF IInv
<1> QED BY <1>1, <1>2 DEF Ecu

-----------------------------------------------------------------------------
LEMMA Inductive == IInv /\ [Next]_vars => IInv'
<1> SUFFICES ASSUME IInv, [Next]_vars PROVE IInv'
  OBVIOUS
<1>1. ASSUME NEW r \in Req, Caller(r) PROVE IInv'
  BY <1>1, CallStep, ContextStep DEF Caller
<1>2. ASSUME NEW r \in Req, Request(r) PROVE IInv'
  BY <1>2, BeginStep, DrainStackRecvStep, SendPayloadStep, DeadlineStep, SkipResponseStep,
     ResponsePendingStep, BusyRepeatRequestStep, FinalResponseStep, RetryStep, AbortStep
     DEF Request
<1>3. ASSUME UNCHANGED vars PROVE IInv'
  <2>1. /\ UNCHANGED <<clientVars, ecuVars, histVars, ctxVars>>
        /\ UNCHANGED <<txDataChan, rxDataChan, functional>>
    BY <1>3 DEF vars
  <2> QED BY <2>1, ClientKept, QueueKept, EnvKept DEF IInv, clientVars, ecuVars
<1> QED BY <1>1, <1>2, <1>3, ExpireStep, SetFunctionalAddressStep, ContextStep,
           SessionStep, EcuStep DEF Next

LEMMA IInvHolds == Spec => []IInv
BY InitIInv, Inductive, PTL DEF Spec

\* The variables keep their types, attempts and response-pending replies stay within
\* their limits, and neither queue of the session outgrows its capacity.
THEOREM TypeCorrect == Spec => []TypeOK
BY IInvHolds, Implies, PTL

\* No call returns an answer that was left over from an earlier request or an
\* earlier attempt, or that names another service.
THEOREM AnswersAreFresh == Spec => []FreshAnswer
BY IInvHolds, Implies, PTL

\* A request goes out again only when the ECU answered busyRepeatRequest once more
\* for its service: drainStackRecv and the SID check suffice for that, whatever the ECU
\* sends late or unasked.
THEOREM RetriesAreJustified == Spec => []RetriesJustified
BY IInvHolds, Implies, PTL

\* Calls of different modes never see each other's address while they hold reqMu.
THEOREM AddressOfTheCall == Spec => []AddressInForce
BY IInvHolds, Implies, PTL
=============================================================================

------------------------------- MODULE UdsClient -------------------------------
(***************************************************************************)
(* uds.Client: diagnostic requests of several goroutines over one ISO-TP   *)
(* session.  reqMu lets one call at a time choose the transmit address,    *)
(* drain the receive queue, queue its payload and wait for the answer,     *)
(* through response-pending replies and retries.                           *)
(*                                                                         *)
(* The session below is what the client sees of it: a queue of accepted    *)
(* payloads, whose frames leave later with the address chosen then, and a  *)
(* queue of received payloads.  The ECU answers a request it received      *)
(* whenever and however it likes, late and repeatedly included.            *)
(***************************************************************************)
EXTENDS Integers, Sequences

CONSTANTS
  Req, Sid, Mode, Suppress, \* the calls: service, addressing, suppress-positive bit
  SID,                      \* service identifiers
  None,                     \* no call
  MaxRetries, MaxResponsePending,
  TxDataCap, RxDataCap,     \* capacity of the session's two queues
  MaxUnsolicited            \* bound on payloads nobody asked for

Modes == {"regular", "physical", "functional"}  \* regular: no mode argument
Addresses == {"physical", "functional"}

ASSUME ReqAssumption == /\ None \notin Req
                        /\ Sid \in [Req -> SID] /\ Mode \in [Req -> Modes]
                        /\ Suppress \in [Req -> BOOLEAN]
ASSUME LimitAssumption == {MaxRetries, MaxResponsePending, TxDataCap, RxDataCap,
                           MaxUnsolicited} \subseteq Nat

\* Responses: positive, and negative with busyRepeatRequest, responsePending or
\* another code; round is the number of attempts begun when it arrived.
Kinds == {"positive", "busy", "pending", "negative"}
Response == [sid : SID, kind : Kinds, round : Nat]
NoResponse == [sid |-> None, kind |-> "none", round |-> 0]

VARIABLES
  call,       \* each call: program counter, attempt, pendingCount, deadline timer
  outcome,    \* what each call returned
  reqMu,      \* the call holding reqMu
  funcAddr,   \* SetFunctionalAddress was called
  txAddress,  \* address the session's data frames carry
  txDataChan, \* calls whose payload the session accepted
  rxDataChan, \* payloads received and not read
  closed,     \* the client's context is cancelled, the session closing
  cancelled,  \* calls whose own context is cancelled
  ecu,        \* calls whose request the ECU is working on
  round,      \* history: attempts begun
  sends,      \* history: how often each call's payload was accepted
  busy,       \* history: how often each service was answered busyRepeatRequest
  functional, \* history: calls a frame of which left with the functional address
  unsolicited \* how much of MaxUnsolicited is used

clientVars == <<call, outcome, reqMu, funcAddr, txAddress>>
ecuVars    == <<ecu, busy, unsolicited>>
histVars   == <<round, sends>>
ctxVars    == <<closed, cancelled>>
vars == <<clientVars, ecuVars, histVars, ctxVars, txDataChan, rxDataChan, functional>>

Init ==
  /\ call = [r \in Req |-> [pc |-> "new", attempt |-> 0, pending |-> 0, timer |-> "off"]]
  /\ outcome = [r \in Req |-> [kind |-> "none", answer |-> NoResponse, round |-> 0]]
  /\ reqMu = None
  /\ funcAddr = FALSE
  /\ txAddress = "physical"
  /\ txDataChan = <<>> /\ rxDataChan = <<>>
  /\ closed = FALSE /\ cancelled = {}
  /\ ecu = {}
  /\ round = 0
  /\ sends = [r \in Req |-> 0]
  /\ busy = [s \in SID |-> 0]
  /\ functional = {}
  /\ unsolicited = 0

At(r, pc) == call[r].pc = pc

Goto(r, pc) == call' = [call EXCEPT ![r].pc = pc]

\* The call returns, and reqMu is released.
Return(r, kind, answer) ==
  /\ outcome' = [outcome EXCEPT ![r] = [kind |-> kind, answer |-> answer, round |-> round]]
  /\ call' = [call EXCEPT ![r] = [@ EXCEPT !.pc = "done", !.timer = "off"]]
  /\ reqMu' = None
  /\ UNCHANGED <<funcAddr, txAddress>>

-----------------------------------------------------------------------------
\* The callers.

SetFunctionalAddress ==
  /\ reqMu = None
  /\ funcAddr' = TRUE
  /\ UNCHANGED <<call, outcome, reqMu, txAddress, ecuVars, histVars, ctxVars, txDataChan,
                 rxDataChan, functional>>

\* A goroutine calls Request...: it is waiting for reqMu from now on.
Call(r) ==
  /\ At(r, "new")
  /\ Goto(r, "lock")
  /\ UNCHANGED <<outcome, reqMu, funcAddr, txAddress, ecuVars, histVars, ctxVars,
                 txDataChan, rxDataChan, functional>>

CancelContext(r) ==
  /\ call[r].pc \notin {"new", "done"}  \* elsewhere nobody looks at it
  /\ r \notin cancelled
  /\ cancelled' = cancelled \cup {r}
  /\ UNCHANGED <<clientVars, ecuVars, histVars, closed, txDataChan, rxDataChan, functional>>

Close ==
  /\ ~closed
  /\ closed' = TRUE
  /\ UNCHANGED <<clientVars, ecuVars, histVars, cancelled, txDataChan, rxDataChan, functional>>

-----------------------------------------------------------------------------
\* requestWithContext and singleRequest.

\* Mutant: a call without a mode leaves the address of the previous one in force.
AddressOfKept(r) == IF Mode[r] = "regular" THEN txAddress ELSE Mode[r]

AddressOf(r) == IF Mode[r] = "functional" THEN "functional" ELSE "physical"

\* reqMu is taken and the address selected, which fails while no functional
\* address is set.
Begin(r) ==
  /\ At(r, "lock") /\ reqMu = None
  /\ IF Mode[r] = "functional" /\ ~funcAddr
     THEN Return(r, "noAddress", NoResponse)
     ELSE /\ reqMu' = r
          /\ txAddress' = AddressOf(r)
          /\ Goto(r, "attempt")
          /\ UNCHANGED <<outcome, funcAddr>>
  /\ UNCHANGED <<ecuVars, histVars, ctxVars, txDataChan, rxDataChan, functional>>

\* Mutant: drainStackRecv forgotten.
DrainedNot(queue) == queue

\* drainStackRecv leaves nothing behind.
Drained(queue) == <<>>

\* An attempt begins: whatever was received so far is thrown away.
DrainStackRecv(r) ==
  /\ At(r, "attempt")
  /\ rxDataChan' = Drained(rxDataChan)
  /\ round' = round + 1
  /\ IF closed THEN Return(r, "closed", NoResponse)
     ELSE Goto(r, "send") /\ UNCHANGED <<outcome, reqMu, funcAddr, txAddress>>
  /\ UNCHANGED <<ecuVars, sends, ctxVars, txDataChan, functional>>

\* sendPayload: the session accepts the payload; the deadline starts.
SendPayload(r) ==
  /\ At(r, "send") /\ Len(txDataChan) < TxDataCap
  /\ txDataChan' = Append(txDataChan, r)
  /\ sends' = [sends EXCEPT ![r] = @ + 1]
  /\ call' = [call EXCEPT ![r] = [@ EXCEPT !.pc = "wait", !.pending = 0, !.timer = "running"]]
  /\ UNCHANGED <<outcome, reqMu, funcAddr, txAddress, ecuVars, round, ctxVars, rxDataChan, functional>>

Expire(r) ==
  /\ call[r].timer = "running"
  /\ call' = [call EXCEPT ![r].timer = "fired"]
  /\ UNCHANGED <<outcome, reqMu, funcAddr, txAddress, ecuVars, histVars, ctxVars,
                 txDataChan, rxDataChan, functional>>

\* Mutant: a request that timed out is sent again.
DeadlineRetried(r) ==
  /\ At(r, "wait") /\ call[r].timer = "fired"
  /\ IF call[r].attempt < MaxRetries
     THEN Goto(r, "retry") /\ UNCHANGED <<outcome, reqMu, funcAddr, txAddress>>
     ELSE Return(r, IF Suppress[r] THEN "suppressed" ELSE "timeout", NoResponse)
  /\ UNCHANGED <<ecuVars, histVars, ctxVars, txDataChan, rxDataChan, functional>>

\* The deadline passes; for a suppressed positive response that is success.
Deadline(r) ==
  /\ At(r, "wait") /\ call[r].timer = "fired"
  /\ Return(r, IF Suppress[r] THEN "suppressed" ELSE "timeout", NoResponse)
  /\ UNCHANGED <<ecuVars, histVars, ctxVars, txDataChan, rxDataChan, functional>>

\* Mutant: every answer is taken for the answer to this call.
AnswersAny(r, d) == TRUE

Answers(r, d) == d.sid = Sid[r]

\* A payload is read from the session while r waits.
Read(r) ==
  /\ At(r, "wait") /\ rxDataChan # <<>>
  /\ rxDataChan' = Tail(rxDataChan)
  /\ UNCHANGED <<ecuVars, histVars, ctxVars, txDataChan, functional>>

SkipResponse(r) ==
  /\ Read(r)
  /\ ~Answers(r, Head(rxDataChan))
  /\ UNCHANGED clientVars

\* Mutant: any number of response-pending replies is put up with.
PendingAllowedAlways(n) == TRUE

PendingAllowed(n) == n <= MaxResponsePending

\* 0x78: the deadline starts again, until the ECU has asked for that too often.
ResponsePending(r) ==
  LET d == Head(rxDataChan)
      n == call[r].pending + 1
  IN /\ Read(r)
     /\ Answers(r, d) /\ d.kind = "pending"
     /\ IF PendingAllowed(n)
        THEN /\ call' = [call EXCEPT ![r].pending = n, ![r].timer = "running"]
             /\ UNCHANGED <<outcome, reqMu, funcAddr, txAddress>>
        ELSE Return(r, "tooManyPending", d)

\* busyRepeatRequest: retried while retries are left.
BusyRepeatRequest(r) ==
  LET d == Head(rxDataChan) IN
  /\ Read(r)
  /\ Answers(r, d) /\ d.kind = "busy"
  /\ IF call[r].attempt < MaxRetries
     THEN /\ call' = [call EXCEPT ![r] = [@ EXCEPT !.pc = "retry", !.timer = "off"]]
          /\ UNCHANGED <<outcome, reqMu, funcAddr, txAddress>>
     ELSE Return(r, "negative", d)

FinalResponse(r) ==
  LET d == Head(rxDataChan) IN
  /\ Read(r)
  /\ Answers(r, d) /\ d.kind \in {"positive", "negative"}
  /\ Return(r, d.kind, d)

\* waitForRetry has waited.
Retry(r) ==
  /\ At(r, "retry")
  /\ call' = [call EXCEPT ![r].pc = "attempt", ![r].attempt = @ + 1]
  /\ UNCHANGED <<outcome, reqMu, funcAddr, txAddress, ecuVars, histVars, ctxVars,
                 txDataChan, rxDataChan, functional>>

\* Mutant: SendContext does not watch the client's context.
InterruptibleNotSending(r) == call[r].pc \in {"wait", "retry"}

\* Where a cancelled context or Close is noticed.
Interruptible(r) == call[r].pc \in {"send", "wait", "retry"}

AbortCancelled(r) ==
  /\ Interruptible(r) /\ r \in cancelled
  /\ Return(r, "cancelled", NoResponse)
  /\ UNCHANGED <<ecuVars, histVars, ctxVars, txDataChan, rxDataChan, functional>>

AbortClosed(r) ==
  /\ Interruptible(r) /\ closed
  /\ Return(r, "closed", NoResponse)
  /\ UNCHANGED <<ecuVars, histVars, ctxVars, txDataChan, rxDataChan, functional>>

-----------------------------------------------------------------------------
\* The session and the ECU.

\* A frame of the oldest accepted payload leaves with the address now in force.
FrameLeaves ==
  /\ ~closed /\ txDataChan # <<>>
  /\ functional' = functional \cup
                     (IF txAddress = "functional" THEN {Head(txDataChan)} ELSE {})

TransmitFrame ==
  /\ FrameLeaves
  /\ UNCHANGED <<clientVars, ecuVars, histVars, ctxVars, txDataChan, rxDataChan>>

\* Its last frame leaves and the ECU has the request ...
TransmitLast ==
  /\ FrameLeaves
  /\ txDataChan' = Tail(txDataChan)
  /\ ecu' = ecu \cup {Head(txDataChan)}
  /\ UNCHANGED <<clientVars, busy, unsolicited, histVars, ctxVars, rxDataChan>>

\* ... or the session gives the transfer up.
TransferFails ==
  /\ ~closed /\ txDataChan # <<>>
  /\ txDataChan' = Tail(txDataChan)
  /\ UNCHANGED <<clientVars, ecuVars, histVars, ctxVars, rxDataChan, functional>>

\* A received payload is queued, or dropped when the queue is full.
Received(sid, kind) ==
  rxDataChan' = IF Len(rxDataChan) < RxDataCap
                THEN Append(rxDataChan, [sid |-> sid, kind |-> kind, round |-> round])
                ELSE rxDataChan

EcuResponds(r, kind) ==
  /\ ~closed /\ r \in ecu
  /\ Received(Sid[r], kind)
  /\ ecu' = IF kind = "pending" THEN ecu ELSE ecu \ {r}
  /\ busy' = IF kind = "busy" THEN [busy EXCEPT ![Sid[r]] = @ + 1] ELSE busy
  /\ UNCHANGED <<clientVars, unsolicited, histVars, ctxVars, txDataChan, functional>>

\* A payload nobody asked for, such as a periodic or event response.
Unsolicited(sid) ==
  /\ ~closed /\ unsolicited < MaxUnsolicited
  /\ unsolicited' = unsolicited + 1
  /\ Received(sid, "positive")
  /\ UNCHANGED <<clientVars, ecu, busy, histVars, ctxVars, txDataChan, functional>>

-----------------------------------------------------------------------------
Caller(r) == Call(r) \/ CancelContext(r)

\* Everything the goroutine of r does by itself.
Request(r) ==
  \/ Begin(r) \/ DrainStackRecv(r) \/ SendPayload(r)
  \/ Deadline(r)
  \/ SkipResponse(r) \/ ResponsePending(r) \/ BusyRepeatRequest(r) \/ FinalResponse(r)
  \/ Retry(r) \/ AbortCancelled(r) \/ AbortClosed(r)

Session == TransmitFrame \/ TransmitLast \/ TransferFails

Ecu ==
  \/ \E r \in Req, kind \in Kinds : EcuResponds(r, kind)
  \/ \E sid \in SID : Unsolicited(sid)

Next ==
  \/ \E r \in Req : Caller(r) \/ Request(r) \/ Expire(r)
  \/ SetFunctionalAddress \/ Close
  \/ Session \/ Ecu

Spec == Init /\ [][Next]_vars

\* Fairness: goroutines run, select picks a deadline that stays expired, timers
\* expire, the session gets rid of what it accepted.  The ECU promises nothing.
Fairness ==
  /\ \A r \in Req : WF_vars(Request(r)) /\ WF_vars(Deadline(r)) /\ WF_vars(Expire(r))
  /\ WF_vars(TransmitLast \/ TransferFails)

FairSpec == Spec /\ Fairness

-----------------------------------------------------------------------------
PCs == {"new", "lock", "attempt", "send", "wait", "retry", "done"}
Results == {"none", "positive", "negative", "tooManyPending", "timeout", "suppressed",
            "cancelled", "closed", "noAddress"}

\* Types of the variables, with the bounds on attempts, pending replies and queues.
TypeOK ==
  /\ call \in [Req -> [pc : PCs, attempt : 0..MaxRetries, pending : 0..MaxResponsePending,
                       timer : {"off", "running", "fired"}]]
  /\ outcome \in [Req -> [kind : Results, answer : Response \cup {NoResponse}, round : Nat]]
  /\ reqMu \in Req \cup {None}
  /\ funcAddr \in BOOLEAN /\ closed \in BOOLEAN
  /\ txAddress \in Addresses
  /\ txDataChan \in Seq(Req) /\ Len(txDataChan) <= TxDataCap
  /\ rxDataChan \in Seq(Response) /\ Len(rxDataChan) <= RxDataCap
  /\ cancelled \subseteq Req /\ ecu \subseteq Req
  /\ round \in Nat /\ unsolicited \in Nat
  /\ sends \in [Req -> Nat] /\ busy \in [SID -> Nat]
  /\ functional \subseteq Req

\* An answer a call returns names the call's service and arrived after the last
\* attempt began: what was left over in the queue from an earlier request, or from
\* an attempt the ECU was too busy for, is never taken for the answer.
FreshAnswer == \A r \in Req :
  outcome[r].answer # NoResponse =>
    outcome[r].answer.sid = Sid[r] /\ outcome[r].answer.round = outcome[r].round

\* A request is sent again only because the ECU said it was busy: never after a
\* timeout, a response-pending reply or any other negative response, so that the
\* ECU does not carry out twice what it was asked once.
RetriesJustified == \A r \in Req : sends[r] <= 1 + busy[Sid[r]]

\* While a call holds reqMu the session uses the address of that call's mode,
\* whatever calls came before: a call without a mode uses the physical one.
AddressInForce == \A r \in Req :
  reqMu = r =>
    txAddress = IF Mode[r] = "functional" THEN "functional" ELSE "physical"

\* Every call returns, even if the ECU answers response-pending for ever, the
\* session's queue is full when Close comes, or another service's answers keep coming.
CallsReturn == \A r \in Req : At(r, "lock") ~> At(r, "done")

\* "Regular requests always use physical addressing" (uds_client.go): no frame of a
\* call without a mode leaves with the functional address.
RegularRequestsPhysical == \A r \in functional : Mode[r] # "regular"
=============================================================================

---------------------------- MODULE PayloadChannel ----------------------------
(***************************************************************************)
(* What a pair of ISO-TP sessions promises its applications, without       *)
(* frames, flow control or timers: payloads handed over at one end come    *)
(* out at the other in the order they were handed over, each at most once, *)
(* and a payload has one outcome.  It is delivered, or an error is raised  *)
(* about it and it is never delivered.  Two kinds of payload may be        *)
(* overtaken without an error: those in Silent, which nothing              *)
(* acknowledges, and those on their way to an end being closed.            *)
(***************************************************************************)
EXTENDS Naturals, Sequences

CONSTANTS
  Node, Peer,   \* the two ends, and each one's counterpart
  Msg, Source,  \* payloads, and the end that sends each
  Silent        \* payloads whose loss raises no error

VARIABLES
  accepted,     \* payloads accepted from each end, in order
  received,     \* payloads each end has been given
  reported,     \* payloads some error was raised about
  closing       \* ends that are closed or being closed

vars == <<accepted, received, reported, closing>>

Init ==
  /\ accepted = [n \in Node |-> <<>>]
  /\ received = [n \in Node |-> <<>>]
  /\ reported = {}
  /\ closing = {}

Accepted(n, m) == \E i \in DOMAIN accepted[n] : accepted[n][i] = m
Received(n, m) == \E i \in DOMAIN received[n] : received[n][i] = m

\* Positions of n's payloads still to be delivered or reported: neither they nor any
\* after them have arrived.
Pending(n) == {i \in DOMAIN accepted[n] :
  /\ accepted[n][i] \notin reported
  /\ \A j \in DOMAIN accepted[n] : j >= i => ~Received(Peer[n], accepted[n][j])}

\* The application hands over a payload.
Accept(n) ==
  \E m \in Msg :
    /\ Source[m] = n /\ ~Accepted(n, m)
    /\ accepted' = [accepted EXCEPT ![n] = Append(@, m)]
    /\ UNCHANGED <<received, reported, closing>>

\* Errors are raised about some pending payloads of n: none of them will be delivered.
Report(n) ==
  \E failed \in SUBSET {accepted[n][i] : i \in Pending(n)} :
    /\ failed # {}
    /\ reported' = reported \cup failed
    /\ UNCHANGED <<accepted, received, closing>>

\* A pending payload of n is delivered.  Those overtaken never will be; an error is
\* raised about them, now if not before, unless they may be lost in silence.
Deliver(n) ==
  \E k \in Pending(n) :
    LET overtaken == {accepted[n][i] : i \in {j \in Pending(n) : j < k}} IN
    /\ received' = [received EXCEPT ![Peer[n]] = Append(@, accepted[n][k])]
    /\ \E failed \in SUBSET overtaken :
         /\ Peer[n] \notin closing => overtaken \ failed \subseteq Silent
         /\ reported' = reported \cup failed
    /\ UNCHANGED <<accepted, closing>>

Close(n) ==
  /\ closing' = closing \cup {n}
  /\ UNCHANGED <<accepted, received, reported>>

Next == \E n \in Node : Accept(n) \/ Report(n) \/ Deliver(n) \/ Close(n)

Spec == Init /\ [][Next]_vars

\* While no end is closed, no payload waits for ever unless its loss is silent.
Waits(m) == \E i \in Pending(Source[m]) : accepted[Source[m]][i] = m
Resolves == \A m \in Msg \ Silent : Waits(m) ~> ~Waits(m) \/ closing # {}

FairSpec == Spec /\ Resolves
=============================================================================
